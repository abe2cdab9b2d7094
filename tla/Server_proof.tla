---------------------------- MODULE Server_proof ----------------------------
(***************************************************************************)
(* Proofs about the control plane for any deliveries, runs, jobs,          *)
(* conditions, handlers and dispatchers: it keeps to the scheduling        *)
(* protocol, makes one run of a delivery and plans it, and skips a job for *)
(* its deferred condition only when final results make that false.         *)
(***************************************************************************)
EXTENDS Server, Scheduler_proof, WellFoundedInduction

ServerTypes ==
  /\ receipt \in [Delivery -> RunID \cup {"none", "recorded"}]
  /\ step \in [Handler -> {"idle", "compile", "create", "list", "plan"}]
  /\ mail \in [Handler -> Delivery]
  /\ left \in [Handler -> SUBSET JobRunID]
  /\ queue \subseteq JobRunID /\ batch \subseteq JobRunID
  /\ ingested \subseteq RunID

(***************************************************************************)
(* Every run is the one its delivery's record names, and the other way     *)
(* round.                                                                  *)
(***************************************************************************)
ReceiptsKnow ==
  /\ \A r \in RunID : runStatus[r] # "absent" => receipt[DeliveryOf[r]] = r
  /\ \A d \in Delivery : receipt[d] \in RunID => runStatus[receipt[d]] # "absent"

(***************************************************************************)
(* A handler about to create has an ID to create with; one that plans has  *)
(* a run, and jobs of it left to plan.                                     *)
(***************************************************************************)
HandlerKnows(h) ==
  /\ step[h] = "create" => RunsOf(mail[h]) # {}
  /\ step[h] \in {"list", "plan"} => receipt[mail[h]] \in RunID
  /\ step[h] = "plan" => left[h] # {} /\ left[h] \subseteq runJobs(receipt[mail[h]], status)

HandlersKnow == \A h \in Handler : HandlerKnows(h)

(***************************************************************************)
(* The loop works on jobs that exist, and decides only for conditions.     *)
(***************************************************************************)
LoopKnows ==
  /\ \A j \in queue \cup batch : status[j] # "absent"
  /\ \A j \in batch : Condition[j[1]] # ""

(***************************************************************************)
(* While a run is being planned, each of its first attempts is left, or    *)
(* has a plan, or has ended; then each has a plan or has ended.            *)
(***************************************************************************)
JobsCovered(h) ==
  step[h] = "plan" =>
    \A j \in runJobs(receipt[mail[h]], status) :
      j[2] = 1 => j \in left[h] \cup plans \/ status[j] \in JobTerminal

Ready(r) ==
  /\ runStatus[r] # "absent"
  /\ \A j \in runJobs(r, status) : j[2] = 1 => j \in plans \/ status[j] \in JobTerminal

PlanningOK ==
  /\ \A h \in Handler : JobsCovered(h)
  /\ \A r \in ingested : Ready(r)

ServerInv ==
  /\ ServerTypes /\ ReceiptsKnow /\ HandlersKnow /\ LoopKnows /\ PlanningOK

-----------------------------------------------------------------------------
(***************************************************************************)
(* A set of jobs has an oldest one.                                        *)
(***************************************************************************)
LEMMA OldestExists ==
  ASSUME born \in [JobRunID -> Nat], NEW S \in SUBSET JobRunID, S # {}
  PROVE  Oldest(S) \in S
<1> DEFINE T == {born[j] : j \in S}
           Less == {p \in Nat \X Nat : p[1] < p[2]}
<1>1. T \subseteq Nat /\ T # {}
  BY Zenon
<1>2. IsWellFoundedOn(Less, Nat)
  BY Zenon, NatLessThanWellFounded DEF OpToRel
<1> HIDE DEF T, Less
<1>3. PICK x \in T : \A y \in T : <<y, x>> \notin Less
  BY Zenon, <1>1, <1>2, WFMin
<1> USE DEF T, Less
<1>4. \A y \in T : ~(y < x)
  <2> HIDE DEF T
  <2> SUFFICES ASSUME NEW y \in T, y < x PROVE FALSE
    BY Zenon
  <2>1. x \in Nat /\ y \in Nat
    BY Zenon, <1>1
  <2>2. <<y, x>> \in Less
    BY Zenon, <2>1
  <2> QED
    BY Zenon, <2>2, <1>3
<1>5. \E j \in S : \A i \in S : born[j] <= born[i]
  <2>1. PICK j \in S : x = born[j]
    BY Zenon, <1>3
  <2>2. ASSUME NEW i \in S PROVE born[j] <= born[i]
    <3>1. born[i] \in T /\ born[i] \in Nat /\ born[j] \in Nat
      BY Zenon
    <3> QED
      BY <2>1, <3>1, <1>4
  <2> QED
    BY Zenon, <2>2
<1> QED
  BY Zenon, <1>5 DEF Oldest

-----------------------------------------------------------------------------
(***************************************************************************)
(* The scheduling protocol's steps that create no run.                     *)
(***************************************************************************)
Quiet ==
  \/ UNCHANGED vars
  \/ \E d \in Dispatcher : Dispatch(d)
  \/ \E j \in JobRunID : PodStep(j) \/ Rerequest(j)
  \/ \E j \in JobRunID, p \in ObservedPhase : Project(j, p)
  \/ \E j \in JobRunID, p \in {"skipped", "failed"} : ProjectCondition(j, p)
  \/ \E r \in RunID : Cancel(r)

LEMMA QuietIsNext == Quiet => [Next]_vars
  BY Zenon DEF Quiet, Next

(***************************************************************************)
(* They keep the runs there are.                                           *)
(***************************************************************************)
LEMMA QuietKeepsRuns ==
  ASSUME TypeOK, TypeOK', Quiet, NEW r \in RunID
  PROVE  runStatus'[r] = "absent" <=> runStatus[r] = "absent"
<1> DEFINE Kept == runStatus'[r] = "absent" <=> runStatus[r] = "absent"
<1>1. status' \in [JobRunID -> JobRunStatus \cup {"absent"}]
  BY Zenon DEF TypeOK
<1>2. ASSUME NEW R, runStatus' = refreshRuns(R, status') PROVE Kept
  BY Zenon, <1>1, <1>2, RefreshKeepsRecords
<1>3. ASSUME NEW d \in Dispatcher, Dispatch(d) PROVE Kept
  <2>1. CASE Claim(d)
    <3>1. PICK S \in SUBSET Candidates :
            /\ status' = Skip(S)
            /\ runStatus' = refreshRuns({RunOfJob(j) : j \in S}, Skip(S))
      BY Zenon, <2>1 DEF Claim, ClaimNextQueuedJob
    <3> QED
      BY Zenon, <3>1, <1>2
  <2>2. CASE ~Claim(d)
    BY Zenon, <1>3, <2>2 DEF Dispatch, Check, Create, CreateError, Ack, AckDispatched,
       AckRefused,
                      Release, ReleaseClaim, storeVars
  <2> QED
    BY Zenon, <2>1, <2>2
<1>4. ASSUME NEW j \in JobRunID, NEW p, ApplyObserved(j, p) PROVE Kept
  BY ZenonT(40), <1>2, <1>4 DEF ApplyObserved
<1>5. ASSUME NEW q \in RunID, Cancel(q) PROVE Kept
  BY ZenonT(40), <1>5 DEF Cancel, CancelRun, TypeOK
<1>6. ASSUME NEW j \in JobRunID, Rerequest(j) PROVE Kept
  BY Zenon, <1>6, JobRunParts DEF Rerequest, RerequestJob, RunTerminal, TypeOK
<1>7. ASSUME NEW j \in JobRunID, PodStep(j) PROVE Kept
  BY Zenon, <1>7 DEF PodStep, storeVars
<1>8. CASE UNCHANGED vars
  BY Zenon, <1>8 DEF vars, storeVars
<1> QED
  BY Zenon, <1>3, <1>4, <1>5, <1>6, <1>7, <1>8 DEF Quiet, Project, ProjectCondition

-----------------------------------------------------------------------------
(***************************************************************************)
(* Every step of the control plane is one of these or creates a new run    *)
(* for its delivery.                                                       *)
(***************************************************************************)
CreatesRun(h, r) ==
  /\ r \in RunID /\ DeliveryOf[r] = mail[h] /\ receipt[mail[h]] \notin RunID
  /\ Submit(r) /\ NewRun(h, r)
  /\ UNCHANGED <<mail, left, seen, ingested, plans, copying, loopVars>>

Creates(h) == \E r \in RunID : CreatesRun(h, r)

LEMMA ServerSteps ==
  ASSUME TypeOK, ServerTypes, ReceiptsKnow, HandlersKnow, LoopKnows,
         [ServerNext]_serverVars
  PROVE  Quiet \/ \E h \in Handler : Creates(h)
<1>1. ASSUME NEW h \in Handler, NEW d \in Delivery, RecordDelivery(h, d) PROVE Quiet
  BY Zenon, <1>1 DEF RecordDelivery, Quiet
<1>2. ASSUME NEW h \in Handler,
             Compile(h) \/ CompileStops(h) \/ ListJobRuns(h) \/ BuildPlansFails(h)
      PROVE  Quiet
  BY Zenon, <1>2 DEF Compile, CompileStops, ListJobRuns, BuildPlansFails, Quiet
<1>3. ASSUME NEW h \in Handler, IngestRun(h) PROVE Quiet \/ Creates(h)
  <2>1. CASE receipt[mail[h]] \in RunID
    BY Zenon, <1>3, <2>1 DEF IngestRun, Quiet, vars
  <2>2. CASE receipt[mail[h]] \notin RunID
    BY Zenon, <1>3, <2>2 DEF IngestRun, Creates, CreatesRun, RunsOf, NewRun, Submit
  <2> QED
    BY Zenon, <2>1, <2>2
<1>4. ASSUME NEW h \in Handler, PlanJob(h) PROVE Quiet
  <2> DEFINE j == Oldest(left[h])
  <2>1. left[h] \in SUBSET JobRunID /\ left[h] # {}
    BY Zenon, <1>4 DEF PlanJob, ServerTypes, HandlersKnow, HandlerKnows
  <2>2. j \in left[h]
    BY Zenon, <2>1, OldestExists DEF TypeOK
  <2>3. j \in JobRunID /\ Exists(j)
    BY Zenon, <1>4, <2>1, <2>2 DEF PlanJob, HandlersKnow, HandlerKnows, runJobs, Exists
  <2>4. UNCHANGED schedVars
    BY Zenon, <1>4 DEF PlanJob
  <2>5. UNCHANGED storeVars \/ (isEagerCondition(j) /\ ApplyObserved(j, "skipped"))
    BY Zenon, <1>4 DEF PlanJob
  <2> HIDE DEF j
  <2>6. CASE UNCHANGED storeVars
    BY Zenon, <2>4, <2>6 DEF Quiet, vars
  <2>7. CASE isEagerCondition(j) /\ ApplyObserved(j, "skipped")
    BY Zenon, <2>3, <2>4, <2>7 DEF Quiet, ProjectCondition, isEagerCondition
  <2> QED
    BY Zenon, <2>5, <2>6, <2>7
<1>5. ASSUME NEW j \in JobRunID, RerequestAttempt(j) \/ CopyPlan(j) PROVE Quiet
  BY Zenon, <1>5 DEF RerequestAttempt, CopyPlan, Quiet
<1>6. CASE ListQueuedJobs \/ RunEvaluated \/ \E r \in RunID : LoadRun(r)
  BY Zenon, <1>6 DEF ListQueuedJobs, RunEvaluated, LoadRun, Quiet
<1>7. CASE EvaluateNext
  <2> DEFINE j == Oldest(batch)
             phase == IF Broken(j) THEN "failed" ELSE "skipped"
  <2>1. batch \in SUBSET JobRunID /\ batch # {}
    BY Zenon, <1>7 DEF EvaluateNext, ServerTypes
  <2>2. j \in batch
    BY Zenon, <2>1, OldestExists DEF TypeOK
  <2>3. j \in JobRunID /\ Exists(j) /\ Condition[j[1]] # ""
    BY Zenon, <2>1, <2>2 DEF LoopKnows, Exists
  <2>4. UNCHANGED storeVars \/ ApplyObserved(j, phase)
    BY Zenon, <1>7 DEF EvaluateNext
  <2>5. UNCHANGED schedVars /\ phase \in {"skipped", "failed"}
    BY Zenon, <1>7 DEF EvaluateNext
  <2> HIDE DEF j, phase
  <2> QED
    BY Zenon, <2>3, <2>4, <2>5 DEF Quiet, ProjectCondition, vars
<1>8. ASSUME NEW d \in Dispatcher, Drain(d) PROVE Quiet
  <2>1. Dispatch(d)
    BY Zenon, <1>8 DEF Drain, Dispatch
  <2> QED
    BY Zenon, <2>1 DEF Quiet
<1>9. CASE Outside
  BY Zenon, <1>9 DEF Outside, Quiet
<1>10. CASE UNCHANGED serverVars
  BY Zenon, <1>10 DEF serverVars, Quiet
<1> QED
  BY Zenon, <1>1, <1>2, <1>3, <1>4, <1>5, <1>6, <1>7, <1>8, <1>9, <1>10
     DEF ServerNext, Handle, DispatchOnce

(***************************************************************************)
(* Hence every step is one of the protocol's.                              *)
(***************************************************************************)
LEMMA ServerStepIsNext ==
  ASSUME TypeOK, ServerInv, [ServerNext]_serverVars
  PROVE  [Next]_vars
<1>1. ASSUME NEW h \in Handler, Creates(h) PROVE Next
  BY Zenon, <1>1 DEF Creates, CreatesRun, Next
<1> QED
  BY Zenon, <1>1, ServerSteps, QuietIsNext DEF ServerInv

-----------------------------------------------------------------------------
(***************************************************************************)
(* The jobs of a run stay, and its first attempts were there from the      *)
(* start.                                                                  *)
(***************************************************************************)
LEMMA JobsStay ==
  ASSUME TypeOK, RecordsTogether, [Next]_vars, NEW r \in RunID
  PROVE  runJobs(r, status) \subseteq runJobs(r, status')
  BY Zenon, StatusStep DEF runJobs

LEMMA FirstAttemptsStay ==
  ASSUME RecordsTogether, NEW r \in RunID, runStatus[r] # "absent",
         NEW j \in runJobs(r, status'), j[2] = 1
  PROVE  j \in runJobs(r, status)
  BY Zenon DEF runJobs, RecordsTogether

(***************************************************************************)
(* Skipping an existing job ends it, unless it has ended.                  *)
(***************************************************************************)
LEMMA SkipEnds ==
  ASSUME TypeOK, NEW j \in JobRunID, Exists(j), ApplyObserved(j, "skipped")
  PROVE  status'[j] \in JobTerminal
<1>1. status[j] \in JobRunStatus
  BY Zenon DEF TypeOK, Exists
<1>2. status[j] \notin JobTerminal => CanAdvanceJob(status[j], "skipped")
  BY <1>1 DEF JobRunStatus, JobTerminal, CanAdvanceJob, jobRank
<1>3. PhaseChanges("skipped") /\ JobStatusFromPhase("skipped") = "skipped"
  BY Zenon DEF PhaseChanges, ObservedPhase, JobStatusFromPhase
<1> QED
  BY Zenon, <1>2, <1>3 DEF ApplyObserved, JobTerminal, TypeOK

-----------------------------------------------------------------------------
(***************************************************************************)
(* The control plane's records keep their types.                           *)
(***************************************************************************)
LEMMA ServerTypesStep ==
  ASSUME TypeOK, ServerTypes, ReceiptsKnow, HandlersKnow, LoopKnows,
         [ServerNext]_serverVars
  PROVE  ServerTypes'
<1> USE DEF ServerTypes
<1>1. ASSUME NEW h \in Handler, NEW d \in Delivery, RecordDelivery(h, d) PROVE ServerTypes'
  BY Zenon, <1>1 DEF RecordDelivery, loopVars
<1>2. ASSUME NEW h \in Handler, Compile(h) \/ CompileStops(h) PROVE ServerTypes'
  BY Zenon, <1>2 DEF Compile, CompileStops, loopVars
<1>3. ASSUME NEW h \in Handler, IngestRun(h) PROVE ServerTypes'
  <2>1. CASE receipt[mail[h]] \in RunID
    BY Zenon, <1>3, <2>1 DEF IngestRun, loopVars
  <2>2. CASE receipt[mail[h]] \notin RunID
    BY Zenon, <1>3, <2>2 DEF IngestRun, NewRun, RunsOf, loopVars
  <2> QED
    BY Zenon, <2>1, <2>2
<1>4. ASSUME NEW h \in Handler, ListJobRuns(h) PROVE ServerTypes'
  <2>1. runJobs(receipt[mail[h]], status) \in SUBSET JobRunID
    BY Zenon DEF runJobs
  <2> QED
    BY Zenon, <1>4, <2>1 DEF ListJobRuns, loopVars
<1>5. ASSUME NEW h \in Handler, PlanJob(h) PROVE ServerTypes'
  <2> DEFINE j == Oldest(left[h])
  <2>1. left[h] \in SUBSET JobRunID /\ left[h] # {}
    BY Zenon, <1>5 DEF PlanJob, HandlersKnow, HandlerKnows
  <2>2. j \in JobRunID
    BY Zenon, <2>1, OldestExists DEF TypeOK
  <2>3. Planned(h, j) /\ UNCHANGED <<receipt, mail, loopVars>>
    BY Zenon, <1>5 DEF PlanJob
  <2> HIDE DEF j
  <2> QED
    BY Zenon, <2>2, <2>3, JobRunParts DEF Planned, loopVars
<1>6. ASSUME NEW h \in Handler, BuildPlansFails(h) PROVE ServerTypes'
  BY Zenon, <1>6 DEF BuildPlansFails, loopVars
<1>7. ASSUME NEW j \in JobRunID, RerequestAttempt(j) \/ CopyPlan(j) PROVE ServerTypes'
  BY Zenon, <1>7 DEF RerequestAttempt, CopyPlan, handlerVars, loopVars
<1>8. CASE ListQueuedJobs \/ RunEvaluated \/ \E r \in RunID : LoadRun(r)
  BY Zenon, <1>8 DEF ListQueuedJobs, RunEvaluated, LoadRun, handlerVars
<1>9. CASE EvaluateNext
  BY Zenon, <1>9 DEF EvaluateNext, handlerVars
<1>10. ASSUME NEW d \in Dispatcher, Drain(d) PROVE ServerTypes'
  BY Zenon, <1>10 DEF Drain, handlerVars
<1>11. CASE Outside \/ UNCHANGED serverVars
  BY Zenon, <1>11 DEF Outside, serverVars, handlerVars, loopVars
<1> QED
  BY Zenon, <1>1, <1>2, <1>3, <1>4, <1>5, <1>6, <1>7, <1>8, <1>9, <1>10, <1>11
     DEF ServerNext, Handle, DispatchOnce

(***************************************************************************)
(* The loop's listings hold existing jobs, which never go away.            *)
(***************************************************************************)
LEMMA LoopStep ==
  ASSUME TypeOK, RecordsTogether, [Next]_vars, ServerTypes, LoopKnows,
         [ServerNext]_serverVars
  PROVE  LoopKnows'
<1>1. \A j \in JobRunID : status[j] # "absent" => status'[j] # "absent"
  BY Zenon, StatusStep
<1>2. CASE ListQueuedJobs
  <2>1. queue' = {j \in JobRunID : status[j] = "queued"} /\ batch' = batch
    BY Zenon, <1>2 DEF ListQueuedJobs
  <2> QED
    BY Zenon, <1>1, <2>1 DEF LoopKnows, ServerTypes
<1>3. ASSUME NEW r \in RunID, LoadRun(r) PROVE LoopKnows'
  <2>1. /\ batch' \subseteq queue /\ queue' \subseteq queue
        /\ \A j \in batch' : Condition[j[1]] \in Deferred
    BY Zenon, <1>3 DEF LoadRun, isDeferredCondition
  <2> QED
    BY Zenon, <1>1, <2>1 DEF LoopKnows, ServerTypes, Deferred
<1>4. CASE queue' = queue /\ batch' \subseteq batch
  BY Zenon, <1>1, <1>4 DEF LoopKnows, ServerTypes
<1>5. CASE EvaluateNext \/ RunEvaluated \/ Outside \/ UNCHANGED serverVars
           \/ \E d \in Dispatcher : Drain(d)
  BY Zenon, <1>4, <1>5 DEF EvaluateNext, RunEvaluated, Outside, serverVars, Drain, loopVars
<1>6. ASSUME NEW h \in Handler, Handle(h) PROVE UNCHANGED <<queue, batch>>
  BY Zenon, <1>6 DEF Handle, Compile, CompileStops, IngestRun, ListJobRuns, PlanJob,
     BuildPlansFails,
              loopVars
<1>7. ASSUME NEW h \in Handler, NEW d \in Delivery, RecordDelivery(h, d)
      PROVE  UNCHANGED <<queue, batch>>
  BY Zenon, <1>7 DEF RecordDelivery, loopVars
<1>8. ASSUME NEW j \in JobRunID, RerequestAttempt(j) \/ CopyPlan(j)
      PROVE  UNCHANGED <<queue, batch>>
  BY Zenon, <1>8 DEF RerequestAttempt, CopyPlan, loopVars
<1> QED
  BY Zenon, <1>2, <1>3, <1>4, <1>5, <1>6, <1>7, <1>8 DEF ServerNext, DispatchOnce

(***************************************************************************)
(* What one step does to the delivery records and to the handlers: a       *)
(* delivery without a run is recorded, a run is created, jobs are listed   *)
(* or planned, a handler goes on or ends, or nothing of it happens.        *)
(***************************************************************************)
Moves(h) ==
  /\ step' \in {[step EXCEPT ![h] = "idle"], [step EXCEPT ![h] = "create"]}
  /\ step'[h] = "create" => RunsOf(mail[h]) # {}
  /\ left' \in {left, [left EXCEPT ![h] = {}]}
  /\ UNCHANGED <<receipt, mail, ingested, plans>> /\ Quiet

Rests == UNCHANGED handlerVars /\ plans \subseteq plans' /\ Quiet

LEMMA HandlerSteps ==
  ASSUME TypeOK, ServerTypes, ReceiptsKnow, HandlersKnow, LoopKnows,
         [ServerNext]_serverVars
  PROVE  \/ \E h \in Handler, d \in Delivery : RecordDelivery(h, d)
         \/ \E h \in Handler : Creates(h) \/ ListJobRuns(h) \/ PlanJob(h) \/ Moves(h)
         \/ Rests
<1>0. Quiet \/ \E h \in Handler : Creates(h)
  BY Zenon, ServerSteps
<1>1. ASSUME NEW h \in Handler, Compile(h) PROVE Moves(h) \/ \E g \in Handler : Creates(g)
  <2>1. /\ step' = [step EXCEPT ![h] = "create"] /\ RunsOf(mail[h]) # {}
        /\ UNCHANGED <<receipt, mail, left, ingested, plans>>
    BY Zenon, <1>1 DEF Compile
  <2> QED
    BY Zenon, <1>0, <2>1 DEF Moves
<1>2. ASSUME NEW h \in Handler, CompileStops(h) PROVE Moves(h) \/ \E g \in Handler : Creates(g)
  <2>1. /\ step' = [step EXCEPT ![h] = "idle"]
        /\ UNCHANGED <<receipt, mail, left, ingested, plans>>
    BY Zenon, <1>2 DEF CompileStops
  <2> QED
    BY Zenon, <1>0, <2>1 DEF Moves, ServerTypes
<1>3. ASSUME NEW h \in Handler, BuildPlansFails(h)
      PROVE  Moves(h) \/ \E g \in Handler : Creates(g)
  <2>1. /\ step' = [step EXCEPT ![h] = "idle"] /\ left' = [left EXCEPT ![h] = {}]
        /\ UNCHANGED <<receipt, mail, ingested, plans>>
    BY Zenon, <1>3 DEF BuildPlansFails
  <2> QED
    BY Zenon, <1>0, <2>1 DEF Moves, ServerTypes
<1>4. ASSUME NEW h \in Handler, IngestRun(h)
      PROVE  Moves(h) \/ \E g \in Handler : Creates(g)
  <2>1. CASE receipt[mail[h]] \in RunID
    <3>1. /\ step' = [step EXCEPT ![h] = "idle"]
          /\ UNCHANGED <<receipt, mail, left, ingested, plans>>
      BY Zenon, <1>4, <2>1 DEF IngestRun
    <3> QED
      BY Zenon, <1>0, <3>1 DEF Moves, ServerTypes
  <2>2. CASE receipt[mail[h]] \notin RunID
    BY Zenon, <1>4, <2>2 DEF IngestRun, Creates, CreatesRun, RunsOf, NewRun, Submit
  <2> QED
    BY Zenon, <2>1, <2>2
<1>5. ASSUME UNCHANGED handlerVars, plans \subseteq plans'
      PROVE  Rests \/ \E g \in Handler : Creates(g)
  BY Zenon, <1>0, <1>5 DEF Rests
<1>6. ASSUME NEW j \in JobRunID, RerequestAttempt(j) \/ CopyPlan(j)
      PROVE  UNCHANGED handlerVars /\ plans \subseteq plans'
  BY Zenon, <1>6 DEF RerequestAttempt, CopyPlan
<1>7. CASE DispatchOnce
  BY Zenon, <1>7, <1>5 DEF DispatchOnce, ListQueuedJobs, RunEvaluated, LoadRun,
     EvaluateNext, Drain
<1>8. CASE Outside \/ UNCHANGED serverVars
  BY Zenon, <1>8, <1>5 DEF Outside, serverVars
<1> QED
  BY Zenon, <1>1, <1>2, <1>3, <1>4, <1>5, <1>6, <1>7, <1>8 DEF ServerNext, Handle

(***************************************************************************)
(* Deliveries and runs stay in step.                                       *)
(***************************************************************************)
LEMMA ReceiptsStep ==
  ASSUME TypeOK, TypeOK', ServerTypes, ReceiptsKnow, HandlersKnow, LoopKnows,
         [ServerNext]_serverVars
  PROVE  ReceiptsKnow'
<1> USE ServerAssumption
<1>1. ASSUME NEW h \in Handler, NEW d \in Delivery, RecordDelivery(h, d) PROVE ReceiptsKnow'
  <2>1. /\ receipt[d] \notin RunID /\ receipt' = [receipt EXCEPT ![d] = "recorded"]
        /\ runStatus' = runStatus
    BY Zenon, <1>1 DEF RecordDelivery, vars, storeVars
  <2>2. \A r \in RunID : DeliveryOf[r] = d => runStatus[r] = "absent"
    BY ZenonT(40), <2>1 DEF ReceiptsKnow
  <2> QED
    BY ZenonT(40), <2>1, <2>2 DEF ReceiptsKnow, ServerTypes
<1>2. ASSUME NEW h \in Handler, Creates(h) PROVE ReceiptsKnow'
  <2> DEFINE d == mail[h]
  <2>q. PICK q \in RunID : CreatesRun(h, q)
    BY Zenon, <1>2 DEF Creates
  <2>1. d \in Delivery /\ q \in RunID /\ DeliveryOf[q] = d /\ receipt[d] \notin RunID
    BY Zenon, <2>q DEF CreatesRun, ServerTypes
  <2>2. receipt' = [receipt EXCEPT ![d] = q] /\ runStatus' = [runStatus EXCEPT ![q] = "queued"]
    BY Zenon, <2>q DEF CreatesRun, NewRun, CreateRun
  <2>3. \A r \in RunID : DeliveryOf[r] = d => runStatus[r] = "absent"
    BY ZenonT(40), <2>1 DEF ReceiptsKnow
  <2>t. /\ runStatus \in [RunID -> WorkflowRunStatus \cup {"absent"}]
        /\ receipt \in [Delivery -> RunID \cup {"none", "recorded"}]
    BY Zenon DEF TypeOK, ServerTypes
  <2> HIDE DEF d
  <2>4. ASSUME NEW r \in RunID, runStatus'[r] # "absent" PROVE receipt'[DeliveryOf[r]] = r
    <3>1. CASE r = q
      BY Zenon, <2>1, <2>2, <2>t, <3>1
    <3>2. CASE r # q
      <4>1. runStatus[r] # "absent" /\ DeliveryOf[r] # d
        BY Zenon, <2>2, <2>3, <2>t, <2>4, <3>2
      <4> QED
        BY Zenon, <2>2, <2>t, <4>1 DEF ReceiptsKnow
    <3> QED
      BY Zenon, <3>1, <3>2
  <2>5. ASSUME NEW e \in Delivery, receipt'[e] \in RunID PROVE runStatus'[receipt'[e]] # "absent"
    BY Zenon, <2>1, <2>2, <2>t, <2>5 DEF ReceiptsKnow
  <2> QED
    BY Zenon, <2>4, <2>5 DEF ReceiptsKnow
<1>3. ASSUME Quiet, receipt' = receipt PROVE ReceiptsKnow'
  BY Zenon, <1>3, QuietKeepsRuns DEF ReceiptsKnow
<1>4. ASSUME NEW h \in Handler, ListJobRuns(h) \/ PlanJob(h) \/ Moves(h)
      PROVE  receipt' = receipt
  BY Zenon, <1>4 DEF ListJobRuns, PlanJob, Moves
<1>5. Rests => receipt' = receipt
  BY Zenon DEF Rests, handlerVars
<1> QED
  BY Zenon, <1>1, <1>2, <1>3, <1>4, <1>5, HandlerSteps, ServerSteps

-----------------------------------------------------------------------------
(***************************************************************************)
(* A run stays, and so does what is known of its jobs.                     *)
(***************************************************************************)
LEMMA RunsStay ==
  ASSUME TypeOK, RecordsTogether, RecordsTogether', [Next]_vars,
         NEW r \in RunID, runStatus[r] # "absent"
  PROVE  runStatus'[r] # "absent"
<1>1. PICK k \in JobKey : RunOf[k] = r
  BY Zenon, StoreAssumption
<1>2. <<k, 1>> \in JobRunID /\ RunOfJob(<<k, 1>>) = r /\ <<k, 1>>[2] = 1
  BY <1>1, StoreAssumption DEF JobRunID, RunOfJob
<1>3. status[<<k, 1>>] # "absent"
  BY Zenon, <1>2 DEF RecordsTogether
<1>4. status'[<<k, 1>>] # "absent"
  BY Zenon, <1>2, <1>3, StatusStep
<1> QED
  BY Zenon, <1>2, <1>4 DEF RecordsTogether, RunOfJob

LEMMA ReadyStays ==
  ASSUME TypeOK, RecordsTogether, RecordsTogether', [Next]_vars, plans \subseteq plans',
         NEW r \in RunID, Ready(r)
  PROVE  Ready(r)'
<1>1. runStatus'[r] # "absent"
  BY Zenon, RunsStay DEF Ready
<1>2. ASSUME NEW j \in runJobs(r, status'), j[2] = 1
      PROVE  j \in plans' \/ status'[j] \in JobTerminal
  <2>1. j \in runJobs(r, status) /\ j \in JobRunID
    BY Zenon, <1>2, FirstAttemptsStay DEF Ready, runJobs
  <2>2. j \in plans \/ status[j] \in JobTerminal
    BY Zenon, <1>2, <2>1 DEF Ready
  <2> QED
    BY Zenon, <2>1, <2>2, StatusStep
<1>3. Ready(r)' = (/\ runStatus'[r] # "absent"
                   /\ \A j \in runJobs(r, status') :
                        j[2] = 1 => j \in plans' \/ status'[j] \in JobTerminal)
  BY Zenon DEF Ready, runJobs, RunOfJob
<1> QED
  BY Zenon, <1>1, <1>2, <1>3

(***************************************************************************)
(* A handler that a step leaves alone knows what it knew.                  *)
(***************************************************************************)
LEMMA HandlerKept ==
  ASSUME TypeOK, RecordsTogether, [Next]_vars, ServerTypes, ReceiptsKnow,
         plans \subseteq plans', NEW h \in Handler, HandlerKnows(h), JobsCovered(h),
         step'[h] = step[h], mail'[h] = mail[h], left'[h] = left[h],
         step[h] \in {"list", "plan"} => receipt'[mail[h]] = receipt[mail[h]]
  PROVE  HandlerKnows(h)' /\ JobsCovered(h)'
<1> DEFINE r == receipt[mail[h]]
<1>1. CASE step[h] # "plan"
  BY Zenon, <1>1 DEF HandlerKnows, JobsCovered, RunsOf
<1>2. CASE step[h] = "plan"
  <2>1. r \in RunID /\ runStatus[r] # "absent" /\ receipt'[mail'[h]] = r
    BY Zenon, <1>2 DEF HandlerKnows, ReceiptsKnow, ServerTypes
  <2>2. runJobs(r, status) \subseteq runJobs(r, status')
    BY Zenon, <2>1, JobsStay
  <2>3. ASSUME NEW j \in runJobs(r, status'), j[2] = 1
        PROVE  j \in left'[h] \cup plans' \/ status'[j] \in JobTerminal
    <3>1. j \in runJobs(r, status) /\ j \in JobRunID
      BY Zenon, <2>1, <2>3, FirstAttemptsStay DEF runJobs
    <3> QED
      BY Zenon, <1>2, <2>3, <3>1, StatusStep DEF JobsCovered
  <2>4. HandlerKnows(h)'
    BY Zenon, <1>2, <2>1, <2>2 DEF HandlerKnows, runJobs, RunOfJob
  <2>5. JobsCovered(h)'
    BY Zenon, <1>2, <2>1, <2>3 DEF JobsCovered, runJobs, RunOfJob
  <2> QED
    BY Zenon, <2>4, <2>5
<1> QED
  BY Zenon, <1>1, <1>2

(***************************************************************************)
(* The job a handler plans next, and what becomes of it.                   *)
(***************************************************************************)
LEMMA PlanJobStep ==
  ASSUME TypeOK, ServerTypes, ReceiptsKnow, HandlersKnow, NEW h \in Handler, PlanJob(h)
  PROVE  \E j \in left[h] :
           /\ receipt[mail[h]] \in RunID /\ runStatus[receipt[mail[h]]] # "absent"
           /\ RunOfJob(j) = receipt[mail[h]]
           /\ step[h] = "plan" /\ Planned(h, j) /\ UNCHANGED <<receipt, mail>>
           /\ plans \subseteq plans'
           /\ j \in plans' \/ status'[j] \in JobTerminal
<1> DEFINE j == Oldest(left[h])
           r == receipt[mail[h]]
<1>1. /\ step[h] = "plan" /\ left[h] \in SUBSET JobRunID /\ left[h] # {}
      /\ left[h] \subseteq runJobs(r, status)
      /\ r \in RunID /\ runStatus[r] # "absent"
  BY Zenon DEF PlanJob, ServerTypes, HandlersKnow, HandlerKnows, ReceiptsKnow
<1>2. j \in left[h]
  BY Zenon, <1>1, OldestExists DEF TypeOK
<1>3. j \in JobRunID /\ Exists(j) /\ RunOfJob(j) = r
  BY Zenon, <1>1, <1>2 DEF runJobs, Exists
<1>4. Planned(h, j) /\ UNCHANGED <<receipt, mail>>
  BY Zenon DEF PlanJob
<1>5. \/ ApplyObserved(j, "skipped") /\ UNCHANGED plans
      \/ plans' = plans \cup {j}
  BY Zenon DEF PlanJob
<1> HIDE DEF j
<1>6. /\ plans \subseteq plans'
      /\ j \in plans' \/ status'[j] \in JobTerminal
  BY Zenon, <1>3, <1>5, SkipEnds
<1> QED
  BY Zenon, <1>1, <1>2, <1>3, <1>4, <1>6

(***************************************************************************)
(* Every step keeps what the handlers know, and loses no job to plan.      *)
(***************************************************************************)
LEMMA HandlersStep ==
  ASSUME TypeOK, TypeOK', RecordsTogether, RecordsTogether', [Next]_vars, ServerInv,
         [ServerNext]_serverVars
  PROVE  HandlersKnow' /\ PlanningOK'
<1> USE DEF ServerInv
<1>0. /\ step \in [Handler -> {"idle", "compile", "create", "list", "plan"}]
      /\ mail \in [Handler -> Delivery] /\ left \in [Handler -> SUBSET JobRunID]
      /\ receipt \in [Delivery -> RunID \cup {"none", "recorded"}]
      /\ ingested \subseteq RunID
      /\ \A h \in Handler : HandlerKnows(h) /\ JobsCovered(h)
  BY Zenon DEF ServerTypes, HandlersKnow, PlanningOK
<1> DEFINE Fine(h) == HandlerKnows(h)' /\ JobsCovered(h)'
<1>1. ASSUME plans \subseteq plans', ingested' = ingested PROVE \A r \in ingested' : Ready(r)'
  BY Zenon, <1>0, <1>1, ReadyStays DEF PlanningOK
<1>2. ASSUME \A h \in Handler : Fine(h), \A r \in ingested' : Ready(r)'
      PROVE  HandlersKnow' /\ PlanningOK'
  BY Zenon, <1>2 DEF HandlersKnow, PlanningOK
<1>3. ASSUME NEW h \in Handler, NEW d \in Delivery, RecordDelivery(h, d)
      PROVE  HandlersKnow' /\ PlanningOK'
  <2>1. /\ receipt[d] \notin RunID /\ receipt' = [receipt EXCEPT ![d] = "recorded"]
        /\ step' = [step EXCEPT ![h] = "compile"] /\ mail' = [mail EXCEPT ![h] = d]
        /\ left' = left /\ plans' = plans /\ ingested' = ingested
    BY Zenon, <1>3 DEF RecordDelivery
  <2>2. ASSUME NEW g \in Handler PROVE Fine(g)
    <3>1. CASE g = h
      BY Zenon, <1>0, <2>1, <3>1 DEF HandlerKnows, JobsCovered
    <3>2. CASE g # h
      <4>1. step'[g] = step[g] /\ mail'[g] = mail[g] /\ left'[g] = left[g]
        BY Zenon, <1>0, <2>1, <3>2
      <4>2. step[g] \in {"list", "plan"} => receipt'[mail[g]] = receipt[mail[g]]
        BY Zenon, <1>0, <2>1 DEF HandlerKnows
      <4> QED
        BY Zenon, <1>0, <2>1, <4>1, <4>2, HandlerKept
    <3> QED
      BY Zenon, <3>1, <3>2
  <2> QED
    BY Zenon, <1>1, <1>2, <2>1, <2>2
<1>4. ASSUME NEW h \in Handler, Creates(h) PROVE HandlersKnow' /\ PlanningOK'
  <2> DEFINE d == mail[h]
  <2>q. PICK q \in RunID : CreatesRun(h, q)
    BY Zenon, <1>4 DEF Creates
  <2>1. q \in RunID /\ d \in Delivery /\ receipt[d] \notin RunID
    BY Zenon, <1>0, <2>q DEF CreatesRun
  <2>2. /\ receipt' = [receipt EXCEPT ![d] = q] /\ step' = [step EXCEPT ![h] = "list"]
        /\ mail' = mail /\ left' = left /\ plans' = plans /\ ingested' = ingested
    BY Zenon, <2>q DEF CreatesRun, NewRun
  <2>3. ASSUME NEW g \in Handler PROVE Fine(g)
    <3>1. CASE g = h
      <4>1. step'[h] = "list" /\ receipt'[mail'[h]] = q
        BY Zenon, <1>0, <2>1, <2>2
      <4> QED
        BY Zenon, <2>1, <3>1, <4>1 DEF HandlerKnows, JobsCovered
    <3>2. CASE g # h
      <4>1. step'[g] = step[g] /\ mail'[g] = mail[g] /\ left'[g] = left[g]
        BY Zenon, <1>0, <2>2, <3>2
      <4>2. step[g] \in {"list", "plan"} => receipt'[mail[g]] = receipt[mail[g]]
        BY Zenon, <1>0, <2>1, <2>2 DEF HandlerKnows
      <4> QED
        BY Zenon, <1>0, <2>2, <4>1, <4>2, HandlerKept
    <3> QED
      BY Zenon, <3>1, <3>2
  <2> QED
    BY Zenon, <1>1, <1>2, <2>2, <2>3
<1>5. ASSUME NEW h \in Handler, ListJobRuns(h) PROVE HandlersKnow' /\ PlanningOK'
  <2> DEFINE r == receipt[mail[h]]
  <2>1. r \in RunID /\ runStatus[r] # "absent"
    BY Zenon, <1>0, <1>5 DEF ListJobRuns, HandlerKnows, ReceiptsKnow
  <2>2. /\ step' = [step EXCEPT ![h] = "plan"] /\ status' = status
        /\ left' = [left EXCEPT ![h] = runJobs(r, status)]
        /\ receipt' = receipt /\ mail' = mail /\ plans' = plans /\ ingested' = ingested
    BY Zenon, <1>5 DEF ListJobRuns, vars, storeVars
  <2>3. runJobs(r, status) # {}
    BY Zenon, <2>1, RunHasJob DEF RecordsTogether
  <2>4. ASSUME NEW g \in Handler PROVE Fine(g)
    <3>1. CASE g = h
      <4>1. step'[h] = "plan" /\ left'[h] = runJobs(r, status) /\ receipt'[mail'[h]] = r
        BY Zenon, <1>0, <2>2
      <4> QED
        BY Zenon, <2>1, <2>2, <2>3, <3>1, <4>1 DEF HandlerKnows, JobsCovered, runJobs, RunOfJob
    <3>2. CASE g # h
      <4>1. step'[g] = step[g] /\ mail'[g] = mail[g] /\ left'[g] = left[g]
        BY Zenon, <1>0, <2>2, <3>2
      <4> QED
        BY Zenon, <1>0, <2>2, <4>1, HandlerKept
    <3> QED
      BY Zenon, <3>1, <3>2
  <2> QED
    BY Zenon, <1>1, <1>2, <2>2, <2>4
<1>6. ASSUME NEW h \in Handler, PlanJob(h) PROVE HandlersKnow' /\ PlanningOK'
  <2> DEFINE r == receipt[mail[h]]
  <2>1. PICK j \in left[h] :
          /\ r \in RunID /\ runStatus[r] # "absent" /\ RunOfJob(j) = r
          /\ step[h] = "plan" /\ Planned(h, j) /\ UNCHANGED <<receipt, mail>>
          /\ plans \subseteq plans'
          /\ j \in plans' \/ status'[j] \in JobTerminal
    BY Zenon, <1>6, PlanJobStep
  <2>2. /\ left' = [left EXCEPT ![h] = @ \ {j}]
        /\ step' = [step EXCEPT ![h] = IF left[h] = {j} THEN "idle" ELSE "plan"]
        /\ ingested' = IF left[h] = {j} THEN ingested \cup {r} ELSE ingested
    BY Zenon, <2>1 DEF Planned
  <2>3. ASSUME NEW i \in runJobs(r, status'), i[2] = 1
        PROVE  i \in (left[h] \ {j}) \cup plans' \/ status'[i] \in JobTerminal
    <3>1. i \in runJobs(r, status) /\ i \in JobRunID
      BY Zenon, <2>1, <2>3, FirstAttemptsStay DEF runJobs
    <3>2. i \in left[h] \cup plans \/ status[i] \in JobTerminal
      BY Zenon, <1>0, <2>1, <2>3, <3>1 DEF JobsCovered
    <3> QED
      BY Zenon, <2>1, <3>1, <3>2, StatusStep
  <2>4. runJobs(r, status) \subseteq runJobs(r, status')
    BY Zenon, <2>1, JobsStay
  <2>5. ASSUME NEW g \in Handler PROVE Fine(g)
    <3>1. CASE g = h /\ left[h] = {j}
      <4>1. step'[h] = "idle"
        BY Zenon, <1>0, <2>2, <3>1
      <4> QED
        BY Zenon, <3>1, <4>1 DEF HandlerKnows, JobsCovered
    <3>2. CASE g = h /\ left[h] # {j}
      <4>1. /\ step'[h] = "plan" /\ left'[h] = left[h] \ {j} /\ left'[h] # {}
            /\ receipt'[mail'[h]] = r
        BY Zenon, <1>0, <2>1, <2>2, <3>2
      <4>2. left'[h] \subseteq runJobs(r, status')
        BY Zenon, <1>0, <2>1, <2>4, <4>1 DEF HandlerKnows
      <4>3. HandlerKnows(h)'
        BY Zenon, <2>1, <4>1, <4>2 DEF HandlerKnows, runJobs, RunOfJob
      <4>4. JobsCovered(h)'
        BY Zenon, <2>3, <4>1 DEF JobsCovered, runJobs, RunOfJob
      <4> QED
        BY Zenon, <3>2, <4>3, <4>4
    <3>3. CASE g # h
      <4>1. step'[g] = step[g] /\ mail'[g] = mail[g] /\ left'[g] = left[g]
        BY Zenon, <1>0, <2>1, <2>2, <3>3
      <4> QED
        BY Zenon, <1>0, <2>1, <4>1, HandlerKept
    <3> QED
      BY Zenon, <3>1, <3>2, <3>3
  <2>6. ASSUME NEW q \in ingested' PROVE Ready(q)'
    <3>1. CASE q \in ingested
      BY Zenon, <1>0, <2>1, <3>1, ReadyStays DEF PlanningOK
    <3>2. CASE q \notin ingested
      <4>1. q = r /\ left[h] = {j}
        BY Zenon, <2>2, <2>6, <3>2
      <4>2. runStatus'[r] # "absent"
        BY Zenon, <2>1, RunsStay
      <4>3. \A i \in runJobs(r, status') : i[2] = 1 => i \in plans' \/ status'[i] \in JobTerminal
        BY Zenon, <2>3, <4>1
      <4> HIDE DEF r
      <4> QED
        BY Zenon, <4>1, <4>2, <4>3 DEF Ready, runJobs, RunOfJob
    <3> QED
      BY Zenon, <3>1, <3>2
  <2> QED
    BY Zenon, <1>2, <2>5, <2>6
<1>7. ASSUME NEW h \in Handler, Moves(h) PROVE HandlersKnow' /\ PlanningOK'
  <2>1. /\ step' \in {[step EXCEPT ![h] = "idle"], [step EXCEPT ![h] = "create"]}
        /\ step'[h] = "create" => RunsOf(mail[h]) # {}
        /\ left' \in {left, [left EXCEPT ![h] = {}]}
        /\ receipt' = receipt /\ mail' = mail /\ ingested' = ingested /\ plans' = plans
    BY Zenon, <1>7 DEF Moves
  <2>2. ASSUME NEW g \in Handler PROVE Fine(g)
    <3>1. CASE g = h
      <4>1. step'[h] \in {"idle", "create"}
        BY Zenon, <1>0, <2>1
      <4> QED
        BY Zenon, <2>1, <3>1, <4>1 DEF HandlerKnows, JobsCovered, RunsOf
    <3>2. CASE g # h
      <4>1. step'[g] = step[g] /\ mail'[g] = mail[g] /\ left'[g] = left[g]
        BY Zenon, <1>0, <2>1, <3>2
      <4> QED
        BY Zenon, <1>0, <2>1, <4>1, HandlerKept
    <3> QED
      BY Zenon, <3>1, <3>2
  <2> QED
    BY Zenon, <1>1, <1>2, <2>1, <2>2
<1>8. CASE Rests
  <2>1. /\ receipt' = receipt /\ step' = step /\ mail' = mail /\ left' = left
        /\ ingested' = ingested /\ plans \subseteq plans'
    BY Zenon, <1>8 DEF Rests, handlerVars
  <2>2. ASSUME NEW g \in Handler PROVE Fine(g)
    BY Zenon, <1>0, <2>1, HandlerKept
  <2> QED
    BY Zenon, <1>1, <1>2, <2>1, <2>2
<1> QED
  BY Zenon, <1>3, <1>4, <1>5, <1>6, <1>7, <1>8, HandlerSteps

-----------------------------------------------------------------------------
(***************************************************************************)
(* The protocol's initial state has its type and its records.              *)
(***************************************************************************)
LEMMA InitialState == Init => TypeOK /\ RecordsTogether
  BY Zenon, InitType, JobRunParts DEF Init, StoreInit, RecordsTogether

(***************************************************************************)
(* The inductive invariant of the control plane, together with the         *)
(* protocol's own records: a delivery and its run know each other, and a   *)
(* run is planned job by job until each job has a plan or has ended.       *)
(***************************************************************************)
THEOREM ServerInvariant == ServerSpec => [](TypeOK /\ RecordsTogether /\ ServerInv)
<1>1. ServerInit => TypeOK /\ RecordsTogether /\ ServerInv
  <2> SUFFICES ASSUME ServerInit PROVE TypeOK /\ RecordsTogether /\ ServerInv
    BY Zenon
  <2>1. TypeOK /\ RecordsTogether
    BY Zenon, InitialState DEF ServerInit
  <2>2. ServerTypes
    BY Zenon, ServerAssumption DEF ServerInit, ServerTypes
  <2>3. ReceiptsKnow
    BY Zenon, ServerAssumption DEF ServerInit, Init, StoreInit, ReceiptsKnow
  <2>4. HandlersKnow /\ LoopKnows /\ PlanningOK
    BY Zenon DEF ServerInit, HandlersKnow, HandlerKnows, LoopKnows, PlanningOK, JobsCovered
  <2> QED
    BY Zenon, <2>1, <2>2, <2>3, <2>4 DEF ServerInv
<1>2. TypeOK /\ RecordsTogether /\ ServerInv /\ [ServerNext]_serverVars
        => TypeOK' /\ RecordsTogether' /\ ServerInv'
  <2> SUFFICES ASSUME TypeOK, RecordsTogether, ServerInv, [ServerNext]_serverVars
               PROVE  TypeOK' /\ RecordsTogether' /\ ServerInv'
    BY Zenon
  <2>1. [Next]_vars
    BY Zenon, ServerStepIsNext
  <2>2. TypeOK' /\ RecordsTogether'
    BY Zenon, <2>1, TypeStep, RecordsTogetherStep
  <2>3. ServerTypes' /\ ReceiptsKnow' /\ LoopKnows'
    BY Zenon, <2>1, <2>2, ServerTypesStep, ReceiptsStep, LoopStep DEF ServerInv
  <2>4. HandlersKnow' /\ PlanningOK'
    BY Zenon, <2>1, <2>2, HandlersStep
  <2> QED
    BY Zenon, <2>2, <2>3, <2>4 DEF ServerInv
<1> QED
  BY <1>1, <1>2, PTL DEF ServerSpec

(***************************************************************************)
(* The control plane implements the scheduling protocol.                   *)
(***************************************************************************)
THEOREM ServerImplementsScheduler == ServerSpec => ImplementsScheduler
<1>1. ServerInit => Init
  BY Zenon DEF ServerInit
<1>2. TypeOK /\ RecordsTogether /\ ServerInv /\ [ServerNext]_serverVars => [Next]_vars
  BY Zenon, ServerStepIsNext
<1> QED
  BY <1>1, <1>2, ServerInvariant, PTL DEF ServerSpec, ImplementsScheduler, Spec

(***************************************************************************)
(* A delivery leads to one run.                                            *)
(***************************************************************************)
THEOREM DeliveryHasOneRun == ServerSpec => []OneRunPerDelivery
<1>1. ServerInv => OneRunPerDelivery
  BY Zenon DEF ServerInv, ReceiptsKnow, OneRunPerDelivery
<1> QED
  BY <1>1, ServerInvariant, PTL

(***************************************************************************)
(* Once Ingest has returned, every job of the run has a plan or has ended. *)
(***************************************************************************)
THEOREM IngestedRunsArePlanned == ServerSpec => []RunsArePlanned
<1>1. ServerInv => RunsArePlanned
  BY Zenon DEF ServerInv, PlanningOK, Ready, RunsArePlanned
<1> QED
  BY <1>1, ServerInvariant, PTL

(***************************************************************************)
(* A job whose condition is false for the event, or does not evaluate, has *)
(* no plan in any attempt: buildPlans skips or refuses it, and Rerequest   *)
(* copies only what is there.                                              *)
(***************************************************************************)
THEOREM FalseConditionsNeverRun == ServerSpec => []FalseConditionNeverRuns
<1> DEFINE False(j) == Condition[j[1]] \in {"never", "broken"}
<1>1. ServerInit => FalseConditionNeverRuns
  BY Zenon DEF ServerInit, FalseConditionNeverRuns
<1>2. FalseConditionNeverRuns /\ [ServerNext]_serverVars => FalseConditionNeverRuns'
  <2> SUFFICES ASSUME FalseConditionNeverRuns, [ServerNext]_serverVars,
                      NEW i \in plans', i \notin plans
               PROVE  ~False(i)
    BY Zenon DEF FalseConditionNeverRuns
  <2>1. ASSUME NEW h \in Handler, PlanJob(h) PROVE ~False(i)
    <3> DEFINE j == Oldest(left[h])
    <3>1. /\ i = j /\ Condition[j[1]] # "broken"
          /\ ~(isEagerCondition(j) /\ ~EvaluateCondition(j, seen[h]))
      BY Zenon, <2>1 DEF PlanJob
    <3> HIDE DEF j
    <3>2. Condition[j[1]] = "never" => isEagerCondition(j) /\ ~EvaluateCondition(j, seen[h])
      BY DEF isEagerCondition, isDeferredCondition, Deferred, EvaluateCondition
    <3> QED
      BY Zenon, <3>1, <3>2
  <2>2. ASSUME NEW j \in JobRunID, CopyPlan(j) PROVE ~False(i)
    <3>1. j \in plans /\ i = <<j[1], j[2] + 1>>
      BY Zenon, <2>2 DEF CopyPlan
    <3>2. i[1] = j[1]
      BY <3>1
    <3> QED
      BY Zenon, <3>1, <3>2 DEF FalseConditionNeverRuns
  <2>3. ASSUME NEW h \in Handler, Compile(h) \/ CompileStops(h) \/ IngestRun(h)
                                    \/ ListJobRuns(h) \/ BuildPlansFails(h)
        PROVE  FALSE
    BY Zenon, <2>3 DEF Compile, CompileStops, IngestRun, ListJobRuns, BuildPlansFails
  <2>4. CASE \E h \in Handler, d \in Delivery : RecordDelivery(h, d)
    BY Zenon, <2>4 DEF RecordDelivery
  <2>5. ASSUME NEW j \in JobRunID, RerequestAttempt(j) PROVE FALSE
    BY Zenon, <2>5 DEF RerequestAttempt
  <2>6. CASE DispatchOnce
    BY Zenon, <2>6 DEF DispatchOnce, ListQueuedJobs, EvaluateNext, RunEvaluated, LoadRun, Drain
  <2>7. CASE Outside \/ UNCHANGED serverVars
    BY Zenon, <2>7 DEF Outside, serverVars
  <2> QED
    BY Zenon, <2>1, <2>2, <2>3, <2>4, <2>5, <2>6, <2>7 DEF ServerNext, Handle
<1> QED
  BY <1>1, <1>2, PTL DEF ServerSpec

(***************************************************************************)
(* Under the control plane, too, a run is closed exactly while its jobs    *)
(* are.                                                                    *)
(***************************************************************************)
THEOREM ServerRunsCloseWithTheirJobs == ServerSpec => []RunClosedWithJobs
<1> QED
  BY ServerImplementsScheduler, RunsCloseWithTheirJobs, PTL DEF ImplementsScheduler

-----------------------------------------------------------------------------
(***************************************************************************)
(* Deferred conditions, for any conditions, needs and numbers of attempts: *)
(* a job that the dispatch loop skips is rightly skipped, although the     *)
(* records it decides on are out of date.                                  *)
(***************************************************************************)

(***************************************************************************)
(* The keys of j's own run that j needs: what its condition can see.       *)
(***************************************************************************)
Needed(j) ==
  {k \in JobKey : /\ RunOf[k] = RunOfJob(j)
                  /\ \E i \in DOMAIN DependsOn[j[1]] : DependsOn[j[1]][i] = k}

(***************************************************************************)
(* The records st without the attempts after cut.                          *)
(***************************************************************************)
Until(cut, st) ==
  [i \in JobRunID |-> IF i[2] <= cut[i[1]] THEN st[i] ELSE "absent"]

(***************************************************************************)
(* Job j is rightly skipped: up to some attempt each job it needs has      *)
(* ended, and for these attempts the condition is false.                   *)
(***************************************************************************)
Ended(j, cut, st) ==
  \A k \in Needed(j), n \in 1 .. MaxAttempt : n <= cut[k] => st[<<k, n>>] \in JobTerminal

Justified(j, st) ==
  \E cut \in [JobKey -> 1 .. MaxAttempt] :
    Ended(j, cut, st) /\ ~EvaluateCondition(j, Until(cut, st))

SkipsJustified ==
  \A j \in JobRunID : isDeferredCondition(j) /\ status[j] = "skipped" => Justified(j, status)

(***************************************************************************)
(* The attempts of a job are numbered without a gap.                       *)
(***************************************************************************)
NoGap(st) ==
  \A k \in JobKey, m, n \in 1 .. MaxAttempt :
    n < m /\ st[<<k, m>>] # "absent" => st[<<k, n>>] # "absent"

(***************************************************************************)
(* The records the loop decides on are old, but what had ended in them has *)
(* ended so, and they hold all the jobs of the run.                        *)
(***************************************************************************)
ViewKnows ==
  batch # {} =>
    /\ NoGap(view)
    /\ \A i \in JobRunID : view[i] \in JobTerminal => status[i] = view[i]
    /\ \A j \in batch :
         /\ isDeferredCondition(j)
         /\ \A k \in JobKey : RunOf[k] = RunOfJob(j) => view[<<k, 1>>] # "absent"

ConditionInv == NoGap(status) /\ ViewKnows /\ SkipsJustified

-----------------------------------------------------------------------------
(***************************************************************************)
(* A set of numbers has a smallest one.                                    *)
(***************************************************************************)
LEMMA Smallest ==
  ASSUME NEW S \in SUBSET Nat, S # {}
  PROVE  \E m \in S : \A n \in S : m <= n
<1> DEFINE Less == {p \in Nat \X Nat : p[1] < p[2]}
<1>1. IsWellFoundedOn(Less, Nat)
  BY Zenon, NatLessThanWellFounded DEF OpToRel
<1> HIDE DEF Less
<1>2. PICK m \in S : \A n \in S : <<n, m>> \notin Less
  BY Zenon, <1>1, WFMin
<1> USE DEF Less
<1>3. ASSUME NEW n \in S PROVE m <= n
  <2>1. m \in Nat /\ n \in Nat
    BY Zenon
  <2>2. n < m => <<n, m>> \in Less
    BY Zenon, <2>1
  <2> QED
    BY <1>2, <2>1, <2>2
<1> QED
  BY Zenon, <1>3

(***************************************************************************)
(* So has a bounded one a largest.                                         *)
(***************************************************************************)
LEMMA LastOf ==
  ASSUME NEW b \in Nat, NEW S \in SUBSET (1 .. b), S # {}
  PROVE  \E m \in S : \A n \in S : n <= m
<1> DEFINE T == {m \in Nat : \A n \in S : n <= m}
<1>1. T \in SUBSET Nat /\ b \in T
  OBVIOUS
<1> HIDE DEF T
<1>2. PICK m \in T : \A n \in T : m <= n
  BY Zenon, <1>1, Smallest
<1> USE DEF T
<1>3. m \in S
  <2> SUFFICES ASSUME m \notin S PROVE FALSE
    BY Zenon
  <2>1. \A n \in S : n \in Nat /\ n >= 1 /\ n < m
    BY <1>2
  <2>2. m - 1 \in Nat /\ \A n \in S : n <= m - 1
    <3>1. PICK e \in S : TRUE
      BY Zenon
    <3>2. e \in Nat /\ e < m /\ m \in Nat
      BY Zenon, <1>2, <2>1
    <3> QED
      BY <2>1, <3>2
  <2>3. m - 1 \in T
    BY Zenon, <2>2
  <2>4. m <= m - 1
    BY Zenon, <1>2, <2>3
  <2> QED
    BY <1>2, <2>4
<1> QED
  BY Zenon, <1>2, <1>3

-----------------------------------------------------------------------------
(***************************************************************************)
(* A condition is decided by the records of the jobs it needs alone.       *)
(***************************************************************************)
Agree(j, s, t) == \A k \in Needed(j), n \in 1 .. MaxAttempt : s[<<k, n>>] = t[<<k, n>>]

LEMMA SameAttempts ==
  ASSUME NEW j \in JobRunID, NEW s, NEW t, Agree(j, s, t),
         NEW i \in DOMAIN DependsOn[j[1]]
  PROVE  /\ attempts(DependsOn[j[1]][i], j, s) = attempts(DependsOn[j[1]][i], j, t)
         /\ \A n \in attempts(DependsOn[j[1]][i], j, s) :
              /\ n \in 1 .. MaxAttempt /\ DependsOn[j[1]][i] \in Needed(j)
              /\ s[<<DependsOn[j[1]][i], n>>] = t[<<DependsOn[j[1]][i], n>>]
<1>1. CASE DependsOn[j[1]][i] \in Needed(j)
  BY Zenon, <1>1 DEF Agree, attempts
<1>2. CASE DependsOn[j[1]][i] \notin Needed(j)
  BY Zenon, <1>2 DEF Needed, attempts
<1> QED
  BY Zenon, <1>1, <1>2

LEMMA SameStatus ==
  ASSUME NEW j \in JobRunID, NEW s, NEW t, Agree(j, s, t)
  PROVE  jobStatus(j, s) = jobStatus(j, t)
<1> DEFINE deps == DependsOn[j[1]]
           bad(st, i) == {n \in attempts(deps[i], j, st) :
                            st[<<deps[i], n>>] \in {"failed", "cancelled"}}
           isLast(st, i) == bad(st, i) # {} /\ \A h \in DOMAIN deps : h > i => bad(st, h) = {}
           last(st) == CHOOSE i \in DOMAIN deps : isLast(st, i)
           first(S) == CHOOSE n \in S : \A m \in S : n <= m
           end(st) == st[<<deps[last(st)], first(bad(st, last(st)))>>]
           result(st) == IF \A i \in DOMAIN deps : bad(st, i) = {} THEN "success"
                         ELSE IF end(st) = "failed" THEN "failure" ELSE "cancelled"
<1>1. jobStatus(j, s) = result(s) /\ jobStatus(j, t) = result(t)
  BY Zenon DEF jobStatus
<1>2. \A i \in DOMAIN deps : bad(s, i) = bad(t, i)
  BY SameAttempts
<1>3. \A i \in DOMAIN deps : bad(s, i) \in SUBSET Nat /\ bad(s, i) \subseteq attempts(deps[i], j, s)
  BY DEF attempts
<1> HIDE DEF bad
<1>4. last(s) = last(t)
  BY Zenon, <1>2
<1>5. ASSUME NEW i \in DOMAIN deps, bad(s, i) # {} PROVE end(s) = end(t)
  <2>1. Len(deps) \in Nat /\ DOMAIN deps = 1 .. Len(deps)
    BY Zenon, NeedsAssumption, JobRunParts
  <2>2. \E h \in DOMAIN deps : isLast(s, h)
    <3> DEFINE S == {h \in 1 .. Len(deps) : bad(s, h) # {}}
    <3>1. S \in SUBSET (1 .. Len(deps)) /\ S # {}
      BY Zenon, <1>5, <2>1
    <3> HIDE DEF S
    <3>2. PICK m \in S : \A n \in S : n <= m
      BY Zenon, <2>1, <3>1, LastOf
    <3> USE DEF S
    <3>3. m \in DOMAIN deps /\ bad(s, m) # {}
      BY Zenon, <2>1, <3>2
    <3>4. ASSUME NEW h \in DOMAIN deps, h > m PROVE bad(s, h) = {}
      BY <2>1, <3>2, <3>4
    <3> QED
      BY Zenon, <3>3, <3>4
  <2>3. last(s) \in DOMAIN deps /\ bad(s, last(s)) # {}
    BY Zenon, <2>2
  <2> DEFINE l == last(s)
             n == first(bad(s, l))
  <2> HIDE DEF last
  <2>4. bad(t, l) = bad(s, l) /\ bad(s, l) \in SUBSET Nat
    BY Zenon, <1>2, <1>3, <2>3
  <2>5. n \in bad(s, l)
    <3>1. \E m \in bad(s, l) : \A k \in bad(s, l) : m <= k
      BY Zenon, <2>3, <2>4, Smallest
    <3> QED
      BY Zenon, <3>1
  <2>6. n \in attempts(deps[l], j, s)
    BY Zenon, <1>3, <2>3, <2>5
  <2> HIDE DEF first
  <2>7. s[<<deps[l], n>>] = t[<<deps[l], n>>]
    BY <2>3, <2>6, SameAttempts
  <2> QED
    BY Zenon, <1>4, <2>4, <2>7
<1> HIDE DEF end
<1> QED
  BY <1>1, <1>2, <1>5

LEMMA SameDecision ==
  ASSUME NEW j \in JobRunID, NEW s, NEW t, Agree(j, s, t)
  PROVE  EvaluateCondition(j, s) <=> EvaluateCondition(j, t)
<1>1. jobStatus(j, s) = jobStatus(j, t)
  BY Zenon, SameStatus
<1>2. ASSUME NEW i \in DOMAIN DependsOn[j[1]]
      PROVE  needSucceeded(DependsOn[j[1]][i], j, s) <=> needSucceeded(DependsOn[j[1]][i], j, t)
  <2> DEFINE k == DependsOn[j[1]][i]
  <2>1. PICK A : A = attempts(k, j, s) /\ A = attempts(k, j, t)
    BY SameAttempts
  <2>2. \A n \in A : s[<<k, n>>] = t[<<k, n>>]
    BY <2>1, SameAttempts
  <2> HIDE DEF k
  <2>3. needSucceeded(k, j, s) <=> needSucceeded(k, j, t)
    BY Zenon, <2>1, <2>2 DEF needSucceeded
  <2> QED
    BY Zenon, <2>3 DEF k
<1>3. (\A i \in DOMAIN DependsOn[j[1]] : needSucceeded(DependsOn[j[1]][i], j, s))
        <=> (\A i \in DOMAIN DependsOn[j[1]] : needSucceeded(DependsOn[j[1]][i], j, t))
  BY Zenon, <1>2
<1> QED
  BY Zenon, <1>1, <1>3 DEF EvaluateCondition

-----------------------------------------------------------------------------
(***************************************************************************)
(* A job once rightly skipped stays so: what its condition saw has ended   *)
(* for good.                                                               *)
(***************************************************************************)
LEMMA JustifiedStays ==
  ASSUME TypeOK, RecordsTogether, [Next]_vars, NEW j \in JobRunID, Justified(j, status)
  PROVE  Justified(j, status')
<1>1. PICK cut \in [JobKey -> 1 .. MaxAttempt] :
        Ended(j, cut, status) /\ ~EvaluateCondition(j, Until(cut, status))
  BY Zenon DEF Justified
<1>2. ASSUME NEW k \in Needed(j), NEW n \in 1 .. MaxAttempt, n <= cut[k]
      PROVE  status[<<k, n>>] \in JobTerminal /\ status'[<<k, n>>] = status[<<k, n>>]
  <2>1. status[<<k, n>>] \in JobTerminal /\ <<k, n>> \in JobRunID
    BY Zenon, <1>1, <1>2 DEF Ended, Needed, JobRunID
  <2> QED
    BY Zenon, <2>1, StatusStep
<1>3. Ended(j, cut, status')
  BY Zenon, <1>2 DEF Ended
<1>4. ASSUME NEW k \in Needed(j), NEW n \in 1 .. MaxAttempt
      PROVE  Until(cut, status)[<<k, n>>] = Until(cut, status')[<<k, n>>]
  <2>1. <<k, n>> \in JobRunID
    BY Zenon DEF Needed, JobRunID
  <2> QED
    BY Zenon, <1>2, <2>1 DEF Until
<1>5. ~EvaluateCondition(j, Until(cut, status'))
  <2>1. Agree(j, Until(cut, status), Until(cut, status'))
    BY Zenon, <1>4 DEF Agree
  <2> QED
    BY Zenon, <1>1, <2>1, SameDecision
<1> QED
  BY Zenon, <1>3, <1>5 DEF Justified

(***************************************************************************)
(* Records without gaps that hold a run's jobs hold, of each job, exactly  *)
(* the attempts up to some number.                                         *)
(***************************************************************************)
LEMMA CutExists ==
  ASSUME NEW st, NoGap(st), NEW r,
         \A k \in JobKey : RunOf[k] = r => st[<<k, 1>>] # "absent"
  PROVE  \E cut \in [JobKey -> 1 .. MaxAttempt] :
           \A k \in JobKey, n \in 1 .. MaxAttempt :
             RunOf[k] = r => (n <= cut[k] <=> st[<<k, n>>] # "absent")
<1> DEFINE Good(k, m) == \A n \in 1 .. MaxAttempt :
                           RunOf[k] = r => (n <= m <=> st[<<k, n>>] # "absent")
           cut == [k \in JobKey |-> CHOOSE m \in 1 .. MaxAttempt : Good(k, m)]
<1>1. MaxAttempt \in Nat /\ 1 \in 1 .. MaxAttempt
  BY StoreAssumption
<1>2. ASSUME NEW k \in JobKey PROVE \E m \in 1 .. MaxAttempt : Good(k, m)
  <2>1. CASE RunOf[k] # r
    BY Zenon, <1>1, <2>1
  <2>2. CASE RunOf[k] = r
    <3> DEFINE S == {n \in 1 .. MaxAttempt : st[<<k, n>>] # "absent"}
    <3>1. S \in SUBSET (1 .. MaxAttempt) /\ S # {}
      BY Zenon, <1>1, <2>2
    <3> HIDE DEF S
    <3>2. PICK m \in S : \A n \in S : n <= m
      BY Zenon, <1>1, <3>1, LastOf
    <3> USE DEF S
    <3>3. m \in 1 .. MaxAttempt /\ st[<<k, m>>] # "absent"
      BY Zenon, <3>2
    <3>4. ASSUME NEW n \in 1 .. MaxAttempt PROVE n <= m <=> st[<<k, n>>] # "absent"
      <4>1. CASE n < m
        BY <3>3, <4>1 DEF NoGap
      <4>2. CASE n = m
        BY <3>3, <4>2
      <4>3. CASE n > m
        BY <3>2, <4>3
      <4> QED
        BY <1>1, <3>3, <4>1, <4>2, <4>3
    <3> QED
      BY Zenon, <3>3, <3>4
  <2> QED
    BY Zenon, <2>1, <2>2
<1> HIDE DEF Good
<1>3. cut \in [JobKey -> 1 .. MaxAttempt] /\ \A k \in JobKey : Good(k, cut[k])
  BY Zenon, <1>2
<1> HIDE DEF cut
<1> QED
  BY Zenon, <1>3 DEF Good

(***************************************************************************)
(* The loop's decision is right: what had ended in the records it read has *)
(* ended so, and they have no attempt that is still open.                  *)
(***************************************************************************)
LEMMA DecisionJustified ==
  ASSUME ViewKnows, NEW j \in JobRunID, j \in batch,
         depsFinal(j, view), ~EvaluateCondition(j, view)
  PROVE  Justified(j, status)
<1>1. /\ NoGap(view) /\ \A i \in JobRunID : view[i] \in JobTerminal => status[i] = view[i]
      /\ \A k \in JobKey : RunOf[k] = RunOfJob(j) => view[<<k, 1>>] # "absent"
  BY Zenon DEF ViewKnows
<1>2. PICK cut \in [JobKey -> 1 .. MaxAttempt] :
        \A k \in JobKey, n \in 1 .. MaxAttempt :
          RunOf[k] = RunOfJob(j) => (n <= cut[k] <=> view[<<k, n>>] # "absent")
  BY Zenon, <1>1, CutExists
<1>3. ASSUME NEW k \in Needed(j), NEW n \in 1 .. MaxAttempt
      PROVE  /\ n <= cut[k] => view[<<k, n>>] \in JobTerminal /\ status[<<k, n>>] = view[<<k, n>>]
             /\ ~(n <= cut[k]) => view[<<k, n>>] = "absent"
  <2>1. k \in JobKey /\ RunOf[k] = RunOfJob(j) /\ <<k, n>> \in JobRunID
    BY Zenon DEF Needed, JobRunID
  <2>2. PICK i \in DOMAIN DependsOn[j[1]] : DependsOn[j[1]][i] = k
    BY Zenon DEF Needed
  <2>3. view[<<k, n>>] # "absent" => view[<<k, n>>] \in JobTerminal
    BY Zenon, <2>1, <2>2 DEF depsFinal, attempts
  <2> QED
    BY Zenon, <1>1, <1>2, <2>1, <2>3
<1>4. Ended(j, cut, status)
  BY Zenon, <1>3 DEF Ended
<1>5. ASSUME NEW k \in Needed(j), NEW n \in 1 .. MaxAttempt
      PROVE  view[<<k, n>>] = Until(cut, status)[<<k, n>>]
  <2>1. <<k, n>> \in JobRunID
    BY Zenon DEF Needed, JobRunID
  <2> QED
    BY Zenon, <1>3, <2>1 DEF Until
<1>6. ~EvaluateCondition(j, Until(cut, status))
  <2>1. Agree(j, view, Until(cut, status))
    BY Zenon, <1>5 DEF Agree
  <2> QED
    BY Zenon, <2>1, SameDecision
<1> QED
  BY Zenon, <1>4, <1>6 DEF Justified

-----------------------------------------------------------------------------
(***************************************************************************)
(* A job with a deferred condition is skipped by the loop's decision only: *)
(* not by the claim scan, not while plans are built, not by a projection.  *)
(***************************************************************************)
LEMMA NewSkip ==
  ASSUME TypeOK, ServerInv, [ServerNext]_serverVars, NEW j \in JobRunID,
         isDeferredCondition(j), status[j] # "skipped", status'[j] = "skipped"
  PROVE  j \in batch /\ depsFinal(j, view) /\ ~EvaluateCondition(j, view)
<1> DEFINE Kept == status'[j] = status[j]
<1>0. /\ status \in [JobRunID -> JobRunStatus \cup {"absent"}]
      /\ job \in [Dispatcher -> JobRunID \cup {NoJob}]
  BY Zenon DEF TypeOK
<1>1. ASSUME NEW i \in JobRunID, NEW p, ApplyObserved(i, p), i # j \/ p # "skipped" PROVE FALSE
  <2>1. status' = status \/ status' = [status EXCEPT ![i] = p]
    BY Zenon, <1>1 DEF ApplyObserved, JobStatusFromPhase
  <2> QED
    BY Zenon, <1>0, <1>1, <2>1
<1>2. ASSUME NEW h \in Handler, NEW d \in Delivery, RecordDelivery(h, d) PROVE Kept
  BY Zenon, <1>2 DEF RecordDelivery, vars, storeVars
<1>3. ASSUME NEW h \in Handler,
             Compile(h) \/ CompileStops(h) \/ ListJobRuns(h) \/ BuildPlansFails(h)
      PROVE  Kept
  BY Zenon, <1>3 DEF Compile, CompileStops, ListJobRuns, BuildPlansFails, vars, storeVars
<1>4. ASSUME NEW h \in Handler, IngestRun(h) PROVE Kept \/ status'[j] = "queued"
  BY Zenon, <1>4 DEF IngestRun, NewRun, CreateRun, storeVars
<1>5. ASSUME NEW h \in Handler, PlanJob(h) PROVE Kept
  <2> DEFINE i == Oldest(left[h])
  <2>1. left[h] \in SUBSET JobRunID /\ left[h] # {}
    BY Zenon, <1>5 DEF PlanJob, ServerInv, ServerTypes, HandlersKnow, HandlerKnows
  <2>2. i \in JobRunID
    BY Zenon, <2>1, OldestExists DEF TypeOK
  <2>3. UNCHANGED storeVars \/ (isEagerCondition(i) /\ ApplyObserved(i, "skipped"))
    BY Zenon, <1>5 DEF PlanJob
  <2> HIDE DEF i
  <2>4. isEagerCondition(i) => i # j
    BY Zenon DEF isEagerCondition
  <2> QED
    BY Zenon, <1>1, <2>2, <2>3, <2>4 DEF storeVars
<1>6. ASSUME NEW i \in JobRunID, RerequestAttempt(i) PROVE Kept \/ status'[j] = "queued"
  <2>1. UNCHANGED vars \/ status' = [status EXCEPT ![<<i[1], i[2] + 1>>] = "queued"]
    BY Zenon, <1>6 DEF RerequestAttempt, Rerequest, RerequestJob
  <2> QED
    BY Zenon, <1>0, <2>1 DEF vars, storeVars
<1>7. ASSUME NEW i \in JobRunID, CopyPlan(i) PROVE Kept
  BY Zenon, <1>7 DEF CopyPlan, vars, storeVars
<1>8. CASE ListQueuedJobs \/ RunEvaluated \/ \E r \in RunID : LoadRun(r)
  BY Zenon, <1>8 DEF ListQueuedJobs, RunEvaluated, LoadRun, vars, storeVars
<1>9. CASE EvaluateNext
  <2> DEFINE i == Oldest(batch)
             phase == IF Broken(i) THEN "failed" ELSE "skipped"
  <2>1. batch \in SUBSET JobRunID /\ batch # {}
    BY Zenon, <1>9 DEF EvaluateNext, ServerInv, ServerTypes
  <2>2. i \in batch /\ i \in JobRunID
    BY Zenon, <2>1, OldestExists DEF TypeOK
  <2>3. \/ UNCHANGED storeVars
        \/ /\ ApplyObserved(i, phase)
           /\ depsFinal(i, view) /\ (Broken(i) \/ ~EvaluateCondition(i, view))
    BY Zenon, <1>9 DEF EvaluateNext
  <2> HIDE DEF i
  <2>4. ApplyObserved(i, phase) /\ depsFinal(i, view) /\ (Broken(i) \/ ~EvaluateCondition(i, view))
    BY Zenon, <2>3 DEF storeVars
  <2>5. i = j /\ phase = "skipped"
    BY Zenon, <1>1, <2>2, <2>4
  <2> QED
    BY Zenon, <2>2, <2>4, <2>5
<1>10. ASSUME NEW d \in Dispatcher, Drain(d) PROVE Kept \/ status'[j] = "dispatched"
  <2>1. CASE Claim(d)
    <3>0. PICK pick \in JobRunID \cup {NoJob} : ClaimNextQueuedJob(pick)
      BY Zenon, <2>1 DEF Claim
    <3>1. PICK S \in SUBSET Candidates : ClaimScan(S, pick) /\ status' = Skip(S)
      BY Zenon, <3>0 DEF ClaimNextQueuedJob
    <3>2. j \in S => Condition[j[1]] = ""
      BY Zenon, <3>1 DEF ClaimScan
    <3>3. j \notin S
      BY Zenon, <3>2 DEF isDeferredCondition, Deferred
    <3> QED
      BY Zenon, <3>1, <3>3 DEF Skip
  <2>2. CASE Ack(d)
    <3>1. status' = [status EXCEPT ![job[d]] = "dispatched"]
      BY Zenon, <2>2 DEF Ack, AckDispatched
    <3> QED
      BY Zenon, <1>0, <3>1
  <2>3. CASE Check(d) \/ Create(d) \/ CreateError(d) \/ AckRefused(d) \/ Release(d)
    BY Zenon, <2>3 DEF Check, Create, CreateError, AckRefused, Release, ReleaseClaim, storeVars
  <2> QED
    BY Zenon, <1>10, <2>1, <2>2, <2>3 DEF Drain
<1>11. CASE Outside
  <2>1. ASSUME NEW i \in JobRunID, PodStep(i) PROVE Kept
    BY Zenon, <2>1 DEF PodStep, storeVars
  <2>2. ASSUME NEW i \in JobRunID, NEW p \in ObservedPhase, Project(i, p) PROVE FALSE
    <3>1. ApplyObserved(i, p)
      BY Zenon, <2>2 DEF Project
    <3>2. p # "skipped"
      <4>1. pod[i] \in {"none", "pending", "running", "succeeded", "failed"} /\ p \in Shown(i)
        BY Zenon, <2>2 DEF TypeOK, Project
      <4> QED
        BY Zenon, <4>1 DEF Shown
    <3> QED
      BY Zenon, <1>1, <3>1, <3>2
  <2>3. ASSUME NEW r \in RunID, Cancel(r) PROVE Kept \/ status'[j] = "cancelled"
    BY Zenon, <2>3 DEF Cancel, CancelRun, TransitionJob
  <2> QED
    BY Zenon, <1>11, <2>1, <2>2, <2>3 DEF Outside
<1>12. CASE UNCHANGED serverVars
  BY Zenon, <1>12 DEF serverVars, vars, storeVars
<1> QED
  BY Zenon, <1>2, <1>3, <1>4, <1>5, <1>6, <1>7, <1>8, <1>9, <1>10, <1>11, <1>12
     DEF ServerNext, Handle, DispatchOnce

(***************************************************************************)
(* Every step keeps the skips right.                                       *)
(***************************************************************************)
LEMMA SkipsStep ==
  ASSUME TypeOK, RecordsTogether, ServerInv, ConditionInv, [ServerNext]_serverVars
  PROVE  SkipsJustified'
<1>1. [Next]_vars
  BY Zenon, ServerStepIsNext
<1>2. ASSUME NEW j \in JobRunID, isDeferredCondition(j), status'[j] = "skipped"
      PROVE  Justified(j, status')
  <2>1. CASE status[j] = "skipped"
    BY Zenon, <1>1, <1>2, <2>1, JustifiedStays DEF ConditionInv, SkipsJustified
  <2>2. CASE status[j] # "skipped"
    <3>1. j \in batch /\ depsFinal(j, view) /\ ~EvaluateCondition(j, view)
      BY Zenon, <1>2, <2>2, NewSkip
    <3>2. Justified(j, status)
      BY Zenon, <3>1, DecisionJustified DEF ConditionInv
    <3> QED
      BY Zenon, <1>1, <3>2, JustifiedStays
  <2> QED
    BY Zenon, <2>1, <2>2
<1> QED
  BY Zenon, <1>2 DEF SkipsJustified, isDeferredCondition

-----------------------------------------------------------------------------
(***************************************************************************)
(* A new attempt is the first one or follows one that exists.              *)
(***************************************************************************)
LEMMA NewAttempt ==
  ASSUME TypeOK, RecordsTogether, [Next]_vars, NEW i \in JobRunID,
         status[i] = "absent", status'[i] # "absent"
  PROVE  i[2] = 1 \/ \E n \in 1 .. MaxAttempt : i[2] = n + 1 /\ status[<<i[1], n>>] # "absent"
<1> USE DEF JobTerminal
<1>1. CASE RecordsKept \/ RefreshStep
  BY Zenon, <1>1 DEF RecordsKept, RefreshStep
<1>2. CASE SkipStep
  BY Zenon, <1>2 DEF SkipStep, Skip, Candidates
<1>3. CASE AckStep
  BY Zenon, <1>3 DEF AckStep, Dispatchable, TypeOK
<1>4. CASE ProjectStep \/ ConditionStep
  BY Zenon, <1>4 DEF ProjectStep, ConditionStep, RecordsTogether, TypeOK
<1>5. ASSUME NEW r \in RunID, CreateRun(r) PROVE i[2] = 1
  BY Zenon, <1>5 DEF CreateRun
<1>6. ASSUME NEW r \in RunID, CancelRun(r) PROVE FALSE
  BY Zenon, <1>6 DEF CancelRun, runJobs
<1>7. ASSUME NEW j \in JobRunID, RerequestJob(j)
      PROVE  \E n \in 1 .. MaxAttempt : i[2] = n + 1 /\ status[<<i[1], n>>] # "absent"
  <2>1. status' = [status EXCEPT ![<<j[1], j[2] + 1>>] = "queued"] /\ status[j] # "absent"
    BY Zenon, <1>7 DEF RerequestJob, Exists
  <2>2. i = <<j[1], j[2] + 1>>
    BY Zenon, <2>1 DEF TypeOK
  <2>3. j[2] \in 1 .. MaxAttempt /\ j = <<j[1], j[2]>> /\ i[1] = j[1] /\ i[2] = j[2] + 1
    BY Zenon, <2>2, JobRunParts
  <2> QED
    BY Zenon, <2>1, <2>3
<1> QED
  BY Zenon, <1>1, <1>2, <1>3, <1>4, <1>5, <1>6, <1>7, RecordSteps

LEMMA NoGapStep ==
  ASSUME TypeOK, RecordsTogether, [Next]_vars, NoGap(status)
  PROVE  NoGap(status')
<1> SUFFICES ASSUME NEW k \in JobKey, NEW m \in 1 .. MaxAttempt, NEW n \in 1 .. MaxAttempt,
                    n < m, status'[<<k, m>>] # "absent"
             PROVE  status'[<<k, n>>] # "absent"
  BY Zenon DEF NoGap
<1>1. <<k, m>> \in JobRunID /\ <<k, n>> \in JobRunID
  BY Zenon DEF JobRunID
<1>2. status[<<k, n>>] # "absent"
  <2>1. CASE status[<<k, m>>] # "absent"
    BY Zenon, <2>1 DEF NoGap
  <2>2. CASE status[<<k, m>>] = "absent"
    <3>1. m # 1
      BY StoreAssumption
    <3>2. PICK l \in 1 .. MaxAttempt : m = l + 1 /\ status[<<k, l>>] # "absent"
      BY Zenon, <1>1, <2>2, <3>1, NewAttempt
    <3>3. n < l \/ n = l
      BY <3>2, StoreAssumption
    <3> QED
      BY Zenon, <3>2, <3>3 DEF NoGap
  <2> QED
    BY Zenon, <2>1, <2>2
<1> QED
  BY Zenon, <1>1, <1>2, StatusStep

(***************************************************************************)
(* The records in the loop's hands grow old in the way it can bear.        *)
(***************************************************************************)
LEMMA ViewStep ==
  ASSUME TypeOK, RecordsTogether, ServerInv, ConditionInv, [Next]_vars, [ServerNext]_serverVars
  PROVE  ViewKnows'
<1> USE DEF ServerInv, ConditionInv
<1>1. ASSUME view' = view, batch' \subseteq batch PROVE ViewKnows'
  <2> SUFFICES ASSUME batch' # {} PROVE ViewKnows'
    BY Zenon DEF ViewKnows
  <2>1. /\ NoGap(view) /\ \A i \in JobRunID : view[i] \in JobTerminal => status[i] = view[i]
        /\ \A j \in batch :
             /\ isDeferredCondition(j)
             /\ \A k \in JobKey : RunOf[k] = RunOfJob(j) => view[<<k, 1>>] # "absent"
    BY Zenon, <1>1 DEF ViewKnows
  <2>2. ASSUME NEW i \in JobRunID, view[i] \in JobTerminal PROVE status'[i] = view[i]
    BY Zenon, <2>1, <2>2, StatusStep
  <2>3. NoGap(view)'
    BY Zenon, <1>1, <2>1 DEF NoGap
  <2> QED
    BY Zenon, <1>1, <2>1, <2>2, <2>3 DEF ViewKnows, isDeferredCondition, RunOfJob
<1>2. ASSUME NEW r \in RunID, LoadRun(r) PROVE ViewKnows'
  <2> SUFFICES ASSUME batch' # {} PROVE ViewKnows'
    BY Zenon DEF ViewKnows
  <2>1. /\ view' = status /\ status' = status
        /\ \A j \in batch' : j \in queue /\ isDeferredCondition(j)
    BY Zenon, <1>2 DEF LoadRun, vars, storeVars
  <2>2. ASSUME NEW j \in batch', NEW k \in JobKey, RunOf[k] = RunOfJob(j)
        PROVE  status[<<k, 1>>] # "absent"
    <3>1. j \in JobRunID /\ status[j] # "absent"
      BY Zenon, <2>1 DEF LoopKnows, ServerTypes
    <3>2. runStatus[RunOfJob(j)] # "absent"
      BY Zenon, <3>1 DEF RecordsTogether
    <3>3. <<k, 1>> \in JobRunID /\ RunOfJob(<<k, 1>>) = RunOf[k] /\ <<k, 1>>[2] = 1
      BY StoreAssumption DEF JobRunID, RunOfJob
    <3> QED
      BY Zenon, <2>2, <3>2, <3>3 DEF RecordsTogether
  <2>3. NoGap(view)'
    BY Zenon, <2>1 DEF NoGap
  <2> QED
    BY Zenon, <2>1, <2>2, <2>3 DEF ViewKnows, isDeferredCondition, RunOfJob
<1>3. CASE RunEvaluated
  BY Zenon, <1>3 DEF RunEvaluated, ViewKnows
<1>4. CASE EvaluateNext \/ ListQueuedJobs \/ Outside \/ UNCHANGED serverVars
           \/ \E d \in Dispatcher : Drain(d)
  BY Zenon, <1>1, <1>4 DEF EvaluateNext, ListQueuedJobs, Outside, serverVars, Drain, loopVars
<1>5. ASSUME NEW h \in Handler, Handle(h) PROVE UNCHANGED <<view, batch>>
  BY Zenon, <1>5 DEF Handle, Compile, CompileStops, IngestRun, ListJobRuns, PlanJob,
     BuildPlansFails,
              loopVars
<1>6. ASSUME NEW h \in Handler, NEW d \in Delivery, RecordDelivery(h, d)
      PROVE  UNCHANGED <<view, batch>>
  BY Zenon, <1>6 DEF RecordDelivery, loopVars
<1>7. ASSUME NEW j \in JobRunID, RerequestAttempt(j) \/ CopyPlan(j)
      PROVE  UNCHANGED <<view, batch>>
  BY Zenon, <1>7 DEF RerequestAttempt, CopyPlan, loopVars
<1> QED
  BY Zenon, <1>1, <1>2, <1>3, <1>4, <1>5, <1>6, <1>7 DEF ServerNext, DispatchOnce

-----------------------------------------------------------------------------
(***************************************************************************)
(* The inductive invariant: attempts without gaps, records that age well,  *)
(* skips that are right.                                                   *)
(***************************************************************************)
THEOREM ConditionInvariant == ServerSpec => []ConditionInv
<1>1. ServerInit => ConditionInv
  <2> SUFFICES ASSUME ServerInit PROVE ConditionInv
    BY Zenon
  <2>1. batch = {} /\ \A j \in JobRunID : status[j] = "absent"
    BY Zenon DEF ServerInit, Init, StoreInit
  <2>2. NoGap(status)
    BY Zenon, <2>1 DEF NoGap, JobRunID
  <2> QED
    BY Zenon, <2>1, <2>2 DEF ConditionInv, ViewKnows, SkipsJustified
<1>2. TypeOK /\ RecordsTogether /\ ServerInv /\ ConditionInv /\ [ServerNext]_serverVars
        => ConditionInv'
  <2> SUFFICES ASSUME TypeOK, RecordsTogether, ServerInv, ConditionInv, [ServerNext]_serverVars
               PROVE  ConditionInv'
    BY Zenon
  <2>1. [Next]_vars
    BY Zenon, ServerStepIsNext
  <2>2. NoGap(status')
    BY Zenon, <2>1, NoGapStep DEF ConditionInv
  <2>3. ViewKnows' /\ SkipsJustified'
    BY Zenon, <2>1, ViewStep, SkipsStep
  <2> QED
    BY Zenon, <2>2, <2>3 DEF ConditionInv, NoGap
<1> QED
  BY <1>1, <1>2, ServerInvariant, PTL DEF ServerSpec

(***************************************************************************)
(* A job skipped for its deferred condition is so for the right reason:    *)
(* the attempts the condition was decided on have ended, and it is false   *)
(* for their results.                                                      *)
(***************************************************************************)
THEOREM SkipsAreJustified == ServerSpec => []SkipIsJustified
<1>1. ConditionInv => SkipIsJustified
  <2> SUFFICES ASSUME ConditionInv, NEW j \in JobRunID,
                      isDeferredCondition(j), status[j] = "skipped"
               PROVE  \E cut \in [JobKey -> 1 .. MaxAttempt] :
                        depsFinal(j, Until(cut, status)) /\ ~EvaluateCondition(j, Until(cut, status))
    BY Zenon DEF SkipIsJustified, Until
  <2>1. PICK cut \in [JobKey -> 1 .. MaxAttempt] :
          Ended(j, cut, status) /\ ~EvaluateCondition(j, Until(cut, status))
    BY Zenon DEF ConditionInv, SkipsJustified, Justified
  <2>2. depsFinal(j, Until(cut, status))
    <3> SUFFICES ASSUME NEW i \in DOMAIN DependsOn[j[1]],
                        NEW n \in attempts(DependsOn[j[1]][i], j, Until(cut, status))
                 PROVE  Until(cut, status)[<<DependsOn[j[1]][i], n>>] \in JobTerminal
      BY Zenon DEF depsFinal
    <3> DEFINE k == DependsOn[j[1]][i]
    <3>1. /\ k \in Needed(j) /\ n \in 1 .. MaxAttempt /\ <<k, n>> \in JobRunID
          /\ Until(cut, status)[<<k, n>>] # "absent"
      BY Zenon DEF attempts, Needed, JobRunID
    <3>2. n <= cut[k] /\ Until(cut, status)[<<k, n>>] = status[<<k, n>>]
      BY Zenon, <3>1 DEF Until
    <3> QED
      BY Zenon, <2>1, <3>1, <3>2 DEF Ended
  <2> QED
    BY Zenon, <2>1, <2>2
<1> QED
  BY <1>1, ConditionInvariant, PTL

=============================================================================
