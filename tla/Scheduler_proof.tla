-------------------------- MODULE Scheduler_proof --------------------------
(***************************************************************************)
(* Proofs about the scheduling protocol for any runs, jobs, dependencies,  *)
(* dispatchers and bounds.                                                 *)
(***************************************************************************)
EXTENDS Scheduler, TLAPS

(***************************************************************************)
(* The strengthening of the safety invariants that is inductive:           *)
(*  - a dispatcher past its claim holds it, or its job is closed;          *)
(*  - a run record and its job records appear together, and only known     *)
(*    jobs are claimed or executed;                                        *)
(*  - whatever has executed still has its object, or its outcome is        *)
(*    durable, and the sweep only holds jobs with a durable outcome.       *)
(***************************************************************************)
ClaimsHeld ==
  \A d \in Dispatcher :
    pc[d] # "idle" => job[d] \in claimed \/ status[job[d]] \in JobTerminal

RecordsTogether ==
  /\ \A j \in JobRunID :
       /\ status[j] # "absent" => runStatus[RunOfJob(j)] # "absent"
       /\ j[2] = 1 /\ runStatus[RunOfJob(j)] # "absent" => status[j] # "absent"
       /\ pod[j] # "none" => status[j] # "absent"
  /\ \A d \in Dispatcher : pc[d] # "idle" => status[job[d]] # "absent"

ObjectsKept ==
  /\ \A j \in JobRunID : status[j] \in {"dispatched", "running"} \/ pod[j] # "none"
                           => j \in objects \/ status[j] \in JobTerminal
  /\ \A d \in Dispatcher : pc[d] = "ack" => job[d] \in objects \/ status[job[d]] \in JobTerminal
  /\ \A j \in gcList : status[j] \in JobTerminal

SafetyInv ==
  /\ ExclusiveDispatch /\ ClaimsHeld
  /\ RecordsTogether /\ ObjectsKept
  /\ RunClosedWithJobs /\ SuccessIsUnanimous

-----------------------------------------------------------------------------
(***************************************************************************)
(* A JobRun is its key and its attempt, and belongs to a run.              *)
(***************************************************************************)
LEMMA JobRunParts ==
  ASSUME NEW j \in JobRunID
  PROVE  /\ j[1] \in JobKey /\ j[2] \in 1 .. MaxAttempt
         /\ j = <<j[1], j[2]>> /\ RunOfJob(j) \in RunID
  BY StoreAssumption DEF JobRunID, RunOfJob

(***************************************************************************)
(* AggregateRunStatus closes a run exactly when it has jobs and all of     *)
(* them are closed, and reports success only when none of them failed.     *)
(***************************************************************************)
LEMMA AggregateCloses ==
  ASSUME NEW S \in SUBSET JobRunStatus
  PROVE  /\ AggregateRunStatus(S) \in WorkflowRunStatus
         /\ AggregateRunStatus(S) \in RunTerminal <=> S # {} /\ S \subseteq JobTerminal
         /\ AggregateRunStatus(S) = "succeeded" => S \subseteq {"succeeded", "skipped"}
  BY Zenon DEF AggregateRunStatus, JobRunStatus, JobTerminal, RunTerminal, WorkflowRunStatus

(***************************************************************************)
(* refreshRunLocked keeps a closed run, closes an open one exactly when    *)
(* all its jobs are closed, and never invents a status.                    *)
(***************************************************************************)
LEMMA RefreshCloses ==
  ASSUME NEW st \in [JobRunID -> JobRunStatus \cup {"absent"}], NEW r \in RunID,
         runStatus[r] \in WorkflowRunStatus
  PROVE  /\ refreshRun(r, st) \in WorkflowRunStatus
         /\ runStatus[r] \in RunTerminal => refreshRun(r, st) = runStatus[r]
         /\ runStatus[r] \notin RunTerminal =>
              /\ refreshRun(r, st) \in RunTerminal
                   <=> runJobs(r, st) # {} /\ \A j \in runJobs(r, st) : st[j] \in JobTerminal
              /\ refreshRun(r, st) = "succeeded" =>
                   \A j \in runJobs(r, st) : st[j] \in {"succeeded", "skipped"}
<1> DEFINE S == {st[j] : j \in runJobs(r, st)}
           next == AggregateRunStatus(S)
<1>1. S \in SUBSET JobRunStatus
  BY Zenon DEF runJobs
<1>2. /\ next \in WorkflowRunStatus
      /\ next \in RunTerminal <=> S # {} /\ S \subseteq JobTerminal
      /\ next = "succeeded" => S \subseteq {"succeeded", "skipped"}
  BY Zenon, <1>1, AggregateCloses
<1>3. S # {} <=> runJobs(r, st) # {}
  BY Zenon
<1>4. refreshRun(r, st) = IF runStatus[r] \in RunTerminal \/ ~CanAdvanceRun(runStatus[r], next)
                          THEN runStatus[r] ELSE next
  BY Zenon DEF refreshRun
<1> HIDE DEF next
<1>5. runStatus[r] \notin RunTerminal /\ next \in RunTerminal => CanAdvanceRun(runStatus[r], next)
  BY Zenon DEF CanAdvanceRun
<1>6. "succeeded" \in RunTerminal
  BY Zenon DEF RunTerminal
<1> QED
  BY Zenon, <1>2, <1>3, <1>4, <1>5, <1>6

(***************************************************************************)
(* Every step keeps the records well formed.                               *)
(***************************************************************************)
LEMMA TypeStep ==
  ASSUME TypeOK, [Next]_vars
  PROVE  TypeOK'
<1> USE StoreAssumption
<1>1. ASSUME NEW R \in SUBSET RunID,
             NEW st \in [JobRunID -> JobRunStatus \cup {"absent"}]
      PROVE  refreshRuns(R, st) \in [RunID -> WorkflowRunStatus \cup {"absent"}]
  BY RefreshCloses DEF refreshRuns, TypeOK
<1>2. ASSUME NEW d \in Dispatcher, Claim(d) PROVE TypeOK'
  <2>1. PICK pick \in JobRunID \cup {NoJob} :
          /\ ClaimNextQueuedJob(pick)
          /\ job' = [job EXCEPT ![d] = pick]
          /\ pc' = IF pick = NoJob THEN pc ELSE [pc EXCEPT ![d] = "check"]
    BY Zenon, <1>2 DEF Claim
  <2>2. PICK S \in SUBSET Candidates :
          /\ status' = Skip(S)
          /\ runStatus' = refreshRuns({RunOfJob(j) : j \in S}, Skip(S))
    BY Zenon, <2>1 DEF ClaimNextQueuedJob
  <2>3. S \subseteq JobRunID
    BY Zenon DEF Candidates
  <2>4. Skip(S) \in [JobRunID -> JobRunStatus \cup {"absent"}]
    BY Zenon DEF Skip, TypeOK, JobRunStatus
  <2>5. {RunOfJob(j) : j \in S} \in SUBSET RunID
    BY <2>3, JobRunParts
  <2>6. /\ status' \in [JobRunID -> JobRunStatus \cup {"absent"}]
        /\ runStatus' \in [RunID -> WorkflowRunStatus \cup {"absent"}]
    BY Zenon, <2>2, <2>4, <2>5, <1>1
  <2>7. claimed' \subseteq JobRunID
    BY Zenon, <2>1 DEF ClaimNextQueuedJob, TypeOK
  <2>8. /\ job' \in [Dispatcher -> JobRunID \cup {NoJob}]
        /\ pc' \in [Dispatcher -> {"idle", "check", "create", "ack", "release"}]
        /\ \A e \in Dispatcher : pc'[e] # "idle" => job'[e] \in JobRunID
    BY Zenon, <2>1, <1>2 DEF TypeOK, Claim
  <2> QED
    BY Zenon, <1>2, <2>1, <2>6, <2>7, <2>8 DEF Claim, ClaimNextQueuedJob, TypeOK
<1>3. ASSUME NEW d \in Dispatcher,
             Check(d) \/ Create(d) \/ CreateError(d) \/ AckRefused(d)
      PROVE  TypeOK'
  BY <1>3 DEF Check, Create, CreateError, AckRefused, CreateOrGet, storeVars, TypeOK
<1>4. ASSUME NEW d \in Dispatcher, Ack(d) PROVE TypeOK'
  BY Zenon, <1>4 DEF Ack, AckDispatched, JobRunStatus, TypeOK
<1>5. ASSUME NEW d \in Dispatcher, Release(d) PROVE TypeOK'
  BY Zenon, <1>5 DEF Release, ReleaseClaim, TypeOK
<1>6. ASSUME NEW j \in JobRunID, PodStep(j) PROVE TypeOK'
  BY <1>6 DEF PodStep, storeVars, TypeOK
<1>7. ASSUME NEW j \in JobRunID, NEW p \in ObservedPhase, Project(j, p) PROVE TypeOK'
  <2>1. status' \in [JobRunID -> JobRunStatus \cup {"absent"}]
    BY <1>7 DEF Project, ApplyObserved, PhaseChanges, JobStatusFromPhase,
                ObservedPhase, JobRunStatus, TypeOK
  <2>2. runStatus' \in [RunID -> WorkflowRunStatus \cup {"absent"}]
    <3>1. {RunOfJob(j)} \in SUBSET RunID
      BY Zenon, JobRunParts
    <3>2. refreshRuns({RunOfJob(j)}, status') \in [RunID -> WorkflowRunStatus \cup {"absent"}]
      BY Zenon, <3>1, <2>1, <1>1
    <3> QED
      BY Zenon, <1>7, <3>2 DEF Project, ApplyObserved, TypeOK
  <2> QED
    BY Zenon, <1>7, <2>1, <2>2 DEF Project, ApplyObserved, schedVars, TypeOK
<1>14. ASSUME NEW j \in JobRunID, NEW p \in {"skipped", "failed"}, ProjectCondition(j, p)
       PROVE  TypeOK'
  <2>1. status' \in [JobRunID -> JobRunStatus \cup {"absent"}]
    BY ZenonT(40), <1>14 DEF ProjectCondition, ApplyObserved, JobStatusFromPhase, JobRunStatus,
       TypeOK
  <2>2. runStatus' \in [RunID -> WorkflowRunStatus \cup {"absent"}]
    <3>1. {RunOfJob(j)} \in SUBSET RunID
      BY Zenon, JobRunParts
    <3>2. refreshRuns({RunOfJob(j)}, status') \in [RunID -> WorkflowRunStatus \cup {"absent"}]
      BY Zenon, <3>1, <2>1, <1>1
    <3> QED
      BY Zenon, <1>14, <3>2 DEF ProjectCondition, ApplyObserved, TypeOK
  <2> QED
    BY Zenon, <1>14, <2>1, <2>2 DEF ProjectCondition, ApplyObserved, schedVars, TypeOK
<1>8. CASE CollectList
  BY Zenon, <1>8 DEF CollectList, ListGCReadyJobs, storeVars, TypeOK
<1>9. ASSUME NEW j \in JobRunID, CollectDelete(j) \/ CollectError(j) \/ CollectMark(j)
      PROVE  TypeOK'
  <2>1. CASE CollectDelete(j)
    BY Zenon, <2>1 DEF CollectDelete, storeVars, TypeOK
  <2>2. CASE CollectError(j)
    BY Zenon, <2>2 DEF CollectError, storeVars, TypeOK
  <2>3. CASE CollectMark(j)
    BY Zenon, <2>3 DEF CollectMark, MarkCollected, TypeOK
  <2> QED
    BY Zenon, <1>9, <2>1, <2>2, <2>3
<1>10. ASSUME NEW r \in RunID, Submit(r) PROVE TypeOK'
  <2>1. born' \in [JobRunID -> Nat]
    BY <1>10, JobRunParts DEF Submit, CreateRun, TypeOK
  <2> QED
    BY <1>10, <2>1 DEF Submit, CreateRun, schedVars, JobRunStatus, WorkflowRunStatus, TypeOK
<1>11. ASSUME NEW r \in RunID, Cancel(r) PROVE TypeOK'
  BY Zenon, <1>11 DEF Cancel, CancelRun, TransitionJob, schedVars, JobRunStatus,
               WorkflowRunStatus, TypeOK
<1>12. ASSUME NEW j \in JobRunID, Rerequest(j) PROVE TypeOK'
  <2>1. RerequestJob(j) /\ UNCHANGED schedVars
    BY Zenon, <1>12 DEF Rerequest
  <2>2. j[1] \in JobKey /\ j[2] + 1 \in 0 .. MaxAttempt
    BY <2>1, JobRunParts DEF RerequestJob
  <2>3. byJobKey' \in [JobKey -> 0 .. MaxAttempt]
    BY Zenon, <2>1, <2>2 DEF RerequestJob, TypeOK
  <2>4. status' \in [JobRunID -> JobRunStatus \cup {"absent"}]
    BY Zenon, <2>1 DEF RerequestJob, JobRunStatus, TypeOK
  <2>5. runStatus' \in [RunID -> WorkflowRunStatus \cup {"absent"}]
    BY Zenon, <2>1 DEF RerequestJob, WorkflowRunStatus, TypeOK
  <2>6. clock + 1 \in Nat /\ clock' = clock + 1
    BY <2>1 DEF RerequestJob, TypeOK
  <2>7. born' = [born EXCEPT ![<<j[1], j[2] + 1>>] = clock + 1]
    BY Zenon, <2>1 DEF RerequestJob
  <2>8. born' \in [JobRunID -> Nat] /\ clock' \in Nat
    BY Zenon, <2>6, <2>7 DEF TypeOK
  <2> QED
    BY Zenon, <2>1, <2>3, <2>4, <2>5, <2>8 DEF RerequestJob, schedVars, TypeOK
<1>13. CASE UNCHANGED vars
  BY Zenon, <1>13 DEF vars, storeVars, schedVars, TypeOK
<1> QED
  BY <1>2, <1>3, <1>4, <1>5, <1>6, <1>7, <1>8, <1>9, <1>10, <1>11, <1>12, <1>13, <1>14
     DEF Next, Dispatch, Collect

(***************************************************************************)
(* The records are well formed at the start.                               *)
(***************************************************************************)
LEMMA InitType == Init => TypeOK
<1> USE StoreAssumption
<1> SUFFICES ASSUME Init PROVE TypeOK
  BY Zenon
<1>1. 0 \in 0 .. MaxAttempt
  OBVIOUS
<1>2. /\ byJobKey \in [JobKey -> 0 .. MaxAttempt]
      /\ born \in [JobRunID -> Nat] /\ clock \in Nat
  BY Zenon, <1>1 DEF Init, StoreInit
<1>3. /\ status \in [JobRunID -> JobRunStatus \cup {"absent"}]
      /\ runStatus \in [RunID -> WorkflowRunStatus \cup {"absent"}]
      /\ claimed \subseteq JobRunID /\ named \subseteq JobRunID
      /\ collected \subseteq JobRunID /\ objects \subseteq JobRunID
  BY Zenon DEF Init, StoreInit
<1>4. /\ pod \in [JobRunID -> {"none", "pending", "running", "succeeded", "failed"}]
      /\ pc \in [Dispatcher -> {"idle", "check", "create", "ack", "release"}]
      /\ job \in [Dispatcher -> JobRunID \cup {NoJob}]
      /\ \A d \in Dispatcher : pc[d] = "idle"
      /\ gcList \subseteq JobRunID /\ gcDeleted \in BOOLEAN
  BY Zenon DEF Init
<1> QED
  BY Zenon, <1>2, <1>3, <1>4 DEF TypeOK

(***************************************************************************)
(* The type invariant of the protocol.                                     *)
(***************************************************************************)
THEOREM TypeCorrect == Spec => []TypeOK
<1>1. Init => TypeOK
  BY Zenon, InitType
<1>2. TypeOK /\ [Next]_vars => TypeOK'
  BY Zenon, TypeStep
<1> QED
  BY <1>1, <1>2, PTL DEF Spec

-----------------------------------------------------------------------------
(***************************************************************************)
(* What one step can do to the job and run records, action by action.      *)
(***************************************************************************)
RecordsKept == UNCHANGED <<status, runStatus>>

SkipStep ==
  \E S \in SUBSET Candidates :
    /\ status' = Skip(S)
    /\ runStatus' = refreshRuns({RunOfJob(j) : j \in S}, Skip(S))

AckStep ==
  \E d \in Dispatcher :
    /\ pc[d] = "ack" /\ Dispatchable(job[d])
    /\ status' = [status EXCEPT ![job[d]] = "dispatched"]
    /\ UNCHANGED runStatus

ProjectStep ==
  \E j \in JobRunID, to \in JobRunStatus \ {"queued", "dispatched", "cancelled"} :
    /\ pod[j] # "none" /\ status[j] \notin JobTerminal
    /\ status' = [status EXCEPT ![j] = to]
    /\ runStatus' = refreshRuns({RunOfJob(j)}, status')

RefreshStep ==
  \E j \in JobRunID :
    /\ pod[j] # "none" /\ status[j] \notin JobTerminal
    /\ UNCHANGED status
    /\ runStatus' = refreshRuns({RunOfJob(j)}, status')

ConditionStep ==
  \E j \in JobRunID, to \in {"skipped", "failed"} :
    /\ status[j] \notin JobTerminal \cup {"absent"}
    /\ status' = [status EXCEPT ![j] = to]
    /\ runStatus' = refreshRuns({RunOfJob(j)}, status')

(***************************************************************************)
(* Every step changes the records in one of these ways.                    *)
(***************************************************************************)
LEMMA RecordSteps ==
  ASSUME TypeOK, [Next]_vars
  PROVE  \/ RecordsKept \/ SkipStep \/ AckStep \/ ProjectStep \/ RefreshStep \/ ConditionStep
         \/ \E r \in RunID : CreateRun(r) \/ CancelRun(r)
         \/ \E j \in JobRunID : RerequestJob(j)
<1>1. ASSUME NEW d \in Dispatcher, Claim(d) PROVE SkipStep
  BY Zenon, <1>1 DEF Claim, ClaimNextQueuedJob, SkipStep
<1>2. ASSUME NEW d \in Dispatcher, Check(d) \/ Create(d) \/ CreateError(d) \/ AckRefused(d)
                                     \/ Release(d)
      PROVE  RecordsKept
  BY Zenon, <1>2 DEF Check, Create, CreateError, AckRefused, Release, ReleaseClaim,
     storeVars, RecordsKept
<1>3. ASSUME NEW d \in Dispatcher, Ack(d) PROVE AckStep
  BY Zenon, <1>3 DEF Ack, AckDispatched, AckStep
<1>4. ASSUME NEW j \in JobRunID, PodStep(j) PROVE RecordsKept
  BY Zenon, <1>4 DEF PodStep, storeVars, RecordsKept
<1>5. ASSUME NEW j \in JobRunID, NEW p \in ObservedPhase, Project(j, p)
      PROVE  RecordsKept \/ ProjectStep \/ RefreshStep
  <2>1. pod[j] # "none"
    BY Zenon, <1>5 DEF Project, Shown
  <2>2. p \in {"pending", "running", "succeeded", "failed"}
    BY Zenon, <1>5, <2>1 DEF Project, Shown, TypeOK
  <2>3. ApplyObserved(j, p)
    BY Zenon, <1>5 DEF Project
  <2>4. CASE status[j] \in JobTerminal
    BY Zenon, <2>3, <2>4 DEF ApplyObserved, RecordsKept
  <2>5. CASE status[j] \notin JobTerminal /\ p = "pending"
    <3>1. ~PhaseChanges(p)
      BY Zenon, <2>5 DEF PhaseChanges
    <3> QED
      BY Zenon, <2>1, <2>3, <2>5, <3>1 DEF ApplyObserved, RefreshStep
  <2>6. CASE status[j] \notin JobTerminal /\ p # "pending"
    <3>1. PhaseChanges(p) /\ JobStatusFromPhase(p) = p
      BY Zenon, <2>2, <2>6 DEF PhaseChanges, ObservedPhase, JobStatusFromPhase
    <3>2. p \in JobRunStatus \ {"queued", "dispatched", "cancelled"}
      BY Zenon, <2>2, <2>6 DEF JobRunStatus
    <3>3. \/ RecordsKept
          \/ /\ status' = [status EXCEPT ![j] = p]
             /\ runStatus' = refreshRuns({RunOfJob(j)}, status')
      BY Zenon, <2>3, <3>1 DEF ApplyObserved, RecordsKept
    <3> QED
      BY Zenon, <2>1, <2>6, <3>2, <3>3 DEF ProjectStep
  <2> QED
    BY Zenon, <2>4, <2>5, <2>6
<1>6. CASE Collect
  BY Zenon, <1>6 DEF Collect, CollectList, CollectDelete, CollectError, CollectMark,
     MarkCollected,
              storeVars, RecordsKept
<1>7. CASE UNCHANGED vars
  BY Zenon, <1>7 DEF vars, storeVars, RecordsKept
<1>8. ASSUME NEW j \in JobRunID, NEW p \in {"skipped", "failed"}, ProjectCondition(j, p)
      PROVE  RecordsKept \/ ConditionStep
  <2>1. PhaseChanges(p) /\ JobStatusFromPhase(p) = p
    BY Zenon DEF PhaseChanges, ObservedPhase, JobStatusFromPhase
  <2> QED
    BY Zenon, <1>8, <2>1 DEF ProjectCondition, ApplyObserved, Exists, RecordsKept, ConditionStep
<1> QED
  BY Zenon, <1>1, <1>2, <1>3, <1>4, <1>5, <1>6, <1>7, <1>8
     DEF Next, Dispatch, Submit, Cancel, Rerequest

(***************************************************************************)
(* What one step can do to the active objects and their pods.              *)
(***************************************************************************)
LEMMA ObjectSteps ==
  ASSUME TypeOK, [Next]_vars
  PROVE  \/ UNCHANGED <<objects, pod>>
         \/ \E d \in Dispatcher : pc[d] = "create" /\ CreateOrGet(job[d]) /\ RecordsKept
         \/ /\ UNCHANGED objects /\ RecordsKept
            /\ \E j \in objects, to \in {"running", "succeeded", "failed"} :
                 pod[j] # "none" /\ pod' = [pod EXCEPT ![j] = to]
         \/ /\ UNCHANGED pod /\ RecordsKept
            /\ \E j \in gcList : objects' = objects \ {j}
<1> USE DEF RecordsKept, storeVars
<1>1. ASSUME NEW d \in Dispatcher, Claim(d) \/ Check(d) \/ Ack(d) \/ AckRefused(d) \/ Release(d)
      PROVE  UNCHANGED <<objects, pod>>
  BY Zenon, <1>1 DEF Claim, Check, Ack, AckRefused, Release
<1>2. ASSUME NEW d \in Dispatcher, Create(d) \/ CreateError(d)
      PROVE  \/ UNCHANGED <<objects, pod>>
             \/ pc[d] = "create" /\ CreateOrGet(job[d]) /\ RecordsKept
  BY Zenon, <1>2 DEF Create, CreateError
<1>3. ASSUME NEW j \in JobRunID, PodStep(j)
      PROVE  /\ UNCHANGED objects /\ RecordsKept
             /\ \E i \in objects, to \in {"running", "succeeded", "failed"} :
                  pod[i] # "none" /\ pod' = [pod EXCEPT ![i] = to]
  BY Zenon, <1>3 DEF PodStep
<1>4. ASSUME NEW j \in JobRunID, CollectDelete(j) \/ CollectError(j) \/ CollectMark(j)
      PROVE  \/ UNCHANGED <<objects, pod>>
             \/ /\ UNCHANGED pod /\ RecordsKept
                /\ \E i \in gcList : objects' = objects \ {i}
  BY Zenon, <1>4 DEF CollectDelete, CollectError, CollectMark, gcHead
<1>5. CASE CollectList
  BY Zenon, <1>5 DEF CollectList
<1>6. CASE \/ \E j \in JobRunID, p \in ObservedPhase : Project(j, p)
           \/ \E j \in JobRunID, p \in {"skipped", "failed"} : ProjectCondition(j, p)
           \/ \E r \in RunID : Submit(r) \/ Cancel(r)
           \/ \E j \in JobRunID : Rerequest(j)
  BY Zenon, <1>6 DEF Project, ProjectCondition, Submit, Cancel, Rerequest, schedVars
<1>7. CASE UNCHANGED vars
  BY Zenon, <1>7 DEF vars, schedVars
<1> QED
  BY Zenon, <1>1, <1>2, <1>3, <1>4, <1>5, <1>6, <1>7 DEF Next, Dispatch, Collect

(***************************************************************************)
(* A dispatcher moves only by its own steps, and works on the job it       *)
(* claimed until it is idle again.                                         *)
(***************************************************************************)
LEMMA DispatcherSteps ==
  ASSUME TypeOK, [Next]_vars, NEW d \in Dispatcher
  PROVE  \/ pc'[d] = pc[d] /\ job'[d] = job[d]
         \/ pc'[d] = "idle"
         \/ Claim(d) /\ pc'[d] = "check" /\ job'[d] \in Candidates
         \/ Check(d) /\ job'[d] = job[d]
         \/ Create(d) /\ pc'[d] = "ack" /\ job'[d] = job[d]
         \/ pc[d] # "idle" /\ pc'[d] = "release" /\ job'[d] = job[d]
<1> DEFINE Moves ==
      \/ pc'[d] = pc[d] /\ job'[d] = job[d]
      \/ pc'[d] = "idle"
      \/ Claim(d) /\ pc'[d] = "check" /\ job'[d] \in Candidates
      \/ Check(d) /\ job'[d] = job[d]
      \/ Create(d) /\ pc'[d] = "ack" /\ job'[d] = job[d]
      \/ pc[d] # "idle" /\ pc'[d] = "release" /\ job'[d] = job[d]
<1>1. ASSUME NEW e \in Dispatcher, Claim(e) PROVE Moves
  <2>1. CASE e # d
    BY Zenon, <1>1, <2>1 DEF Claim, TypeOK
  <2>2. CASE e = d
    <3>1. PICK pick \in JobRunID \cup {NoJob} :
            /\ pick \in Candidates \cup {NoJob}
            /\ job' = [job EXCEPT ![d] = pick]
            /\ pc' = IF pick = NoJob THEN pc ELSE [pc EXCEPT ![d] = "check"]
      BY Zenon, <1>1, <2>2 DEF Claim, ClaimNextQueuedJob
    <3>2. pc[d] = "idle"
      BY Zenon, <1>1, <2>2 DEF Claim
    <3>3. CASE pick = NoJob
      BY Zenon, <3>1, <3>2, <3>3
    <3>4. CASE pick # NoJob
      BY Zenon, <1>1, <2>2, <3>1, <3>4 DEF TypeOK
    <3> QED
      BY Zenon, <3>3, <3>4
  <2> QED
    BY Zenon, <2>1, <2>2
<1>2. ASSUME NEW e \in Dispatcher, Check(e) PROVE Moves
  BY Zenon, <1>2 DEF Check, TypeOK
<1>3. ASSUME NEW e \in Dispatcher, Create(e) PROVE Moves
  <2>1. CASE e # d
    BY Zenon, <1>3, <2>1 DEF Create, TypeOK
  <2>2. CASE e = d
    BY Zenon, <1>3, <2>2 DEF Create, TypeOK
  <2> QED
    BY Zenon, <2>1, <2>2
<1>4. ASSUME NEW e \in Dispatcher, CreateError(e) \/ AckRefused(e) PROVE Moves
  BY Zenon, <1>4 DEF CreateError, AckRefused, TypeOK
<1>5. ASSUME NEW e \in Dispatcher, Ack(e) \/ Release(e) PROVE Moves
  BY Zenon, <1>5 DEF Ack, Release, TypeOK
<1>6. CASE UNCHANGED <<pc, job>>
  BY Zenon, <1>6
<1>7. (\E e \in Dispatcher : Dispatch(e)) \/ UNCHANGED <<pc, job>>
  BY Zenon DEF Next, vars, schedVars, PodStep, Project, ProjectCondition, Collect,
     CollectList, CollectDelete,
         CollectError, CollectMark, Submit, Cancel, Rerequest
<1> QED
  BY Zenon, <1>1, <1>2, <1>3, <1>4, <1>5, <1>6, <1>7 DEF Dispatch

(***************************************************************************)
(* refreshRunLocked neither creates nor drops a run record.                *)
(***************************************************************************)
LEMMA RefreshKeepsRecords ==
  ASSUME TypeOK, NEW R, NEW st \in [JobRunID -> JobRunStatus \cup {"absent"}],
         NEW r \in RunID
  PROVE  refreshRuns(R, st)[r] = "absent" <=> runStatus[r] = "absent"
<1>1. runStatus[r] # "absent" => runStatus[r] \in WorkflowRunStatus
  BY Zenon DEF TypeOK
<1>2. runStatus[r] # "absent" => refreshRun(r, st) # "absent"
  BY Zenon, <1>1, RefreshCloses DEF WorkflowRunStatus
<1> QED
  BY Zenon, <1>2 DEF refreshRuns

(***************************************************************************)
(* Records stay, and a terminal job status stays what it is.               *)
(***************************************************************************)
LEMMA StatusStep ==
  ASSUME TypeOK, RecordsTogether, [Next]_vars, NEW j \in JobRunID
  PROVE  /\ status[j] # "absent" => status'[j] # "absent"
         /\ status[j] \in JobTerminal => status'[j] = status[j]
<1> USE DEF JobTerminal
<1>1. CASE RecordsKept \/ RefreshStep
  BY Zenon, <1>1 DEF RecordsKept, RefreshStep
<1>2. CASE SkipStep
  BY Zenon, <1>2 DEF SkipStep, Skip, Candidates
<1>3. CASE AckStep
  BY Zenon, <1>3 DEF AckStep, Dispatchable, TypeOK
<1>4. CASE ProjectStep \/ ConditionStep
  BY Zenon, <1>4 DEF ProjectStep, ConditionStep, JobRunStatus, TypeOK
<1>5. ASSUME NEW r \in RunID, CreateRun(r)
      PROVE  /\ status[j] # "absent" => status'[j] # "absent"
             /\ status[j] \in JobTerminal => status'[j] = status[j]
  BY Zenon, <1>5 DEF CreateRun, RecordsTogether
<1>6. ASSUME NEW r \in RunID, CancelRun(r)
      PROVE  /\ status[j] # "absent" => status'[j] # "absent"
             /\ status[j] \in JobTerminal => status'[j] = status[j]
  BY Zenon, <1>6 DEF CancelRun, TransitionJob, CanTransitionJob
<1>7. ASSUME NEW i \in JobRunID, RerequestJob(i)
      PROVE  /\ status[j] # "absent" => status'[j] # "absent"
             /\ status[j] \in JobTerminal => status'[j] = status[j]
  BY Zenon, <1>7 DEF RerequestJob, Exists, TypeOK
<1> QED
  BY Zenon, <1>1, <1>2, <1>3, <1>4, <1>5, <1>6, <1>7, RecordSteps

(***************************************************************************)
(* Run and job records appear together, and only known jobs are claimed or *)
(* executed.                                                               *)
(***************************************************************************)
LEMMA RecordsTogetherStep ==
  ASSUME TypeOK, TypeOK', RecordsTogether, [Next]_vars
  PROVE  RecordsTogether'
<1> DEFINE Together ==
      \A j \in JobRunID :
        /\ status[j] # "absent" => runStatus[RunOfJob(j)] # "absent"
        /\ j[2] = 1 /\ runStatus[RunOfJob(j)] # "absent" => status[j] # "absent"
<1>0. /\ status \in [JobRunID -> JobRunStatus \cup {"absent"}]
      /\ runStatus \in [RunID -> WorkflowRunStatus \cup {"absent"}]
  BY Zenon DEF TypeOK
<1>a. status' \in [JobRunID -> JobRunStatus \cup {"absent"}]
  BY Zenon DEF TypeOK
<1>1. Together'
  <2> USE DEF RecordsTogether, RunOfJob
  <2>1. CASE RecordsKept
    BY Zenon, <2>1 DEF RecordsKept
  <2>2. CASE SkipStep
    <3>1. PICK S \in SUBSET Candidates :
            status' = Skip(S) /\ runStatus' = refreshRuns({RunOfJob(j) : j \in S}, Skip(S))
      BY Zenon, <2>2 DEF SkipStep
    <3>2. \A j \in JobRunID : status'[j] = "absent" <=> status[j] = "absent"
      BY Zenon, <3>1 DEF Skip, Candidates
    <3>3. \A r \in RunID : runStatus'[r] = "absent" <=> runStatus[r] = "absent"
      BY Zenon, <1>a, <3>1, RefreshKeepsRecords
    <3> QED
      BY Zenon, <3>2, <3>3, JobRunParts
  <2>3. CASE AckStep
    <3>1. PICK d \in Dispatcher :
            /\ pc[d] = "ack" /\ Dispatchable(job[d])
            /\ status' = [status EXCEPT ![job[d]] = "dispatched"]
            /\ UNCHANGED runStatus
      BY Zenon, <2>3 DEF AckStep
    <3>2. \A i \in JobRunID : status'[i] = "absent" <=> status[i] = "absent"
      BY Zenon, <1>0, <3>1 DEF Dispatchable
    <3> QED
      BY Zenon, <3>1, <3>2
  <2>4. CASE ProjectStep \/ RefreshStep \/ ConditionStep
    <3>1. PICK R : runStatus' = refreshRuns(R, status')
      BY Zenon, <2>4 DEF ProjectStep, RefreshStep, ConditionStep
    <3>2. \A r \in RunID : runStatus'[r] = "absent" <=> runStatus[r] = "absent"
      BY Zenon, <1>a, <3>1, RefreshKeepsRecords
    <3>3. PICK j \in JobRunID, to \in JobRunStatus :
            /\ status[j] # "absent"
            /\ UNCHANGED status \/ status' = [status EXCEPT ![j] = to]
      BY Zenon, <2>4 DEF ProjectStep, RefreshStep, ConditionStep, JobRunStatus
    <3>4. \A i \in JobRunID : status'[i] = "absent" <=> status[i] = "absent"
      BY Zenon, <1>0, <3>3 DEF JobRunStatus
    <3> QED
      BY Zenon, <3>2, <3>4, JobRunParts
  <2>5. ASSUME NEW r \in RunID, CreateRun(r) PROVE Together'
    <3>1. \A q \in RunID : runStatus'[q] = IF q = r THEN "queued" ELSE runStatus[q]
      BY Zenon, <1>0, <2>5 DEF CreateRun
    <3>2. \A j \in JobRunID :
            status'[j] = IF RunOfJob(j) = r /\ j[2] = 1 THEN "queued" ELSE status[j]
      BY Zenon, <2>5 DEF CreateRun
    <3> QED
      BY Zenon, <3>1, <3>2, JobRunParts
  <2>6. ASSUME NEW r \in RunID, CancelRun(r) PROVE Together'
    <3>1. \A q \in RunID : runStatus'[q] = "absent" <=> runStatus[q] = "absent"
      BY Zenon, <1>0, <2>6 DEF CancelRun
    <3>2. \A j \in JobRunID : status'[j] = "absent" <=> status[j] = "absent"
      BY Zenon, <2>6 DEF CancelRun, TransitionJob, runJobs
    <3> QED
      BY Zenon, <3>1, <3>2, JobRunParts
  <2>7. ASSUME NEW j \in JobRunID, RerequestJob(j) PROVE Together'
    <3>1. \A q \in RunID : runStatus'[q] = "absent" <=> runStatus[q] = "absent"
      BY Zenon, <1>0, <2>7 DEF RerequestJob, RunTerminal
    <3>2. /\ \A i \in JobRunID : i # <<j[1], j[2] + 1>> => status'[i] = status[i]
          /\ \A i \in JobRunID : status[i] # "absent" => status'[i] # "absent"
      BY Zenon, <1>0, <2>7 DEF RerequestJob
    <3>3. status[j] # "absent" /\ RunOfJob(<<j[1], j[2] + 1>>) = RunOfJob(j)
      BY Zenon, <2>7 DEF RerequestJob, Exists
    <3> QED
      BY Zenon, <3>1, <3>2, <3>3, JobRunParts
  <2> QED
    BY Zenon, <2>1, <2>2, <2>3, <2>4, <2>5, <2>6, <2>7, RecordSteps
<1>2. ASSUME NEW j \in JobRunID, pod'[j] # "none" PROVE status'[j] # "absent"
  <2>1. status[j] # "absent"
    <3>1. pod[j] # "none" \/ \E d \in Dispatcher : pc[d] = "create" /\ job[d] = j
      BY <1>2, ObjectSteps DEF CreateOrGet, TypeOK
    <3> QED
      BY Zenon, <3>1 DEF RecordsTogether
  <2> QED
    BY Zenon, <2>1, StatusStep
<1>3. ASSUME NEW d \in Dispatcher, pc'[d] # "idle" PROVE status'[job'[d]] # "absent"
  <2>1. job'[d] \in JobRunID /\ status[job'[d]] # "absent"
    BY Zenon, <1>3, DispatcherSteps DEF Check, Create, Candidates, RecordsTogether, TypeOK
  <2> QED
    BY Zenon, <2>1, StatusStep
<1> QED
  BY Zenon, <1>1, <1>2, <1>3 DEF RecordsTogether, RunOfJob

(***************************************************************************)
(* A claim goes away only when its dispatcher is done or its job is closed.*)
(***************************************************************************)
LEMMA ClaimsDropped ==
  ASSUME TypeOK, RecordsTogether, [Next]_vars, NEW j \in claimed, j \notin claimed'
  PROVE  \/ \E d \in Dispatcher : pc[d] # "idle" /\ pc'[d] = "idle" /\ job[d] = j
         \/ status'[j] \in JobTerminal
<1>1. ASSUME NEW d \in Dispatcher, Ack(d) \/ Release(d)
      PROVE  pc[d] # "idle" /\ pc'[d] = "idle" /\ job[d] = j
  BY Zenon, <1>1 DEF Ack, Release, AckDispatched, ReleaseClaim, TypeOK
<1>2. ASSUME NEW r \in RunID, Cancel(r) PROVE status'[j] \in JobTerminal
  BY Zenon, <1>2 DEF Cancel, CancelRun, runJobs, TransitionJob, CanTransitionJob,
     JobTerminal, TypeOK
<1>3. ASSUME NEW d \in Dispatcher, Claim(d) PROVE FALSE
  BY Zenon, <1>3 DEF Claim, ClaimNextQueuedJob
<1>4. (\E d \in Dispatcher : Claim(d) \/ Ack(d) \/ Release(d)) \/ (\E r \in RunID : Cancel(r))
  BY Zenon DEF Next, vars, storeVars, Dispatch, Check, Create, CreateError, AckRefused, PodStep,
         Project, ProjectCondition, ApplyObserved, Collect, CollectList, CollectDelete, CollectError, CollectMark,
         MarkCollected, Submit, CreateRun, Rerequest, RerequestJob
<1> QED
  BY Zenon, <1>1, <1>2, <1>3, <1>4

(***************************************************************************)
(* Dispatch is exclusive, and a dispatcher's claim is only lost to a       *)
(* cancellation that closes its job.                                       *)
(***************************************************************************)
LEMMA ExclusiveStep ==
  ASSUME TypeOK, RecordsTogether, ExclusiveDispatch, ClaimsHeld, [Next]_vars
  PROVE  ExclusiveDispatch' /\ ClaimsHeld'
<1>1. ASSUME NEW d \in Dispatcher, pc'[d] # "idle", ~Claim(d)
      PROVE  pc[d] # "idle" /\ job'[d] = job[d]
  BY Zenon, <1>1, DispatcherSteps DEF Check, Create
<1>2. ASSUME NEW d \in Dispatcher, Claim(d), pc'[d] # "idle"
      PROVE  /\ job'[d] \in Candidates /\ job'[d] \in claimed'
             /\ \A e \in Dispatcher \ {d} : pc'[e] = pc[e] /\ job'[e] = job[e]
  BY Zenon, <1>2 DEF Claim, ClaimNextQueuedJob, TypeOK
<1>3. ASSUME NEW d \in Dispatcher, NEW e \in Dispatcher, d # e, Claim(d),
             pc'[d] # "idle", pc'[e] # "idle"
      PROVE  job'[d] # job'[e]
  <2>1. /\ job'[d] \in Candidates
        /\ pc[e] # "idle" /\ job'[e] = job[e]
    BY Zenon, <1>2, <1>3
  <2> QED
    BY Zenon, <2>1 DEF ClaimsHeld, Candidates, JobTerminal
<1>4. ExclusiveDispatch'
  BY Zenon, <1>1, <1>3 DEF ExclusiveDispatch
<1>5. ASSUME NEW d \in Dispatcher, pc'[d] # "idle"
      PROVE  job'[d] \in claimed' \/ status'[job'[d]] \in JobTerminal
  <2>1. CASE Claim(d)
    BY Zenon, <1>2, <1>5, <2>1
  <2>2. CASE ~Claim(d)
    <3>1. pc[d] # "idle" /\ job'[d] = job[d] /\ job[d] \in JobRunID
      BY Zenon, <1>1, <1>5, <2>2 DEF TypeOK
    <3>2. CASE status[job[d]] \in JobTerminal
      BY Zenon, <3>1, <3>2, StatusStep
    <3>3. CASE job[d] \in claimed /\ job[d] \notin claimed'
      BY Zenon, <1>5, <3>1, <3>3, ClaimsDropped DEF ExclusiveDispatch
    <3> QED
      BY Zenon, <3>1, <3>2, <3>3 DEF ClaimsHeld
  <2> QED
    BY Zenon, <2>1, <2>2
<1> QED
  BY Zenon, <1>4, <1>5 DEF ClaimsHeld

(***************************************************************************)
(* An executing job keeps its object until its outcome is durable, and the *)
(* sweep holds only jobs with a durable outcome.                           *)
(***************************************************************************)
LEMMA ObjectsKeptStep ==
  ASSUME TypeOK, RecordsTogether, ObjectsKept, [Next]_vars
  PROVE  ObjectsKept'
<1>1. ASSUME NEW j \in JobRunID, j \in objects \/ status[j] \in JobTerminal
      PROVE  j \in objects' \/ status'[j] \in JobTerminal
  <2>1. j \in objects' \/ status[j] \in JobTerminal
    BY Zenon, <1>1, ObjectSteps DEF ObjectsKept, CreateOrGet
  <2> QED
    BY Zenon, <2>1, StatusStep
<1>2. ASSUME NEW j \in JobRunID, pod'[j] # "none"
      PROVE  j \in objects' \/ status'[j] \in JobTerminal
  <2>1. j \in objects' \/ pod[j] # "none"
    BY Zenon, <1>2, ObjectSteps DEF CreateOrGet, TypeOK
  <2> QED
    BY Zenon, <1>1, <2>1 DEF ObjectsKept
<1>3. ASSUME NEW j \in JobRunID, status'[j] \in {"dispatched", "running"}
      PROVE  j \in objects' \/ status'[j] \in JobTerminal
  <2> SUFFICES status[j] \in {"dispatched", "running"} \/ j \in objects \/ pod[j] # "none"
    BY Zenon, <1>1 DEF ObjectsKept
  <2>1. CASE RecordsKept \/ RefreshStep
    BY Zenon, <1>3, <2>1 DEF RecordsKept, RefreshStep
  <2>2. CASE SkipStep
    BY Zenon, <1>3, <2>2 DEF SkipStep, Skip
  <2>3. CASE AckStep
    BY <1>3, <2>3 DEF AckStep, Dispatchable, ObjectsKept, JobTerminal, TypeOK
  <2>4. CASE ProjectStep \/ ConditionStep
    BY Zenon, <1>3, <2>4 DEF ProjectStep, ConditionStep, TypeOK
  <2>5. ASSUME NEW r \in RunID, CreateRun(r) \/ CancelRun(r)
        PROVE  status[j] \in {"dispatched", "running"}
    BY Zenon, <1>3, <2>5 DEF CreateRun, CancelRun, TransitionJob
  <2>6. ASSUME NEW i \in JobRunID, RerequestJob(i) PROVE status[j] \in {"dispatched", "running"}
    BY Zenon, <1>3, <2>6 DEF RerequestJob, TypeOK
  <2> QED
    BY Zenon, <2>1, <2>2, <2>3, <2>4, <2>5, <2>6, RecordSteps
<1>4. ASSUME NEW d \in Dispatcher, pc'[d] = "ack"
      PROVE  job'[d] \in objects' \/ status'[job'[d]] \in JobTerminal
  <2>1. CASE Create(d)
    BY Zenon, <2>1 DEF Create, CreateOrGet
  <2>2. CASE pc[d] = "ack" /\ job'[d] = job[d]
    BY Zenon, <1>1, <2>2 DEF ObjectsKept, TypeOK
  <2> QED
    BY Zenon, <1>4, <2>1, <2>2, DispatcherSteps DEF Check, TypeOK
<1>5. ASSUME NEW j \in gcList' PROVE status'[j] \in JobTerminal
  <2>1. j \in JobRunID /\ status[j] \in JobTerminal
    <3>1. CASE CollectList
      BY Zenon, <3>1, <1>5 DEF CollectList, ListGCReadyJobs
    <3>2. CASE ~CollectList
      <4>1. gcList' \subseteq gcList
        BY Zenon, <3>2 DEF Next, vars, schedVars, Dispatch, Claim, Check, Create,
           CreateError, Ack,
                    AckRefused, Release, PodStep, Project, ProjectCondition, Collect, CollectDelete, CollectError,
                    CollectMark, Submit, Cancel, Rerequest
      <4> QED
        BY Zenon, <1>5, <4>1 DEF ObjectsKept, TypeOK
    <3> QED
      BY Zenon, <3>1, <3>2
  <2> QED
    BY Zenon, <2>1, StatusStep
<1> QED
  BY Zenon, <1>2, <1>3, <1>4, <1>5 DEF ObjectsKept

-----------------------------------------------------------------------------
(***************************************************************************)
(* Closed(r): run r is closed exactly while all its jobs are, and reports  *)
(* success only when none of them failed or was cancelled.                 *)
(***************************************************************************)
Closed(r) ==
  runStatus[r] # "absent" =>
    /\ runStatus[r] \in RunTerminal
         <=> \A j \in runJobs(r, status) : status[j] \in JobTerminal
    /\ runStatus[r] = "succeeded"
         => \A j \in runJobs(r, status) : status[j] \in {"succeeded", "skipped"}

LEMMA ClosedIsBoth ==
  RunClosedWithJobs /\ SuccessIsUnanimous <=> \A r \in RunID : Closed(r)
<1>1. ASSUME NEW r \in RunID, runStatus[r] = "succeeded" PROVE runStatus[r] # "absent"
  BY Zenon, <1>1
<1> QED
  BY Zenon, <1>1 DEF RunClosedWithJobs, SuccessIsUnanimous, Closed

(***************************************************************************)
(* A run whose record and whose jobs a step leaves alone stays as it was.  *)
(***************************************************************************)
LEMMA ClosedElsewhere ==
  ASSUME NEW r \in RunID, Closed(r), runStatus'[r] = runStatus[r],
         \A j \in JobRunID : RunOfJob(j) = r => status'[j] = status[j]
  PROVE  Closed(r)'
<1>1. runJobs(r, status)' = runJobs(r, status)
  BY Zenon DEF runJobs, RunOfJob
<1>2. \A j \in runJobs(r, status) : status'[j] = status[j]
  BY Zenon DEF runJobs
<1> QED
  BY Zenon, <1>1, <1>2 DEF Closed

(***************************************************************************)
(* A run whose first attempts exist in the records st has a job in them.   *)
(***************************************************************************)
LEMMA RunHasJob ==
  ASSUME NEW r \in RunID, NEW st,
         \A j \in JobRunID : j[2] = 1 /\ RunOfJob(j) = r => st[j] # "absent"
  PROVE  runJobs(r, st) # {}
<1>1. PICK k \in JobKey : RunOf[k] = r
  BY Zenon, StoreAssumption
<1>2. <<k, 1>> \in JobRunID
  BY StoreAssumption DEF JobRunID
<1>3. <<k, 1>>[2] = 1 /\ RunOfJob(<<k, 1>>) = r
  BY Zenon, <1>1 DEF RunOfJob
<1> QED
  BY Zenon, <1>2, <1>3 DEF runJobs

(***************************************************************************)
(* An open job keeps its run open.                                         *)
(***************************************************************************)
LEMMA OpenJobOpenRun ==
  ASSUME TypeOK, RecordsTogether, \A r \in RunID : Closed(r),
         NEW j \in JobRunID, status[j] \notin JobTerminal \cup {"absent"}
  PROVE  RunOfJob(j) \in RunID /\ runStatus[RunOfJob(j)] \in WorkflowRunStatus \ RunTerminal
<1>1. RunOfJob(j) \in RunID /\ runStatus[RunOfJob(j)] # "absent"
  BY Zenon, JobRunParts DEF RecordsTogether
<1>2. j \in runJobs(RunOfJob(j), status)
  BY Zenon DEF runJobs
<1> QED
  BY Zenon, <1>1, <1>2 DEF Closed, TypeOK

(***************************************************************************)
(* Refreshing the open runs R whose jobs a step changed keeps every run    *)
(* closed exactly while its jobs are.                                      *)
(***************************************************************************)
LEMMA ClosedByRefresh ==
  ASSUME TypeOK, TypeOK', RecordsTogether', \A r \in RunID : Closed(r),
         NEW R \in SUBSET RunID,
         \A r \in R : runStatus[r] \in WorkflowRunStatus \ RunTerminal,
         runStatus' = refreshRuns(R, status'),
         \A j \in JobRunID : RunOfJob(j) \notin R => status'[j] = status[j]
  PROVE  \A r \in RunID : Closed(r)'
<1> SUFFICES ASSUME NEW r \in RunID PROVE Closed(r)'
  BY Zenon
<1>1. CASE r \notin R
  BY Zenon, <1>1, ClosedElsewhere DEF refreshRuns
<1>2. CASE r \in R
  <2>1. runStatus'[r] = refreshRun(r, status') /\ runStatus[r] \in WorkflowRunStatus \ RunTerminal
    BY Zenon, <1>2 DEF refreshRuns, WorkflowRunStatus
  <2>2. status' \in [JobRunID -> JobRunStatus \cup {"absent"}]
    BY Zenon DEF TypeOK
  <2>3. /\ refreshRun(r, status') \in WorkflowRunStatus
        /\ refreshRun(r, status') \in RunTerminal
             <=> runJobs(r, status') # {} /\ \A j \in runJobs(r, status') : status'[j] \in JobTerminal
        /\ refreshRun(r, status') = "succeeded"
             => \A j \in runJobs(r, status') : status'[j] \in {"succeeded", "skipped"}
    BY Zenon, <2>1, <2>2, RefreshCloses
  <2>4. runJobs(r, status)' = runJobs(r, status')
    BY Zenon DEF runJobs, RunOfJob
  <2>5. runStatus'[r] # "absent"
    BY Zenon, <2>1, <2>3 DEF WorkflowRunStatus
  <2>6. runJobs(r, status') # {}
    <3>1. \A j \in JobRunID : j[2] = 1 /\ RunOfJob(j) = r => status'[j] # "absent"
      BY Zenon, <2>5 DEF RecordsTogether, RunOfJob
    <3> QED
      BY Zenon, <3>1, RunHasJob
  <2> QED
    BY Zenon, <2>1, <2>3, <2>4, <2>6 DEF Closed
<1> QED
  BY Zenon, <1>1, <1>2

(***************************************************************************)
(* Every step keeps every run closed exactly while its jobs are.           *)
(***************************************************************************)
LEMMA ClosedStep ==
  ASSUME TypeOK, TypeOK', RecordsTogether, RecordsTogether', \A r \in RunID : Closed(r),
         [Next]_vars
  PROVE  \A r \in RunID : Closed(r)'
<1>0. /\ status \in [JobRunID -> JobRunStatus \cup {"absent"}]
      /\ runStatus \in [RunID -> WorkflowRunStatus \cup {"absent"}]
  BY Zenon DEF TypeOK
<1>1. CASE RecordsKept
  BY Zenon, <1>1, ClosedElsewhere DEF RecordsKept
<1>2. CASE SkipStep
  <2>1. PICK S \in SUBSET Candidates :
          status' = Skip(S) /\ runStatus' = refreshRuns({RunOfJob(j) : j \in S}, Skip(S))
    BY Zenon, <1>2 DEF SkipStep
  <2> DEFINE R == {RunOfJob(j) : j \in S}
  <2>2. /\ R \in SUBSET RunID
        /\ \A r \in R : runStatus[r] \in WorkflowRunStatus \ RunTerminal
    BY Zenon, OpenJobOpenRun DEF Candidates, JobTerminal
  <2>3. \A j \in JobRunID : RunOfJob(j) \notin R => status'[j] = status[j]
    BY Zenon, <2>1 DEF Skip
  <2> QED
    BY Zenon, <2>1, <2>2, <2>3, ClosedByRefresh
<1>3. CASE AckStep
  <2>1. PICK d \in Dispatcher :
          /\ pc[d] = "ack" /\ Dispatchable(job[d])
          /\ status' = [status EXCEPT ![job[d]] = "dispatched"]
          /\ UNCHANGED runStatus
    BY Zenon, <1>3 DEF AckStep
  <2> DEFINE i == job[d]
  <2>2. i \in JobRunID /\ status[i] \in {"queued", "dispatched"} /\ status'[i] = "dispatched"
    BY Zenon, <2>1 DEF Dispatchable, TypeOK
  <2>3. runStatus[RunOfJob(i)] \in WorkflowRunStatus \ RunTerminal
    BY Zenon, <2>2, OpenJobOpenRun DEF JobTerminal
  <2>4. ASSUME NEW r \in RunID, r # RunOfJob(i) PROVE Closed(r)'
    BY Zenon, <1>0, <2>1, <2>4, ClosedElsewhere
  <2>5. ASSUME NEW r \in RunID, r = RunOfJob(i) PROVE Closed(r)'
    <3>1. i \in runJobs(r, status)' /\ status'[i] \notin JobTerminal
      BY Zenon, <2>2, <2>5 DEF runJobs, RunOfJob, JobTerminal
    <3> QED
      BY Zenon, <2>1, <2>3, <2>5, <3>1 DEF Closed, RunTerminal
  <2> QED
    BY Zenon, <2>4, <2>5
<1>4. CASE ProjectStep \/ RefreshStep \/ ConditionStep
  <2>1. PICK j \in JobRunID :
          /\ status[j] \notin JobTerminal \cup {"absent"}
          /\ runStatus' = refreshRuns({RunOfJob(j)}, status')
          /\ \A i \in JobRunID \ {j} : status'[i] = status[i]
    BY Zenon, <1>0, <1>4 DEF ProjectStep, RefreshStep, ConditionStep, RecordsTogether
  <2>2. /\ {RunOfJob(j)} \in SUBSET RunID
        /\ \A r \in {RunOfJob(j)} : runStatus[r] \in WorkflowRunStatus \ RunTerminal
    BY Zenon, <2>1, OpenJobOpenRun
  <2> QED
    BY Zenon, <2>1, <2>2, ClosedByRefresh
<1>5. ASSUME NEW q \in RunID, CreateRun(q), NEW r \in RunID PROVE Closed(r)'
  <2>1. CASE r # q
    BY Zenon, <1>0, <1>5, <2>1, ClosedElsewhere DEF CreateRun
  <2>2. CASE r = q
    <3>1. runStatus'[r] = "queued"
      BY Zenon, <1>0, <1>5, <2>2 DEF CreateRun
    <3>2. \A j \in JobRunID : j[2] = 1 /\ RunOfJob(j) = r => status'[j] # "absent"
      BY Zenon, <1>5, <2>2 DEF CreateRun
    <3>3. PICK j \in JobRunID : RunOfJob(j) = r /\ status'[j] # "absent"
      BY Zenon, <3>2, RunHasJob DEF runJobs
    <3>4. status[j] = "absent"
      BY Zenon, <1>5, <2>2, <3>3 DEF CreateRun, RecordsTogether
    <3>5. status'[j] = "queued" /\ j \in runJobs(r, status)'
      BY Zenon, <1>5, <3>3, <3>4 DEF CreateRun, runJobs, RunOfJob
    <3> QED
      BY Zenon, <3>1, <3>5 DEF Closed, RunTerminal, JobTerminal
  <2> QED
    BY Zenon, <2>1, <2>2
<1>6. ASSUME NEW q \in RunID, CancelRun(q), NEW r \in RunID PROVE Closed(r)'
  <2>1. CASE r # q
    BY Zenon, <1>0, <1>6, <2>1, ClosedElsewhere DEF CancelRun, runJobs
  <2>2. CASE r = q
    <3>1. runStatus'[r] = "cancelled"
      BY Zenon, <1>0, <1>6, <2>2 DEF CancelRun
    <3>2. ASSUME NEW j \in JobRunID, RunOfJob(j) = r, status'[j] # "absent"
          PROVE  status'[j] \in JobTerminal
      BY Zenon, <1>0, <1>6, <2>2, <3>2 DEF CancelRun, runJobs, TransitionJob,
         CanTransitionJob, JobTerminal
    <3>3. \A j \in runJobs(r, status)' : status'[j] \in JobTerminal
      BY Zenon, <3>2 DEF runJobs, RunOfJob
    <3> QED
      BY Zenon, <3>1, <3>3 DEF Closed, RunTerminal
  <2> QED
    BY Zenon, <2>1, <2>2
<1>7. ASSUME NEW i \in JobRunID, RerequestJob(i), NEW r \in RunID PROVE Closed(r)'
  <2> DEFINE new == <<i[1], i[2] + 1>>
  <2>1. /\ new \in JobRunID /\ RunOfJob(new) = RunOfJob(i)
        /\ RunOfJob(i) \in RunID
    <3>1. i[2] < MaxAttempt
      BY Zenon, <1>7 DEF RerequestJob
    <3>2. i[1] \in JobKey /\ i[2] \in 1 .. MaxAttempt /\ RunOfJob(i) \in RunID
      BY Zenon, JobRunParts
    <3>3. i[2] + 1 \in 1 .. MaxAttempt
      BY <3>1, <3>2, StoreAssumption
    <3>4. new \in JobRunID
      BY Zenon, <3>2, <3>3 DEF JobRunID
    <3>5. RunOfJob(new) = RunOfJob(i)
      BY Zenon DEF RunOfJob
    <3> QED
      BY Zenon, <3>2, <3>4, <3>5
  <2>2. status' = [status EXCEPT ![new] = "queued"]
    BY Zenon, <1>7 DEF RerequestJob
  <2>3. runStatus' = IF runStatus[RunOfJob(i)] \in RunTerminal
                     THEN [runStatus EXCEPT ![RunOfJob(i)] = "queued"] ELSE runStatus
    BY Zenon, <1>7 DEF RerequestJob
  <2> HIDE DEF new
  <2>4. CASE r # RunOfJob(i)
    <3>1. \A j \in JobRunID : RunOfJob(j) = r => status'[j] = status[j]
      BY Zenon, <1>0, <2>1, <2>2, <2>4
    <3>2. runStatus'[r] = runStatus[r]
      BY Zenon, <1>0, <2>1, <2>3, <2>4
    <3> QED
      BY Zenon, <3>1, <3>2, ClosedElsewhere
  <2>5. CASE r = RunOfJob(i)
    <3>1. runStatus'[r] \notin RunTerminal
      BY Zenon, <1>0, <2>1, <2>3, <2>5 DEF RunTerminal
    <3>2. status'[new] = "queued" /\ new \in runJobs(r, status)'
      BY Zenon, <1>0, <2>1, <2>2, <2>5 DEF runJobs, RunOfJob
    <3> QED
      BY Zenon, <3>1, <3>2 DEF Closed, RunTerminal, JobTerminal
  <2> QED
    BY Zenon, <2>4, <2>5
<1> QED
  BY Zenon, <1>1, <1>2, <1>3, <1>4, <1>5, <1>6, <1>7, RecordSteps

-----------------------------------------------------------------------------
(***************************************************************************)
(* The inductive invariant holds for every instance of the protocol.       *)
(***************************************************************************)
THEOREM SafetyInvariant == Spec => []SafetyInv
<1>1. Init => SafetyInv
  <2> SUFFICES ASSUME Init PROVE SafetyInv
    BY Zenon
  <2>1. ExclusiveDispatch /\ ClaimsHeld
    BY Zenon DEF Init, ExclusiveDispatch, ClaimsHeld
  <2>2. RecordsTogether /\ ObjectsKept
    BY Zenon, JobRunParts DEF Init, StoreInit, RecordsTogether, ObjectsKept
  <2>3. RunClosedWithJobs /\ SuccessIsUnanimous
    BY Zenon DEF Init, StoreInit, RunClosedWithJobs, SuccessIsUnanimous
  <2> QED
    BY Zenon, <2>1, <2>2, <2>3 DEF SafetyInv
<1>2. TypeOK /\ TypeOK' /\ SafetyInv /\ [Next]_vars => SafetyInv'
  <2> SUFFICES ASSUME TypeOK, TypeOK', SafetyInv, [Next]_vars PROVE SafetyInv'
    BY Zenon
  <2>1. RecordsTogether /\ RecordsTogether'
    BY Zenon, RecordsTogetherStep DEF SafetyInv
  <2>2. ExclusiveDispatch' /\ ClaimsHeld'
    BY Zenon, <2>1, ExclusiveStep DEF SafetyInv
  <2>3. ObjectsKept'
    BY Zenon, <2>1, ObjectsKeptStep DEF SafetyInv
  <2>4. \A r \in RunID : Closed(r)
    BY Zenon, ClosedIsBoth DEF SafetyInv
  <2>5. \A r \in RunID : Closed(r)'
    BY Zenon, <2>1, <2>4, ClosedStep
  <2>6. (RunClosedWithJobs /\ SuccessIsUnanimous)'
    BY Zenon, <2>5 DEF RunClosedWithJobs, SuccessIsUnanimous, Closed
  <2> QED
    BY Zenon, <2>1, <2>2, <2>3, <2>6 DEF SafetyInv
<1> QED
  BY <1>1, <1>2, TypeCorrect, PTL DEF Spec

(***************************************************************************)
(* No job is handed to two dispatchers at once.                            *)
(***************************************************************************)
THEOREM DispatchIsExclusive == Spec => []ExclusiveDispatch
<1>1. SafetyInv => ExclusiveDispatch
  BY Zenon DEF SafetyInv
<1> QED
  BY <1>1, SafetyInvariant, PTL

(***************************************************************************)
(* A dispatched or running job has its active object.                      *)
(***************************************************************************)
THEOREM ActiveJobsHaveObjects == Spec => []ActiveHasObject
<1>1. SafetyInv => ActiveHasObject
  BY Zenon DEF SafetyInv, ObjectsKept, ActiveHasObject, JobTerminal
<1> QED
  BY <1>1, SafetyInvariant, PTL

(***************************************************************************)
(* A run is closed exactly while all attempts of all its jobs are.         *)
(***************************************************************************)
THEOREM RunsCloseWithTheirJobs == Spec => []RunClosedWithJobs
<1>1. SafetyInv => RunClosedWithJobs
  BY Zenon DEF SafetyInv
<1> QED
  BY <1>1, SafetyInvariant, PTL

(***************************************************************************)
(* A succeeded run has no failed and no cancelled attempt.                 *)
(***************************************************************************)
THEOREM RunSuccessIsUnanimous == Spec => []SuccessIsUnanimous
<1>1. SafetyInv => SuccessIsUnanimous
  BY Zenon DEF SafetyInv
<1> QED
  BY <1>1, SafetyInvariant, PTL

(***************************************************************************)
(* Terminal statuses never change.                                         *)
(***************************************************************************)
THEOREM TerminalIsSticky == Spec => TerminalSticky
<1>1. TypeOK /\ SafetyInv /\ [Next]_vars =>
        [\A j \in JobRunID : status[j] \in JobTerminal => status'[j] = status[j]]_vars
  BY Zenon, StatusStep DEF SafetyInv
<1> QED
  BY <1>1, TypeCorrect, SafetyInvariant, PTL DEF Spec, TerminalSticky

(***************************************************************************)
(* An active object is only deleted once the outcome of its job is durable.*)
(***************************************************************************)
THEOREM ObjectsOutlive == Spec => ObjectsOutliveJobs
<1>1. TypeOK /\ SafetyInv /\ [Next]_vars =>
        [\A j \in objects \ objects' : status[j] \in JobTerminal]_vars
  BY Zenon, ObjectSteps DEF SafetyInv, ObjectsKept, CreateOrGet
<1> QED
  BY <1>1, TypeCorrect, SafetyInvariant, PTL DEF Spec, ObjectsOutliveJobs

-----------------------------------------------------------------------------
(***************************************************************************)
(* The needs of job j are met: each needed job has an attempt that         *)
(* succeeded.                                                              *)
(***************************************************************************)
NeedsMet(j) ==
  \A i \in DOMAIN DependsOn[j[1]] :
    \E n \in 1 .. MaxAttempt :
      <<DependsOn[j[1]][i], n>> \in JobRunID /\ status[<<DependsOn[j[1]][i], n>>] = "succeeded"

(***************************************************************************)
(* The strengthening of NeedsRespected that is inductive: the keys of a    *)
(* known run resolve to an attempt, and the needs of a job without `if:`   *)
(* are met from its claim on, since success is durable.                    *)
(***************************************************************************)
NeedsInv ==
  /\ \A k \in JobKey : runStatus[RunOf[k]] # "absent" => byJobKey[k] # 0
  /\ \A d \in Dispatcher : pc[d] # "idle" /\ Condition[job[d][1]] = "" => NeedsMet(job[d])
  /\ \A j \in objects : Condition[j[1]] = "" => NeedsMet(j)

(***************************************************************************)
(* The status, in the records st, of the attempt that key k resolves to.   *)
(***************************************************************************)
Resolved(st, k) == st[<<k, byJobKey[k]>>]

(***************************************************************************)
(* dependencyStateLocked calls a job ready only when every needed key is a *)
(* key of its run and the attempt it resolves to has succeeded.            *)
(***************************************************************************)
LEMMA ReadyNeeds ==
  ASSUME NEW st, NEW j, dependencyState(st, j) \notin {"blocked", "failed"}
  PROVE  \A i \in DOMAIN DependsOn[j[1]] :
           /\ DependsOn[j[1]][i] \in JobKey /\ RunOf[DependsOn[j[1]][i]] = RunOfJob(j)
           /\ Resolved(st, DependsOn[j[1]][i]) = "succeeded"
<1> DEFINE deps       == DependsOn[j[1]]
           missing(h) == deps[h] \notin JobKey \/ RunOf[deps[h]] # RunOfJob(j)
           dep(h)     == st[<<deps[h], byJobKey[deps[h]]>>]
           stops(h)   == missing(h) \/ dep(h) \in {"failed", "cancelled", "skipped"}
<1>1. ~\E h \in DOMAIN deps : stops(h)
  BY Zenon DEF dependencyState
<1>2. \A h \in DOMAIN deps : dep(h) = "succeeded"
  BY Zenon, <1>1 DEF dependencyState
<1> QED
  BY Zenon, <1>1, <1>2 DEF Resolved

(***************************************************************************)
(* A key that resolves at all resolves to an attempt.                      *)
(***************************************************************************)
LEMMA ResolvedAttempt ==
  ASSUME NEW n \in 0 .. MaxAttempt, n # 0
  PROVE  n \in 1 .. MaxAttempt
  BY StoreAssumption

(***************************************************************************)
(* Needs that are met stay met: success is durable.                        *)
(***************************************************************************)
LEMMA NeedsStayMet ==
  ASSUME TypeOK, RecordsTogether, [Next]_vars, NEW j, NeedsMet(j)
  PROVE  NeedsMet(j)'
<1> SUFFICES ASSUME NEW i \in DOMAIN DependsOn[j[1]]
             PROVE  \E n \in 1 .. MaxAttempt : /\ <<DependsOn[j[1]][i], n>> \in JobRunID
                                               /\ status'[<<DependsOn[j[1]][i], n>>] = "succeeded"
  BY Zenon DEF NeedsMet
<1>1. PICK n \in 1 .. MaxAttempt : /\ <<DependsOn[j[1]][i], n>> \in JobRunID
                                   /\ status[<<DependsOn[j[1]][i], n>>] = "succeeded"
  BY Zenon DEF NeedsMet
<1>2. status'[<<DependsOn[j[1]][i], n>>] = "succeeded"
  BY Zenon, <1>1, StatusStep DEF JobTerminal
<1> QED
  BY Zenon, <1>1, <1>2

(***************************************************************************)
(* The claim scan hands out a job without `if:` only when its needs are    *)
(* met, also by the statuses that the scan's own skips leave.              *)
(***************************************************************************)
LEMMA ClaimMeetsNeeds ==
  ASSUME TypeOK, RecordsTogether, NeedsInv, NEW d \in Dispatcher, Claim(d), pc'[d] # "idle",
         NEW pick \in JobRunID, job'[d] = pick, Condition[pick[1]] = ""
  PROVE  NeedsMet(pick)'
<1>1. ClaimNextQueuedJob(pick)
  BY Zenon DEF Claim, TypeOK
<1>2. pick # NoJob
  BY Zenon, StoreAssumption
<1>3. PICK S \in SUBSET Candidates : ClaimScan(S, pick) /\ status' = Skip(S)
  BY Zenon, <1>1 DEF ClaimNextQueuedJob
<1>0. PICK st : st = Skip(S \cap {i \in Candidates : born[i] < born[pick]})
  BY Zenon
<1>4. dependencyState(st, pick) \notin {"blocked", "failed"}
  BY Zenon, <1>0, <1>2, <1>3 DEF ClaimScan
<1>5. status[pick] = "queued"
  BY Zenon, <1>1, <1>2 DEF ClaimNextQueuedJob, Candidates
<1>6. runStatus[RunOfJob(pick)] # "absent"
  BY Zenon, <1>5 DEF RecordsTogether
<1> SUFFICES ASSUME NEW i \in DOMAIN DependsOn[pick[1]]
             PROVE  \E n \in 1 .. MaxAttempt : /\ <<DependsOn[pick[1]][i], n>> \in JobRunID
                                               /\ status'[<<DependsOn[pick[1]][i], n>>] = "succeeded"
  BY Zenon DEF NeedsMet
<1> DEFINE k == DependsOn[pick[1]][i]
           need == <<k, byJobKey[k]>>
<1>7. k \in JobKey /\ RunOf[k] = RunOfJob(pick) /\ Resolved(st, k) = "succeeded"
  <2>1. \A h \in DOMAIN DependsOn[pick[1]] : Resolved(st, DependsOn[pick[1]][h]) = "succeeded"
    BY Zenon, <1>4, ReadyNeeds
  <2>2. k \in JobKey /\ RunOf[k] = RunOfJob(pick)
    BY Zenon, <1>4, ReadyNeeds
  <2> QED
    BY Zenon, <2>1, <2>2
<1>8. byJobKey[k] \in 1 .. MaxAttempt
  <2>1. byJobKey[k] # 0
    BY Zenon, <1>6, <1>7 DEF NeedsInv
  <2>2. byJobKey[k] \in 0 .. MaxAttempt
    BY Zenon, <1>7 DEF TypeOK
  <2> QED
    BY Zenon, <2>1, <2>2, ResolvedAttempt
<1>9. need \in JobRunID
  BY Zenon, <1>7, <1>8 DEF JobRunID
<1>10. status[need] = "succeeded"
  BY Zenon, <1>0, <1>7, <1>9 DEF Resolved, Skip
<1>11. status'[need] = "succeeded"
  BY Zenon, <1>3, <1>9, <1>10 DEF Skip, Candidates
<1> QED
  BY Zenon, <1>8, <1>9, <1>11

(***************************************************************************)
(* Every step keeps needs respected.                                       *)
(***************************************************************************)
LEMMA NeedsStep ==
  ASSUME TypeOK, TypeOK', RecordsTogether, NeedsInv, [Next]_vars
  PROVE  NeedsInv'
<1>1. ASSUME NEW k \in JobKey, runStatus'[RunOf[k]] # "absent" PROVE byJobKey'[k] # 0
  <2>0. /\ RunOf[k] \in RunID /\ byJobKey \in [JobKey -> 0 .. MaxAttempt]
        /\ runStatus \in [RunID -> WorkflowRunStatus \cup {"absent"}]
    BY StoreAssumption DEF TypeOK
  <2>1. ASSUME NEW r \in RunID, CreateRun(r) PROVE byJobKey'[k] # 0
    <3>1. byJobKey'[k] = IF RunOf[k] = r THEN 1 ELSE byJobKey[k]
      BY Zenon, <2>1 DEF CreateRun
    <3>2. RunOf[k] # r => runStatus'[RunOf[k]] = runStatus[RunOf[k]]
      BY Zenon, <2>0, <2>1 DEF CreateRun
    <3>3. runStatus[RunOf[k]] # "absent" => byJobKey[k] # 0
      BY Zenon DEF NeedsInv
    <3> QED
      BY <1>1, <3>1, <3>2, <3>3
  <2>2. ASSUME NEW j \in JobRunID, RerequestJob(j) PROVE byJobKey'[k] # 0
    <3>1. j[2] + 1 # 0
      BY JobRunParts, StoreAssumption
    <3>2. byJobKey' = [byJobKey EXCEPT ![j[1]] = j[2] + 1]
      BY Zenon, <2>2 DEF RerequestJob
    <3>3. runStatus[RunOf[k]] # "absent"
      BY Zenon, <1>1, <2>0, <2>2 DEF RerequestJob, RunTerminal
    <3>4. byJobKey[k] # 0
      BY Zenon, <3>3 DEF NeedsInv
    <3> QED
      BY Zenon, <2>0, <3>1, <3>2, <3>4
  <2>3. CASE UNCHANGED byJobKey /\ ~\E r \in RunID : CreateRun(r)
    <3>1. runStatus[RunOf[k]] # "absent"
      <4>1. status' \in [JobRunID -> JobRunStatus \cup {"absent"}]
        BY Zenon DEF TypeOK
      <4>2. CASE \E R : runStatus' = refreshRuns(R, status')
        BY <1>1, <2>0, <4>1, <4>2, RefreshKeepsRecords
      <4>3. CASE UNCHANGED runStatus
        BY Zenon, <1>1, <4>3
      <4>4. ASSUME NEW r \in RunID, CancelRun(r) PROVE runStatus[RunOf[k]] # "absent"
        BY Zenon, <1>1, <2>0, <4>4 DEF CancelRun
      <4>5. ASSUME NEW j \in JobRunID, RerequestJob(j) PROVE runStatus[RunOf[k]] # "absent"
        BY Zenon, <1>1, <2>0, <4>5 DEF RerequestJob, RunTerminal
      <4> QED
        BY Zenon, <2>3, <4>2, <4>3, <4>4, <4>5, RecordSteps
           DEF RecordsKept, SkipStep, AckStep, ProjectStep, RefreshStep, ConditionStep
    <3> QED
      BY Zenon, <2>3, <3>1 DEF NeedsInv
  <2>4. \/ UNCHANGED byJobKey
        \/ \E r \in RunID : CreateRun(r)
        \/ \E j \in JobRunID : RerequestJob(j)
    BY Zenon DEF Next, vars, storeVars, Dispatch, Claim, ClaimNextQueuedJob, Check, Create,
       CreateError,
           Ack, AckDispatched, AckRefused, Release, ReleaseClaim, PodStep, Project,
           ProjectCondition, ApplyObserved, Collect, CollectList, CollectDelete, CollectError,
           CollectMark, MarkCollected, Submit, Cancel, CancelRun, Rerequest
  <2> QED
    BY Zenon, <2>1, <2>2, <2>3, <2>4
<1>2. ASSUME NEW d \in Dispatcher, NEW j, pc'[d] # "idle", job'[d] = j, Condition[j[1]] = ""
      PROVE  NeedsMet(j)'
  <2>1. CASE Claim(d)
    <3>1. j \in JobRunID
      BY Zenon, <1>2 DEF TypeOK
    <3> QED
      BY Zenon, <1>2, <2>1, <3>1, ClaimMeetsNeeds
  <2>2. CASE ~Claim(d)
    <3>1. pc[d] # "idle" /\ job'[d] = job[d]
      BY Zenon, <1>2, <2>2, DispatcherSteps DEF Check, Create
    <3>2. NeedsMet(j)
      BY Zenon, <1>2, <3>1 DEF NeedsInv
    <3> QED
      BY Zenon, <3>2, NeedsStayMet
  <2> QED
    BY Zenon, <2>1, <2>2
<1>3. ASSUME NEW j \in objects', Condition[j[1]] = "" PROVE NeedsMet(j)'
  <2>1. j \in objects \/ \E d \in Dispatcher : pc[d] = "create" /\ job[d] = j
    BY Zenon, <1>3, ObjectSteps DEF CreateOrGet
  <2>2. NeedsMet(j)
    BY Zenon, <1>3, <2>1 DEF NeedsInv
  <2> QED
    BY Zenon, <2>2, NeedsStayMet
<1>4. ASSUME NEW d \in Dispatcher, pc'[d] # "idle", Condition[job'[d][1]] = ""
      PROVE  NeedsMet(job[d])'
  <2>1. PICK j : j = job'[d]
    BY Zenon
  <2>2. NeedsMet(j)'
    BY Zenon, <1>2, <1>4, <2>1
  <2> QED
    BY Zenon, <2>1, <2>2 DEF NeedsMet
<1> QED
  BY Zenon, <1>1, <1>3, <1>4 DEF NeedsInv

(***************************************************************************)
(* A job without `if:` gets an active object only after each job it needs  *)
(* has succeeded in some attempt: for any dependencies, also ones that     *)
(* name a key the run does not have, and whatever is re-requested.         *)
(***************************************************************************)
THEOREM NeedsAreRespected == Spec => []NeedsRespected
<1>1. Init => NeedsInv
  BY StoreAssumption DEF Init, StoreInit, NeedsInv
<1>2. TypeOK /\ TypeOK' /\ SafetyInv /\ NeedsInv /\ [Next]_vars => NeedsInv'
  BY Zenon, NeedsStep DEF SafetyInv
<1>3. NeedsInv => NeedsRespected
  BY Zenon DEF NeedsInv, NeedsMet, NeedsRespected
<1> QED
  BY <1>1, <1>2, <1>3, TypeCorrect, SafetyInvariant, PTL DEF Spec

=============================================================================
