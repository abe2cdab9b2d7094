--------------------------- MODULE Runtime_proof ---------------------------
(***************************************************************************)
(* Proofs about a JobRun on its way through the cluster, for any number of *)
(* pods, restarts, lost calls and other faults.                            *)
(***************************************************************************)
EXTENDS Runtime, SequenceTheorems, TLAPS

(***************************************************************************)
(* The types the proofs rest on; no bound on pods or faults among them.    *)
(***************************************************************************)
CRRecord == [live : BOOLEAN, phase : Phase, uid : Nat,
             ready : {"", "creating", "class missing", "observed"}]

PodCopy == [uid : Nat, phase : PodPhase]

ControllerTypes ==
  /\ cr \in CRRecord /\ crSeen \in CRRecord /\ jr \in CRRecord
  /\ pod \in [uid : Nat, phase : PodPhase, dying : BOOLEAN]
  /\ podSeen \in PodCopy /\ podRead \in PodCopy
  /\ pods \in Nat

Shows == {"queued", "in_progress", "success", "failure", "cancelled", "skipped"}

ReportTypes ==
  /\ status \in JobRunStatus
  /\ hat \in [Handlers -> {"idle", "project", "report", "list", "write"}]
  /\ hphase \in [Handlers -> ObservedPhase]
  /\ hview \in [Handlers -> JobRunStatus]
  /\ hfound \in [Handlers -> {0, 1}]
  /\ checks \in Seq(Shows)

ProcessTypes == zero \in BOOLEAN /\ earned \in BOOLEAN

(***************************************************************************)
(* Why a success is earned: until some process has decided for success,    *)
(* nothing on either reporting channel says so, from the exit code over    *)
(* the pod's phase and its copies to the requests under way.               *)
(***************************************************************************)
NothingSucceeds ==
  /\ status # "succeeded" /\ verdict # "success" /\ zero = FALSE
  /\ pod.phase # "Succeeded" /\ podSeen.phase # "Succeeded" /\ podRead.phase # "Succeeded"
  /\ \A h \in Handlers : hphase[h] # "succeeded"

EarnedInv == earned = FALSE => NothingSucceeds

(***************************************************************************)
(* Why a conclusion is honest: a terminal status that a handler has read   *)
(* back is still the record's when the handler writes the check.           *)
(***************************************************************************)
ViewsHonest == \A h \in Handlers : hview[h] \in JobTerminal => hview[h] = status

(***************************************************************************)
(* Why the resource does not regress: a pass that is about to update it    *)
(* has compared the two phases it read, and the API server accepts the     *)
(* update only if the resource is still the one read.                      *)
(***************************************************************************)
ResourceInv ==
  /\ dispatched = FALSE => cr = NoCR
  /\ at = "update" => phaseRank(mapPodPhase(podRead.phase)) >= phaseRank(jr.phase)

-----------------------------------------------------------------------------
(***************************************************************************)
(* What a step does to the resource, its copies, the pod and its copies.   *)
(***************************************************************************)
LEMMA ControllerTypesStep ==
  ASSUME ControllerTypes, [Next]_vars
  PROVE  ControllerTypes'
<1> USE DEF ControllerTypes
<1>k. /\ NoCR \in CRRecord /\ NoPodSeen \in PodCopy
      /\ NoPod \in [uid : Nat, phase : PodPhase, dying : BOOLEAN]
  BY Zenon DEF NoCR, CRRecord, NoPodSeen, NoPod, PodCopy, PodPhase, Phase
<1>n. NewPod => pod' \in [uid : Nat, phase : PodPhase, dying : BOOLEAN] /\ pods' \in Nat
  <2>1. pods + 1 \in Nat /\ "Pending" \in PodPhase
    BY DEF PodPhase
  <2> QED  BY Zenon, <2>1 DEF NewPod, NoPod
<1>p. \A p \in PodPhase : mapPodPhase(p) \in Phase
  BY Zenon DEF mapPodPhase, PodPhase, Phase
<1>1. CASE UNCHANGED vars
  BY Zenon, <1>1 DEF vars, controllerVars, apiVars, passVars
<1>2. CASE Dispatch
  BY Zenon, <1>2, <1>k DEF Dispatch, passVars, CRRecord
<1>3. CASE CancelRun
  BY Zenon, <1>3 DEF CancelRun, controllerVars, apiVars, passVars
<1>4. CASE Collect
  BY Zenon, <1>4 DEF Collect, passVars, CRRecord
<1>5. CASE Cluster
  BY Zenon, <1>5, <1>k DEF Cluster, ClassAdded, EvictPod, CollectPod, RemovePod, StartContainer, PostPhase,
       LoseNode, KeepAllButPod, controllerVars, apiVars, passVars, PodPhase
<1>6. CASE CRWatched \/ PodWatched
  BY <1>6 DEF CRWatched, PodWatched, WatchCR, WatchPod, Shown, PodCopy
<1>7. CASE Pass
  <2>1. CASE Reconcile
    <3>1. CASE Gone \/ PodMissing
      BY Zenon, <3>1, <1>k DEF Gone, PodMissing, Done, apiVars
    <3>2. CASE ClassMissing
      BY Zenon, <3>2, <1>k DEF ClassMissing, Done, CRRecord
    <3>3. CASE observePod
      BY Zenon, <3>3, <1>k DEF observePod, Done, apiVars
    <3> QED
      BY Zenon, <2>1, <3>1, <3>2, <3>3 DEF Reconcile
  <2>2. CASE updateConditions \/ Conflict
    <3>1. CASE updateConditions
      <4>1. [cr EXCEPT !.ready = "creating"] \in CRRecord
        BY Zenon DEF CRRecord
      <4> QED
        BY Zenon, <1>k, <3>1, <4>1 DEF updateConditions
    <3>2. CASE Conflict
      BY Zenon, <3>2, <1>k DEF Conflict, Done, apiVars
    <3> QED
      BY Zenon, <2>2, <3>1, <3>2
  <2>3. CASE UpdateStatus
    BY Zenon, <2>3, <1>k, <1>p DEF UpdateStatus, Observed, CRRecord, PodCopy
  <2>4. CASE CreatePod
    BY Zenon, <2>4, <1>k, <1>n DEF CreatePod, Done
  <2> QED  BY Zenon, <1>7, <2>1, <2>2, <2>3, <2>4 DEF Pass
<1>8. CASE ControllerFault
  <2>1. CASE LostResponse
    <3>1. CASE cr' = Observed /\ UNCHANGED <<pod, pods>>
      BY Zenon, <2>1, <3>1, <1>k, <1>p DEF LostResponse, Observed, Done, CRRecord, PodCopy
    <3>2. CASE NewPod /\ UNCHANGED cr
      BY Zenon, <2>1, <3>2, <1>k, <1>n DEF LostResponse, Done
    <3> QED  BY Zenon, <2>1, <3>1, <3>2 DEF LostResponse
  <2>2. CASE Restart
    BY Zenon, <2>2, <1>k DEF Restart, Shown, PodCopy
  <2> QED  BY Zenon, <1>8, <2>1, <2>2 DEF ControllerFault
<1>9. CASE ApplyObserved \/ ApplyObservedLost
  BY Zenon, <1>9, <1>k DEF ApplyObserved, ApplyObservedLost, Done, apiVars
<1>10. CASE ProcessEnds \/ ProcessStopped \/ ReportJob \/ ReportAbandoned
  BY Zenon, <1>10 DEF ProcessEnds, ProcessStopped, ReportJob, ReportAbandoned, KeepAllButProcess,
       controllerVars, apiVars, passVars
<1>11. CASE \E h \in Handlers : HandlerStep(h) \/ HandlerAnswer(h) \/ HandlerFault(h)
  BY Zenon, <1>11, <1>k DEF HandlerStep, HandlerAnswer, HandlerFault, Answer, Done, KeepAllButHandlers,
       apiVars, passVars
<1> QED
  BY Zenon, <1>1, <1>2, <1>3, <1>4, <1>5, <1>6, <1>7, <1>8, <1>9, <1>10, <1>11 DEF Next

(***************************************************************************)
(* What a step does to the durable record, the check runs and the two      *)
(* handlers: a handler's step, a request that arrives, a dispatch or a     *)
(* cancellation.                                                           *)
(***************************************************************************)
LEMMA ReportSteps ==
  ASSUME [Next]_vars
  PROVE  \/ UNCHANGED reportVars
         \/ UNCHANGED <<checks, handlerVars>> /\ Dispatch
         \/ UNCHANGED <<checks, handlerVars>> /\ CancelRun
         \/ Receive("observed", toModelPhase(mapPodPhase(podRead.phase)))
         \/ Receive("status", IF verdict = "success" THEN "succeeded" ELSE "failed")
         \/ \E h \in Handlers :
              \/ projectObserved(h) \/ projectFails(h) \/ reportCheck(h) \/ findByExternalID(h)
              \/ Report(h) \/ reportFails(h)
<1>1. CASE UNCHANGED vars
  BY Zenon, <1>1 DEF vars
<1>2. CASE Dispatch \/ CancelRun
  BY Zenon, <1>2 DEF Dispatch, CancelRun
<1>3. CASE Collect
  BY Zenon, <1>3 DEF Collect
<1>4. CASE Cluster
  BY Zenon, <1>4 DEF Cluster, ClassAdded, EvictPod, CollectPod, RemovePod, StartContainer, PostPhase,
       LoseNode, KeepAllButPod
<1>5. CASE CRWatched \/ PodWatched \/ Pass \/ ControllerFault \/ ApplyObservedLost
  BY Zenon, <1>5 DEF CRWatched, PodWatched, Pass, ControllerFault, ApplyObservedLost, KeepAllButController
<1>6. CASE ApplyObserved
  BY Zenon, <1>6 DEF ApplyObserved
<1>7. CASE ProcessEnds \/ ProcessStopped \/ ReportAbandoned
  BY Zenon, <1>7 DEF ProcessEnds, ProcessStopped, ReportAbandoned
<1>8. CASE ReportJob
  BY Zenon, <1>8 DEF ReportJob
<1>9. CASE \E h \in Handlers : HandlerStep(h) \/ HandlerAnswer(h) \/ HandlerFault(h)
  BY Zenon, <1>9 DEF HandlerStep, HandlerAnswer, HandlerFault
<1> QED
  BY Zenon, <1>1, <1>2, <1>3, <1>4, <1>5, <1>6, <1>7, <1>8, <1>9 DEF Next

(***************************************************************************)
(* The statuses a check run can show, and which of them are conclusions.   *)
(***************************************************************************)
LEMMA MapJobRunShows ==
  ASSUME NEW s \in JobRunStatus
  PROVE  /\ MapJobRun(s) \in Shows
         /\ MapJobRun(s) \notin {"queued", "in_progress"} <=> s \in JobTerminal
  BY Zenon DEF JobRunStatus, JobTerminal, MapJobRun, Shows

(***************************************************************************)
(* The effect of the handlers' last call on the check runs.                *)
(***************************************************************************)
LEMMA ChecksWritten ==
  ASSUME ReportTypes, NEW h \in Handlers, Report(h)
  PROVE  /\ checks' \in Seq(Shows)
         /\ \A i \in 1 .. Len(checks') :
              \/ checks'[i] = MapJobRun(hview[h])
              \/ i \in 1 .. Len(checks) /\ checks'[i] = checks[i]
<1> DEFINE show == MapJobRun(hview[h])
<1>1. show \in Shows /\ checks \in Seq(Shows)
  BY Zenon, MapJobRunShows DEF ReportTypes
<1> HIDE DEF show
<1>2. CASE hfound[h] # 0
  <2>1. checks' = [checks EXCEPT ![hfound[h]] = show]
    BY Zenon, <1>2 DEF Report, show
  <2>2. CASE hfound[h] \in 1 .. Len(checks)
    BY <1>1, <2>1, <2>2, ExceptSeq DEF show
  <2>3. CASE hfound[h] \notin 1 .. Len(checks)
    <3>1. checks = [i \in 1 .. Len(checks) |-> checks[i]]
      BY <1>1
    <3>2. checks' = checks
      BY Zenon, <2>1, <2>3, <3>1
    <3> QED  BY Zenon, <1>1, <3>2
  <2> QED  BY Zenon, <2>2, <2>3
<1>3. CASE hfound[h] = 0
  <2>1. checks' = Append(checks, show)
    BY Zenon, <1>3 DEF Report, show
  <2> QED  BY <1>1, <2>1 DEF show
<1> QED  BY Zenon, <1>2, <1>3

(***************************************************************************)
(* The record, the handlers and the check runs keep their types.           *)
(***************************************************************************)
LEMMA ReportTypesStep ==
  ASSUME ControllerTypes, ReportTypes, [Next]_vars
  PROVE  ReportTypes'
<1>1. CASE UNCHANGED reportVars
  BY Zenon, <1>1 DEF ReportTypes, reportVars, handlerVars
<1>2. CASE UNCHANGED <<checks, handlerVars>> /\ (Dispatch \/ CancelRun)
  BY Zenon, <1>2 DEF ReportTypes, handlerVars, Dispatch, CancelRun, JobRunStatus
<1>3. ASSUME NEW h \in Handlers, NEW p \in ObservedPhase, Receive(h, p)
      PROVE  ReportTypes'
  BY Zenon, <1>3 DEF ReportTypes, Receive
<1>4. toModelPhase(mapPodPhase(podRead.phase)) \in ObservedPhase
  BY Zenon DEF toModelPhase, ObservedPhase
<1>5. ASSUME NEW h \in Handlers,
             \/ projectObserved(h) \/ projectFails(h) \/ reportCheck(h) \/ findByExternalID(h)
             \/ reportFails(h)
      PROVE  ReportTypes'
  <2> USE DEF ReportTypes
  <2>1. CASE projectObserved(h)
    <3>1. status' \in JobRunStatus
      BY Zenon, <2>1 DEF projectObserved, PhaseChanges, JobStatusFromPhase, JobRunStatus, ObservedPhase
    <3> QED  BY Zenon, <2>1, <3>1 DEF projectObserved, ObservedPhase
  <2>2. CASE reportCheck(h) \/ findByExternalID(h)
    BY Zenon, <2>2 DEF reportCheck, findByExternalID
  <2>3. CASE projectFails(h) \/ reportFails(h)
    BY Zenon, <2>3 DEF projectFails, reportFails, HandlerEnds, ObservedPhase, JobRunStatus
  <2> QED  BY Zenon, <1>5, <2>1, <2>2, <2>3
<1>6. ASSUME NEW h \in Handlers, Report(h)
      PROVE  ReportTypes'
  BY Zenon, <1>6, ChecksWritten DEF ReportTypes, Report, HandlerEnds, ObservedPhase, JobRunStatus
<1>7. "observed" \in Handlers /\ "status" \in Handlers
      /\ (IF verdict = "success" THEN "succeeded" ELSE "failed") \in ObservedPhase
  BY Zenon DEF Handlers, ObservedPhase
<1> QED  BY Zenon, <1>1, <1>2, <1>3, <1>4, <1>5, <1>6, <1>7, ReportSteps

-----------------------------------------------------------------------------
(***************************************************************************)
(* No step but a decision for success brings one into the process, the pod *)
(* or a copy of the pod.                                                   *)
(***************************************************************************)
Carriers ==
  /\ verdict # "success" /\ zero = FALSE
  /\ pod.phase # "Succeeded" /\ podSeen.phase # "Succeeded" /\ podRead.phase # "Succeeded"

LEMMA CarriersStep ==
  ASSUME ControllerTypes, ProcessTypes, earned = FALSE => Carriers, [Next]_vars
  PROVE  ProcessTypes' /\ (earned' = FALSE => earned = FALSE /\ Carriers')
<1> USE DEF ProcessTypes, Carriers
<1>1. CASE UNCHANGED vars
  BY Zenon, <1>1 DEF vars, controllerVars, apiVars, passVars, procVars, extraVars
<1>2. CASE Dispatch \/ CancelRun \/ Collect
  BY Zenon, <1>2 DEF Dispatch, CancelRun, Collect, controllerVars, apiVars, passVars, procVars, extraVars
<1>3. CASE Cluster
  <2>1. UNCHANGED <<verdict, earned, podSeen, podRead>> /\ zero' \in {zero, FALSE}
    BY Zenon, <1>3 DEF Cluster, ClassAdded, EvictPod, CollectPod, RemovePod, StartContainer, PostPhase,
         LoseNode, KeepAllButPod, ProcStart, controllerVars, apiVars, passVars, procVars, extraVars
  <2>2. pod'.phase # "Succeeded" \/ pod'.phase = pod.phase \/ zero = TRUE
    BY <1>3 DEF Cluster, ClassAdded, EvictPod, CollectPod, RemovePod, StartContainer, PostPhase,
         LoseNode, NoPod, ControllerTypes, controllerVars, apiVars
  <2> QED  BY Zenon, <2>1, <2>2
<1>4. CASE CRWatched \/ PodWatched
  BY <1>4 DEF CRWatched, PodWatched, WatchCR, WatchPod, Shown, KeepAllButController, procVars
<1>5. CASE Pass
  <2>1. UNCHANGED <<verdict, zero, earned, podSeen>>
    BY Zenon, <1>5 DEF Pass, Reconcile, Gone, ClassMissing, PodMissing, observePod, updateConditions,
         Conflict, UpdateStatus, CreatePod, KeepAllButController, procVars, apiVars
  <2>2. pod' = pod \/ pod'.phase = "Pending"
    BY Zenon, <1>5 DEF Pass, Reconcile, Gone, ClassMissing, PodMissing, observePod, updateConditions,
         Conflict, UpdateStatus, CreatePod, NewPod, NoPod, apiVars
  <2>3. podRead' \in {podRead, podSeen, NoPodSeen}
    BY Zenon, <1>5 DEF Pass, Reconcile, Gone, ClassMissing, PodMissing, observePod, updateConditions,
         Conflict, UpdateStatus, CreatePod, Done
  <2> QED  BY <2>1, <2>2, <2>3 DEF NoPodSeen
<1>6. CASE ControllerFault
  <2>1. UNCHANGED <<verdict, zero, earned>> /\ podRead' = NoPodSeen
    BY Zenon, <1>6 DEF ControllerFault, LostResponse, Restart, Done, KeepAllButController, procVars
  <2>2. pod' = pod \/ pod'.phase = "Pending"
    BY Zenon, <1>6 DEF ControllerFault, LostResponse, Restart, NewPod, NoPod
  <2>3. podSeen' \in {podSeen, Shown}
    BY Zenon, <1>6 DEF ControllerFault, LostResponse, Restart
  <2> QED  BY <2>1, <2>2, <2>3 DEF NoPodSeen, Shown
<1>7. CASE ApplyObserved \/ ApplyObservedLost
  BY <1>7 DEF ApplyObserved, ApplyObservedLost, Done, NoPodSeen, KeepAllButController, apiVars,
       procVars, extraVars
<1>8. CASE ProcessEnds \/ ProcessStopped \/ ReportJob \/ ReportAbandoned
  BY Zenon, <1>8 DEF ProcessEnds, GiveUp, ProcExit, Decide, ProcessStopped, ContextDone, Kill, ReportJob,
       ReportAbandoned, ReportReturns, KeepAllButProcess, controllerVars, apiVars, passVars, procVars
<1>9. ASSUME NEW h \in Handlers, HandlerStep(h) \/ HandlerAnswer(h) \/ HandlerFault(h)
      PROVE  ProcessTypes' /\ (earned' = FALSE => earned = FALSE /\ Carriers')
  <2>1. UNCHANGED <<earned, pod, podSeen>>
    BY Zenon, <1>9 DEF HandlerStep, HandlerAnswer, HandlerFault, KeepAllButHandlers, apiVars
  <2>2. UNCHANGED <<verdict, zero>>
    BY Zenon, <1>9 DEF HandlerStep, HandlerAnswer, HandlerFault, Answer, ReportReturns, procVars
  <2>3. podRead' = podRead \/ podRead' = NoPodSeen
    BY Zenon, <1>9 DEF HandlerStep, HandlerAnswer, HandlerFault, Answer, Done, passVars
  <2>4. NoPodSeen.phase # "Succeeded"
    BY Zenon DEF NoPodSeen
  <2> QED
    BY Zenon, <2>1, <2>2, <2>3, <2>4
<1> QED
  BY Zenon, <1>1, <1>2, <1>3, <1>4, <1>5, <1>6, <1>7, <1>8, <1>9 DEF Next

(***************************************************************************)
(* A request carries a success only if the verdict or the pod it reports   *)
(* on does, and the record takes one over only from a request.             *)
(***************************************************************************)
LEMMA EarnedStep ==
  ASSUME ControllerTypes, ReportTypes, ProcessTypes, EarnedInv, [Next]_vars
  PROVE  EarnedInv'
<1> SUFFICES ASSUME earned' = FALSE  PROVE NothingSucceeds'
  BY Zenon DEF EarnedInv
<1>1. earned = FALSE /\ Carriers'
  BY Zenon, CarriersStep DEF EarnedInv, NothingSucceeds, Carriers
<1>2. NothingSucceeds
  BY Zenon, <1>1 DEF EarnedInv
<1>3. status' # "succeeded" /\ \A h \in Handlers : hphase'[h] # "succeeded"
  <2> USE <1>2 DEF NothingSucceeds, ReportTypes
  <2>1. CASE UNCHANGED reportVars
    BY Zenon, <2>1 DEF reportVars, handlerVars
  <2>2. CASE UNCHANGED <<checks, handlerVars>> /\ (Dispatch \/ CancelRun)
    BY Zenon, <2>2 DEF handlerVars, Dispatch, CancelRun
  <2>3. CASE Receive("observed", toModelPhase(mapPodPhase(podRead.phase)))
    <3>1. toModelPhase(mapPodPhase(podRead.phase)) # "succeeded"
      BY Zenon DEF toModelPhase, mapPodPhase
    <3> QED  BY Zenon, <2>3, <3>1 DEF Receive
  <2>4. CASE Receive("status", IF verdict = "success" THEN "succeeded" ELSE "failed")
    BY Zenon, <2>4 DEF Receive
  <2>5. ASSUME NEW h \in Handlers,
               \/ projectObserved(h) \/ projectFails(h) \/ reportCheck(h) \/ findByExternalID(h)
               \/ Report(h) \/ reportFails(h)
        PROVE  status' # "succeeded" /\ \A g \in Handlers : hphase'[g] # "succeeded"
    BY Zenon, <2>5 DEF projectObserved, JobStatusFromPhase, projectFails, reportCheck, findByExternalID,
         Report, reportFails, HandlerEnds
  <2> QED  BY Zenon, <2>1, <2>2, <2>3, <2>4, <2>5, ReportSteps
<1> QED  BY Zenon, <1>1, <1>3 DEF NothingSucceeds, Carriers

-----------------------------------------------------------------------------
(***************************************************************************)
(* A terminal status stays.                                                *)
(***************************************************************************)
LEMMA StatusSticks ==
  ASSUME ReportTypes, [Next]_vars, status \in JobTerminal
  PROVE  status' = status
<1>1. CASE UNCHANGED reportVars
  BY Zenon, <1>1 DEF reportVars
<1>2. CASE Dispatch \/ CancelRun
  BY Zenon, <1>2 DEF Dispatch, CancelRun, CanTransitionJob, JobTerminal
<1>3. ASSUME NEW h \in Handlers, NEW p, Receive(h, p)  PROVE status' = status
  BY Zenon, <1>3 DEF Receive
<1>4. ASSUME NEW h \in Handlers, projectObserved(h)  PROVE status' = status
  <2>1. hphase[h] \in ObservedPhase
    BY Zenon DEF ReportTypes
  <2> QED
    BY <1>4, <2>1 DEF projectObserved, JobStatusFromPhase, CanAdvanceJob, jobRank, JobTerminal,
                      ObservedPhase
<1>5. ASSUME NEW h \in Handlers,
             projectFails(h) \/ reportCheck(h) \/ findByExternalID(h) \/ Report(h) \/ reportFails(h)
      PROVE  status' = status
  BY Zenon, <1>5 DEF projectFails, reportCheck, findByExternalID, Report, reportFails
<1> QED
  BY Zenon, <1>1, <1>2, <1>3, <1>4, <1>5, ReportSteps DEF Handlers, Receive

(***************************************************************************)
(* A handler reads back what the record says, and what it read as an       *)
(* outcome stays one.                                                      *)
(***************************************************************************)
LEMMA ViewsHonestStep ==
  ASSUME ReportTypes, ViewsHonest, [Next]_vars
  PROVE  ViewsHonest'
<1> SUFFICES ASSUME NEW g \in Handlers, hview'[g] \in JobTerminal
             PROVE  hview'[g] = status'
  BY Zenon DEF ViewsHonest
<1>1. CASE hview'[g] = hview[g]
  BY Zenon, <1>1, StatusSticks DEF ViewsHonest
<1>2. CASE hview'[g] # hview[g]
  <2>1. PICK h \in Handlers : reportCheck(h)
    <3>1. ASSUME NEW h \in Handlers, projectFails(h) \/ Report(h) \/ reportFails(h)  PROVE FALSE
      BY Zenon, <1>2, <3>1 DEF ReportTypes, projectFails, Report, reportFails, HandlerEnds, JobTerminal
    <3> QED
      BY Zenon, <1>2, <3>1, ReportSteps DEF reportVars, handlerVars, Receive, projectObserved, findByExternalID
  <2> QED  BY Zenon, <1>2, <2>1 DEF reportCheck, ReportTypes
<1> QED  BY Zenon, <1>1, <1>2

(***************************************************************************)
(* A handler concludes a check run only with the outcome of the record.    *)
(***************************************************************************)
LEMMA CheckHonestStep ==
  ASSUME ReportTypes, ViewsHonest, CheckHonest, [Next]_vars
  PROVE  CheckHonest'
<1>0. /\ \A s \in JobRunStatus :
           MapJobRun(s) \notin {"queued", "in_progress"} => s \in JobTerminal
      /\ status \in JobRunStatus
  BY Zenon, MapJobRunShows DEF ReportTypes
<1>1. CASE UNCHANGED checks
  BY Zenon, <1>0, <1>1, StatusSticks DEF CheckHonest
<1>2. ASSUME NEW h \in Handlers, Report(h)
      PROVE  CheckHonest'
  <2>1. status' = status /\ hview[h] \in JobRunStatus
    BY Zenon, <1>2 DEF Report, ReportTypes
  <2>2. MapJobRun(hview[h]) \notin {"queued", "in_progress"} => hview[h] = status
    BY Zenon, <1>0, <2>1 DEF ViewsHonest
  <2> QED  BY Zenon, <1>2, <2>1, <2>2, ChecksWritten DEF CheckHonest
<1>3. UNCHANGED checks \/ \E h \in Handlers : Report(h)
  BY Zenon, ReportSteps DEF reportVars, Receive, projectObserved, projectFails, reportCheck,
     findByExternalID, reportFails
<1> QED  BY Zenon, <1>1, <1>2, <1>3

-----------------------------------------------------------------------------
(***************************************************************************)
(* What a step does to the resource: it is created, once; deleted; given   *)
(* a condition; or brought to the phase of the pod that the pass has read, *)
(* from the resource that the pass has read.                               *)
(***************************************************************************)
LEMMA ResourceSteps ==
  ASSUME ControllerTypes, [Next]_vars
  PROVE  \/ UNCHANGED cr
         \/ Dispatch
         \/ cr.live /\ cr'.live = FALSE
         \/ cr.live /\ cr'.phase = cr.phase
         \/ cr.live /\ at = "update" /\ jr = cr /\ cr'.phase = mapPodPhase(podRead.phase)
<1> USE DEF ControllerTypes, CRRecord
<1>1. CASE UNCHANGED vars
  BY Zenon, <1>1 DEF vars, controllerVars, apiVars
<1>2. CASE CancelRun
  BY Zenon, <1>2 DEF CancelRun, controllerVars, apiVars
<1>3. CASE Collect
  BY Zenon, <1>3 DEF Collect
<1>4. CASE Cluster
  BY Zenon, <1>4 DEF Cluster, ClassAdded, EvictPod, CollectPod, RemovePod, StartContainer, PostPhase,
       LoseNode, KeepAllButPod, controllerVars, apiVars
<1>5. CASE CRWatched \/ PodWatched \/ ApplyObserved \/ ApplyObservedLost
  BY Zenon, <1>5 DEF CRWatched, PodWatched, WatchCR, WatchPod, ApplyObserved, ApplyObservedLost, apiVars
<1>6. CASE Pass
  <2>1. CASE Reconcile
    BY Zenon, <2>1 DEF Reconcile, Gone, ClassMissing, PodMissing, observePod, Fresh, apiVars
  <2>2. CASE updateConditions
    BY Zenon, <2>2 DEF updateConditions, Fresh
  <2>3. CASE UpdateStatus
    BY Zenon, <2>3 DEF UpdateStatus, Observed, Fresh
  <2>4. CASE Conflict \/ CreatePod
    BY Zenon, <2>4 DEF Conflict, CreatePod, apiVars
  <2> QED  BY Zenon, <1>6, <2>1, <2>2, <2>3, <2>4 DEF Pass
<1>7. CASE ControllerFault
  BY Zenon, <1>7 DEF ControllerFault, LostResponse, Restart, Observed, Fresh
<1>8. CASE ProcessEnds \/ ProcessStopped \/ ReportJob \/ ReportAbandoned
  BY Zenon, <1>8 DEF ProcessEnds, ProcessStopped, ReportJob, ReportAbandoned, KeepAllButProcess,
       controllerVars, apiVars
<1>9. CASE \E h \in Handlers : HandlerStep(h) \/ HandlerAnswer(h) \/ HandlerFault(h)
  BY Zenon, <1>9 DEF HandlerStep, HandlerAnswer, HandlerFault, KeepAllButHandlers, apiVars
<1> QED
  BY Zenon, <1>1, <1>2, <1>3, <1>4, <1>5, <1>6, <1>7, <1>8, <1>9 DEF Next

(***************************************************************************)
(* A pass is about to update only after observePod has compared the phases *)
(* it read, and keeps what it read until then.                             *)
(***************************************************************************)
LEMMA PassSteps ==
  ASSUME [Next]_vars, at' = "update"
  PROVE  \/ UNCHANGED <<at, jr, podRead>>
         \/ /\ jr' = crSeen /\ podRead' = podSeen
            /\ ~(phaseRank(mapPodPhase(podSeen.phase)) < phaseRank(crSeen.phase))
<1>1. CASE UNCHANGED vars
  BY Zenon, <1>1 DEF vars, controllerVars, passVars
<1>2. CASE Dispatch \/ CancelRun \/ Collect
  BY Zenon, <1>2 DEF Dispatch, CancelRun, Collect, controllerVars, passVars
<1>3. CASE Cluster
  BY Zenon, <1>3 DEF Cluster, ClassAdded, EvictPod, CollectPod, RemovePod, StartContainer, PostPhase,
       LoseNode, KeepAllButPod, controllerVars, passVars
<1>4. CASE CRWatched \/ PodWatched \/ ApplyObserved \/ ApplyObservedLost
  BY Zenon, <1>4 DEF CRWatched, PodWatched, WatchCR, WatchPod, ApplyObserved, ApplyObservedLost, Done
<1>5. CASE Pass
  BY Zenon, <1>5 DEF Pass, Reconcile, Gone, ClassMissing, PodMissing, observePod, updateConditions,
       Conflict, UpdateStatus, CreatePod, Done
<1>6. CASE ControllerFault
  BY Zenon, <1>6 DEF ControllerFault, LostResponse, Restart, Done
<1>7. CASE ProcessEnds \/ ProcessStopped \/ ReportJob \/ ReportAbandoned
  BY Zenon, <1>7 DEF ProcessEnds, ProcessStopped, ReportJob, ReportAbandoned, KeepAllButProcess,
       controllerVars, passVars
<1>8. CASE \E h \in Handlers : HandlerStep(h) \/ HandlerAnswer(h) \/ HandlerFault(h)
  BY Zenon, <1>8 DEF HandlerStep, HandlerAnswer, HandlerFault, Answer, Done, passVars
<1> QED
  BY Zenon, <1>1, <1>2, <1>3, <1>4, <1>5, <1>6, <1>7, <1>8 DEF Next

(***************************************************************************)
(* The resource is created once.                                           *)
(***************************************************************************)
LEMMA DispatchedSteps ==
  ASSUME [Next]_vars
  PROVE  UNCHANGED dispatched \/ (Dispatch /\ dispatched' = TRUE)
<1>1. CASE UNCHANGED vars
  BY Zenon, <1>1 DEF vars, extraVars
<1>2. CASE Dispatch \/ CancelRun \/ Collect
  BY Zenon, <1>2 DEF Dispatch, CancelRun, Collect, extraVars
<1>3. CASE Cluster
  BY Zenon, <1>3 DEF Cluster, ClassAdded, EvictPod, CollectPod, RemovePod, StartContainer, PostPhase,
       LoseNode, extraVars
<1>4. CASE CRWatched \/ PodWatched \/ Pass \/ ControllerFault \/ ApplyObserved \/ ApplyObservedLost
  BY Zenon, <1>4 DEF CRWatched, PodWatched, Pass, ControllerFault, KeepAllButController, ApplyObserved,
       ApplyObservedLost, extraVars
<1>5. CASE ProcessEnds \/ ProcessStopped \/ ReportJob \/ ReportAbandoned
  BY Zenon, <1>5 DEF ProcessEnds, ProcessStopped, ReportJob, ReportAbandoned, KeepAllButProcess
<1>6. CASE \E h \in Handlers : HandlerStep(h) \/ HandlerAnswer(h) \/ HandlerFault(h)
  BY Zenon, <1>6 DEF HandlerStep, HandlerAnswer, HandlerFault, KeepAllButHandlers
<1> QED
  BY Zenon, <1>1, <1>2, <1>3, <1>4, <1>5, <1>6 DEF Next

(***************************************************************************)
(* Facts about the initial state and about ranks.                          *)
(***************************************************************************)
LEMMA NoChecks ==
  ASSUME checks = <<>>
  PROVE  CheckHonest
<1>1. \A i \in 1 .. Len(checks) : FALSE
  BY EmptySeq
<1> QED  BY Zenon, <1>1 DEF CheckHonest

LEMMA NoCRNotLive == ~NoCR.live
  BY Zenon DEF NoCR

LEMMA RanksAreNaturals ==
  \A p : phaseRank(p) \in Nat
  BY Zenon DEF phaseRank

(***************************************************************************)
(* The invariant of the resource is kept.                                  *)
(***************************************************************************)
LEMMA ResourceStep ==
  ASSUME ControllerTypes, dispatched \in BOOLEAN, ResourceInv, [Next]_vars
  PROVE  ResourceInv' /\ dispatched' \in BOOLEAN
<1>1. dispatched' = FALSE => cr' = NoCR
  <2> SUFFICES ASSUME dispatched' = FALSE  PROVE cr' = NoCR
    BY Zenon
  <2>1. dispatched = FALSE /\ ~Dispatch
    BY Zenon, DispatchedSteps DEF Dispatch
  <2>2. cr = NoCR
    BY Zenon, <2>1 DEF ResourceInv
  <2> QED  BY Zenon, <2>1, <2>2, ResourceSteps, NoCRNotLive
<1>2. at' = "update" => phaseRank(mapPodPhase(podRead'.phase)) >= phaseRank(jr'.phase)
  BY PassSteps, RanksAreNaturals DEF ResourceInv
<1>3. dispatched' \in BOOLEAN
  BY Zenon, DispatchedSteps
<1> QED  BY Zenon, <1>1, <1>2, <1>3 DEF ResourceInv

-----------------------------------------------------------------------------
(***************************************************************************)
(* The inductive invariant.                                                *)
(***************************************************************************)
RuntimeInv ==
  /\ ControllerTypes /\ ReportTypes /\ ProcessTypes /\ dispatched \in BOOLEAN
  /\ EarnedInv /\ ViewsHonest /\ CheckHonest /\ ResourceInv

(***************************************************************************)
(* The inductive invariant holds of every behaviour, with any number of    *)
(* pods and of faults.                                                     *)
(***************************************************************************)
THEOREM RuntimeInvariant == Spec => []RuntimeInv
<1>1. Init => RuntimeInv
  <2> SUFFICES ASSUME Init  PROVE RuntimeInv
    BY Zenon
  <2> USE DEF Init, ControllerInit, ReportInit, ProcInit, NoCR, NoPod, NoPodSeen
  <2>1. ControllerTypes
    BY Zenon DEF ControllerTypes, CRRecord, PodCopy, Phase, PodPhase
  <2>2. ReportTypes
    <3>1. checks \in Seq(Shows)
      BY Zenon, EmptySeq
    <3> QED  BY Zenon, <3>1 DEF ReportTypes, JobRunStatus, ObservedPhase
  <2>3. ProcessTypes /\ dispatched \in BOOLEAN /\ ResourceInv
    BY Zenon DEF ProcessTypes, ResourceInv
  <2>4. EarnedInv
    BY Zenon DEF EarnedInv, NothingSucceeds
  <2>5. ViewsHonest /\ CheckHonest
    <3>1. ViewsHonest
      BY Zenon DEF ViewsHonest, JobTerminal
    <3>2. checks = <<>>
      BY Zenon
    <3> QED  BY Zenon, <3>1, <3>2, NoChecks
  <2> QED  BY Zenon, <2>1, <2>2, <2>3, <2>4, <2>5 DEF RuntimeInv
<1>2. RuntimeInv /\ [Next]_vars => RuntimeInv'
  <2> SUFFICES ASSUME RuntimeInv, [Next]_vars  PROVE RuntimeInv'
    BY Zenon
  <2> USE DEF RuntimeInv
  <2>1. ControllerTypes' /\ ReportTypes'
    BY Zenon, ControllerTypesStep, ReportTypesStep
  <2>2. ProcessTypes'
    BY Zenon, CarriersStep DEF EarnedInv, NothingSucceeds, Carriers
  <2>3. EarnedInv'
    BY Zenon, EarnedStep
  <2>4. ViewsHonest' /\ CheckHonest'
    BY Zenon, ViewsHonestStep, CheckHonestStep
  <2>5. ResourceInv' /\ dispatched' \in BOOLEAN
    BY Zenon, ResourceStep
  <2> QED  BY Zenon, <2>1, <2>2, <2>3, <2>4, <2>5
<1> QED  BY <1>1, <1>2, PTL DEF Spec

(***************************************************************************)
(* A durable success was decided for by a process, whatever was killed,    *)
(* evicted, restarted or reported twice.                                   *)
(***************************************************************************)
THEOREM SuccessEarned == Spec => []SuccessIsEarned
<1>1. RuntimeInv => SuccessIsEarned
  BY Zenon DEF RuntimeInv, ProcessTypes, EarnedInv, NothingSucceeds, SuccessIsEarned
<1> QED  BY <1>1, RuntimeInvariant, PTL

(***************************************************************************)
(* A conclusion shown on GitHub is the outcome of the record, however the  *)
(* two handlers overtake each other.                                       *)
(***************************************************************************)
THEOREM ChecksAreHonest == Spec => []CheckHonest
<1>1. RuntimeInv => CheckHonest
  BY Zenon DEF RuntimeInv
<1> QED  BY <1>1, RuntimeInvariant, PTL

(***************************************************************************)
(* The phase of a live resource never loses rank, however far the          *)
(* informers lag and however often pods are replaced.                      *)
(***************************************************************************)
THEOREM ResourceNeverRegresses == Spec => CRNeverRegresses
<1>1. RuntimeInv /\ [Next]_vars
        => [cr.live /\ cr'.live => phaseRank(cr'.phase) >= phaseRank(cr.phase)]_vars
  <2> SUFFICES ASSUME RuntimeInv, [Next]_vars, cr.live, cr'.live
               PROVE  phaseRank(cr'.phase) >= phaseRank(cr.phase)
    BY Zenon
  <2> USE DEF RuntimeInv
  <2>1. CASE Dispatch
    <3>1. dispatched = FALSE
      BY Zenon, <2>1 DEF Dispatch
    <3> QED  BY Zenon, <3>1, NoCRNotLive DEF ResourceInv
  <2>2. CASE UNCHANGED cr \/ cr'.phase = cr.phase
    BY <2>2, RanksAreNaturals
  <2>3. CASE at = "update" /\ jr = cr /\ cr'.phase = mapPodPhase(podRead.phase)
    BY Zenon, <2>3 DEF ResourceInv
  <2> QED  BY Zenon, <2>1, <2>2, <2>3, ResourceSteps
<1> QED  BY <1>1, RuntimeInvariant, PTL DEF Spec, CRNeverRegresses

=============================================================================
