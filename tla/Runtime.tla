------------------------------ MODULE Runtime ------------------------------
(***************************************************************************)
(* One JobRun from its dispatch to its collection: the dispatcher and the  *)
(* collector of the control plane, the resource and its reconciler, the    *)
(* pod with its kubelet, the executor's process in it, and the two         *)
(* handlers that project what the executor and the controller report.      *)
(***************************************************************************)
EXTENDS JobRunController, CheckReport, Process

CONSTANT MaxFaults  \* bound: lost calls and answers, failing stores, restarts, evictions, lost nodes

VARIABLES
  dispatched, \* the dispatcher has created the resource
  collected,  \* the collector has marked the job
  sent,       \* the process waits for the answer to its report
  earned,     \* history: some process decided for success
  faults      \* faults so far

extraVars == <<dispatched, collected, sent, earned, faults>>
vars == <<controllerVars, reportVars, procVars, extraVars>>

Init ==
  /\ ControllerInit /\ ReportInit /\ ProcInit
  /\ dispatched = FALSE /\ collected = FALSE
  /\ sent = FALSE /\ earned = FALSE /\ faults = 0

Faulty == faults < MaxFaults /\ faults' = faults + 1

-----------------------------------------------------------------------------
(***************************************************************************)
(* The control plane around the job.  The dispatcher, having claimed the   *)
(* job, creates the resource and acknowledges (module Scheduler has the    *)
(* two calls apart); the collector deletes the resource of a terminal job; *)
(* a cancellation may come at any time.                                    *)
(***************************************************************************)
Dispatch ==
  /\ ~dispatched /\ dispatched' = TRUE
  /\ cr' = [NoCR EXCEPT !.live = TRUE]
  /\ status' = IF status = "queued" THEN "dispatched" ELSE status
  /\ UNCHANGED <<crSeen, pod, podSeen, pods, class, passVars, checks, handlerVars,
                 procVars, collected, sent, earned, faults>>

CancelRun ==
  /\ CanTransitionJob(status, "cancelled") /\ status' = "cancelled"
  /\ UNCHANGED <<controllerVars, checks, handlerVars, procVars, extraVars>>

Collect ==
  /\ status \in JobTerminal /\ ~collected /\ collected' = TRUE
  /\ cr' = IF cr.live THEN [cr EXCEPT !.live = FALSE] ELSE cr
  /\ UNCHANGED <<crSeen, pod, podSeen, pods, class, passVars, reportVars, procVars,
                 dispatched, sent, earned, faults>>

-----------------------------------------------------------------------------
(***************************************************************************)
(* The cluster: the RunnerClass is added, the pod is evicted or follows    *)
(* its deleted owner, the kubelet runs the process and posts its state.    *)
(***************************************************************************)
ClassAdded ==
  /\ ~class /\ class' = TRUE
  /\ UNCHANGED <<cr, crSeen, pod, podSeen, pods, passVars, reportVars, procVars, extraVars>>

KeepAllButPod ==
  UNCHANGED <<cr, crSeen, podSeen, pods, class, passVars, reportVars>>

EvictPod ==
  /\ pod.uid # 0 /\ ~pod.dying /\ pods < MaxPods /\ Faulty
  /\ pod' = [pod EXCEPT !.dying = TRUE]
  /\ KeepAllButPod /\ UNCHANGED <<procVars, dispatched, collected, sent, earned>>

CollectPod ==
  /\ pod.uid # 0 /\ ~pod.dying
  /\ ~(cr.live \/ crSeen.live \/ at \in {"progress", "create"})
  /\ pod' = [pod EXCEPT !.dying = TRUE]
  /\ KeepAllButPod /\ UNCHANGED <<procVars, extraVars>>

RemovePod ==
  /\ pod.dying /\ proc \in {"off", "exited"}
  /\ pod' = NoPod /\ proc' = "off" /\ zero' = FALSE
  /\ KeepAllButPod /\ UNCHANGED <<stopped, verdict, extraVars>>

StartContainer ==
  /\ pod.uid # 0 /\ ~pod.dying /\ pod.phase = "Pending" /\ ProcStart
  /\ UNCHANGED <<controllerVars, reportVars, extraVars>>

(***************************************************************************)
(* The phase of the pod follows its one container, never restarted; a node *)
(* that cannot be reached shows as Unknown.                                *)
(***************************************************************************)
PostPhase ==
  /\ \/ /\ proc \notin {"off", "exited"} /\ pod.phase \in {"Pending", "Unknown"}
        /\ pod' = [pod EXCEPT !.phase = "Running"]
     \/ /\ proc = "exited" /\ ~Terminal(pod.phase)
        /\ pod' = [pod EXCEPT !.phase = IF zero THEN "Succeeded" ELSE "Failed"]
  /\ KeepAllButPod /\ UNCHANGED <<procVars, extraVars>>

LoseNode ==
  /\ pod.phase = "Running" /\ Faulty
  /\ pod' = [pod EXCEPT !.phase = "Unknown"]
  /\ KeepAllButPod /\ UNCHANGED <<procVars, dispatched, collected, sent, earned>>

-----------------------------------------------------------------------------
(***************************************************************************)
(* The controller.  Its projection is a request to the observed handler,  *)
(* whose answer ends the pass.                                             *)
(***************************************************************************)
KeepAllButController == UNCHANGED <<reportVars, procVars, dispatched, collected, sent, earned>>

CRWatched == WatchCR /\ KeepAllButController /\ UNCHANGED faults

PodWatched == WatchPod /\ KeepAllButController /\ UNCHANGED faults

Pass ==
  /\ Reconcile \/ updateConditions \/ Conflict \/ UpdateStatus \/ CreatePod
  /\ KeepAllButController /\ UNCHANGED faults

ControllerFault ==
  /\ LostResponse \/ Restart
  /\ Faulty /\ KeepAllButController

ApplyObserved ==
  /\ at = "project" /\ Receive("observed", toModelPhase(mapPodPhase(podRead.phase)))
  /\ at' = "wait"
  /\ UNCHANGED <<apiVars, jr, podRead, dirty, procVars, extraVars>>

(***************************************************************************)
(* The request or its answer is lost: an error, and the pass is repeated.  *)
(***************************************************************************)
ApplyObservedLost ==
  /\ at \in {"project", "wait"} /\ Done(TRUE)
  /\ Faulty /\ KeepAllButController /\ UNCHANGED apiVars

-----------------------------------------------------------------------------
(***************************************************************************)
(* The process.  Its report is a request to the status handler; anything   *)
(* but success is reported as a failure.  A process that is stopped leaves *)
(* its request behind.                                                     *)
(***************************************************************************)
KeepAllButProcess == UNCHANGED <<controllerVars, dispatched, collected, faults>>

ProcessEnds ==
  /\ \/ (GiveUp \/ ProcExit) /\ UNCHANGED earned
     \/ \E v \in {"success", "failure"} : Decide(v) /\ earned' = (earned \/ v = "success")
  /\ KeepAllButProcess /\ UNCHANGED <<reportVars, sent>>

ProcessStopped ==
  /\ \/ ContextDone /\ UNCHANGED sent
     \/ Kill /\ sent' = FALSE
  /\ KeepAllButProcess /\ UNCHANGED <<reportVars, earned>>

ReportJob ==
  /\ proc = "reporting" /\ ~sent /\ ~stopped /\ sent' = TRUE
  /\ Receive("status", IF verdict = "success" THEN "succeeded" ELSE "failed")
  /\ KeepAllButProcess /\ UNCHANGED <<procVars, earned>>

ReportAbandoned ==
  /\ stopped /\ ReportReturns /\ sent' = FALSE
  /\ KeepAllButProcess /\ UNCHANGED <<reportVars, earned>>

-----------------------------------------------------------------------------
(***************************************************************************)
(* The handlers.  The end of one is the answer its client, if it is still  *)
(* there, waits for; a store that fails is an error to the client.         *)
(***************************************************************************)
Answer(h, failed) ==
  /\ IF h = "observed" /\ at = "wait" THEN Done(failed) ELSE UNCHANGED passVars
  /\ IF h = "status" /\ sent THEN ReportReturns /\ sent' = FALSE ELSE UNCHANGED <<procVars, sent>>

KeepAllButHandlers == UNCHANGED <<apiVars, dispatched, collected, earned>>

HandlerStep(h) ==
  /\ \/ projectObserved(h) \/ reportCheck(h) \/ findByExternalID(h)
  /\ KeepAllButHandlers /\ UNCHANGED <<passVars, procVars, sent, faults>>

HandlerAnswer(h) ==
  /\ Report(h) \/ reportFails(h)
  /\ Answer(h, FALSE)
  /\ KeepAllButHandlers /\ UNCHANGED faults

HandlerFault(h) ==
  /\ projectFails(h) /\ Answer(h, TRUE)
  /\ Faulty /\ KeepAllButHandlers

-----------------------------------------------------------------------------
Cluster == ClassAdded \/ EvictPod \/ CollectPod \/ RemovePod \/ StartContainer \/ PostPhase \/ LoseNode

Next ==
  \/ Dispatch \/ CancelRun \/ Collect
  \/ Cluster
  \/ CRWatched \/ PodWatched \/ Pass \/ ControllerFault \/ ApplyObserved \/ ApplyObservedLost
  \/ ProcessEnds \/ ProcessStopped \/ ReportJob \/ ReportAbandoned
  \/ \E h \in Handlers : HandlerStep(h) \/ HandlerAnswer(h) \/ HandlerFault(h)

Spec == Init /\ [][Next]_vars

(***************************************************************************)
(* Fairness: the dispatcher's loop, the informers, the reconciler's queue, *)
(* the kubelet, the handlers and a process whose steps end or time out.    *)
(* Somebody adds a RunnerClass that is missing.  Nothing makes a           *)
(* cancellation, a stop or a fault happen.                                 *)
(***************************************************************************)
FairSpec ==
  /\ Spec
  /\ WF_vars(Dispatch) /\ WF_vars(ClassAdded)
  /\ WF_vars(RemovePod) /\ WF_vars(StartContainer) /\ WF_vars(PostPhase)
  /\ WF_vars(CRWatched) /\ WF_vars(PodWatched) /\ WF_vars(Pass) /\ WF_vars(ApplyObserved)
  /\ WF_vars(ProcessEnds) /\ WF_vars(ReportJob) /\ WF_vars(ReportAbandoned)
  /\ \A h \in Handlers : WF_vars(HandlerStep(h)) /\ WF_vars(HandlerAnswer(h))

-----------------------------------------------------------------------------
(***************************************************************************)
(* A JobRun is durably succeeded only if some process of it decided for    *)
(* success: no kill, eviction, lost node, give-up or restart, and no       *)
(* mixture of the two reporting channels, turns into a success.            *)
(***************************************************************************)
SuccessIsEarned == status = "succeeded" => earned

(***************************************************************************)
(* A check run that shows a conclusion shows the JobRun's outcome: the two *)
(* handlers, however they overtake each other between reading the record   *)
(* and writing the check, never publish a conclusion that the record does  *)
(* not end with (reportCheck reads the durable record back after the       *)
(* projection).                                                            *)
(***************************************************************************)
CheckHonest ==
  \A i \in 1..Len(checks) :
    checks[i] \notin {"queued", "in_progress"} => checks[i] = MapJobRun(status)

(***************************************************************************)
(* "Stale observations never regress the CR status": no update of the      *)
(* resource lowers the rank of its phase, whatever the informers show,     *)
(* whichever pod is observed and whenever the controller restarts.         *)
(***************************************************************************)
CRNeverRegresses ==
  [][cr.live /\ cr'.live => phaseRank(cr'.phase) >= phaseRank(cr.phase)]_vars

(***************************************************************************)
(* A job that is dispatched ends: whatever becomes of its process (success,*)
(* failure, no plan, killed, stopped while it reports), one of the two     *)
(* channels brings a terminal phase to the durable record.                 *)
(***************************************************************************)
JobEnds == dispatched ~> status \in JobTerminal

=============================================================================
