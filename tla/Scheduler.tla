----------------------------- MODULE Scheduler -----------------------------
(***************************************************************************)
(* The dispatch / project / collect protocol of internal/run/scheduler     *)
(* between two stores that share no transaction: the durable store (module *)
(* DurableStore) and the active execution store, which holds one object    *)
(* per executing JobRun.  The callers interleave between any two calls:    *)
(*                                                                         *)
(*   dispatchers  claim, check, create-or-get, acknowledge (or release)    *)
(*   projections  phases of the pods, late, repeated and out of order      *)
(*   the sweep    list, then delete and mark one job after the other       *)
(*   requests     cancellations and re-requests                            *)
(*                                                                         *)
(* Calls on the active store may fail before or after taking effect.       *)
(***************************************************************************)
EXTENDS DurableStore

CONSTANTS
  Dispatcher,    \* concurrent callers of DispatchNext
  MaxRerequests  \* bound: re-requests that create an attempt

VARIABLES
  objects,   \* jobs that have an active object
  pod,       \* the phase of the object's pod, "none" before the first one
  pc,        \* per dispatcher: the next call of DispatchNext
  job,       \* per dispatcher: the job it claimed
  gcList,    \* jobs the sweep still has to collect
  gcDeleted  \* TRUE between the sweep's Delete and its MarkCollected

schedVars == <<objects, pod, pc, job, gcList, gcDeleted>>
vars == <<storeVars, schedVars>>

Init ==
  /\ StoreInit
  /\ objects = {}
  /\ pod = [j \in JobRunID |-> "none"]
  /\ pc = [d \in Dispatcher |-> "idle"]
  /\ job = [d \in Dispatcher |-> NoJob]
  /\ gcList = {} /\ gcDeleted = FALSE

-----------------------------------------------------------------------------
(***************************************************************************)
(* Dispatcher.  DispatchNext claims; Dispatch then loads the job, ensures  *)
(* its object and acknowledges.  Any error releases the claim.             *)
(***************************************************************************)
Claim_IgnoresEmpty(d) ==
  /\ pc[d] = "idle"
  /\ \E pick \in JobRunID \cup {NoJob} :
       /\ ClaimNextQueuedJob(pick)
       /\ job' = [job EXCEPT ![d] = pick]
       /\ pc' = [pc EXCEPT ![d] = "check"]
  /\ UNCHANGED <<objects, pod, gcList, gcDeleted>>

Claim(d) ==
  /\ pc[d] = "idle"
  /\ \E pick \in JobRunID \cup {NoJob} :
       /\ ClaimNextQueuedJob(pick)
       /\ job' = [job EXCEPT ![d] = pick]
       /\ pc' = IF pick = NoJob THEN pc ELSE [pc EXCEPT ![d] = "check"]
  /\ UNCHANGED <<objects, pod, gcList, gcDeleted>>

Check(d) ==
  /\ pc[d] = "check"
  /\ pc' = [pc EXCEPT ![d] = IF Dispatchable(job[d]) THEN "create" ELSE "release"]
  /\ UNCHANGED <<storeVars, objects, pod, job, gcList, gcDeleted>>

(***************************************************************************)
(* CreateOrGet: an existing object is returned as it is, a new one gets a  *)
(* new pod.                                                                *)
(***************************************************************************)
CreateOrGet(j) ==
  /\ objects' = objects \cup {j}
  /\ pod' = IF j \in objects THEN pod ELSE [pod EXCEPT ![j] = "pending"]

Create_AckFirst(d) ==
  /\ pc[d] = "create"
  /\ pc' = [pc EXCEPT ![d] = "ack"]
  /\ UNCHANGED <<storeVars, objects, pod, job, gcList, gcDeleted>>

Create(d) ==
  /\ pc[d] = "create"
  /\ CreateOrGet(job[d])
  /\ pc' = [pc EXCEPT ![d] = "ack"]
  /\ UNCHANGED <<storeVars, job, gcList, gcDeleted>>

(***************************************************************************)
(* The create call returns an error: the object may exist or may not.      *)
(***************************************************************************)
CreateError(d) ==
  /\ pc[d] = "create"
  /\ CreateOrGet(job[d]) \/ UNCHANGED <<objects, pod>>
  /\ pc' = [pc EXCEPT ![d] = "release"]
  /\ UNCHANGED <<storeVars, job, gcList, gcDeleted>>

Ack(d) ==
  /\ pc[d] = "ack"
  /\ AckDispatched(job[d])
  /\ pc' = [pc EXCEPT ![d] = "idle"]
  /\ job' = [job EXCEPT ![d] = NoJob]
  /\ UNCHANGED <<objects, pod, gcList, gcDeleted>>

AckRefused(d) ==
  /\ pc[d] = "ack" /\ ~Dispatchable(job[d])
  /\ pc' = [pc EXCEPT ![d] = "release"]
  /\ UNCHANGED <<storeVars, objects, pod, job, gcList, gcDeleted>>

Release(d) ==
  /\ pc[d] = "release"
  /\ ReleaseClaim(job[d])
  /\ pc' = [pc EXCEPT ![d] = "idle"]
  /\ job' = [job EXCEPT ![d] = NoJob]
  /\ UNCHANGED <<objects, pod, gcList, gcDeleted>>

-----------------------------------------------------------------------------
(***************************************************************************)
(* The pod of an object runs forward; deleting the object stops it.        *)
(***************************************************************************)
PodStep(j) ==
  /\ j \in objects
  /\ \/ pod[j] = "pending" /\ pod' = [pod EXCEPT ![j] = "running"]
     \/ /\ pod[j] \in {"pending", "running"}
        /\ \E end \in {"succeeded", "failed"} : pod' = [pod EXCEPT ![j] = end]
  /\ UNCHANGED <<storeVars, objects, pc, job, gcList, gcDeleted>>

(***************************************************************************)
(* Projector.Project: any phase a pod has shown may still arrive, however  *)
(* late and however often.                                                 *)
(***************************************************************************)
Shown(j) ==
  CASE pod[j] = "none"    -> {}
    [] pod[j] = "pending" -> {"pending"}
    [] OTHER              -> {"pending", "running", pod[j]}

Project(j, phase) ==
  /\ phase \in Shown(j)
  /\ ApplyObserved(j, phase)
  /\ UNCHANGED schedVars

(***************************************************************************)
(* The control plane projects as well, with or without a pod: a condition  *)
(* that is false skips its job, one that does not evaluate fails it.  When *)
(* it does so is in module Server.                                         *)
(***************************************************************************)
ProjectCondition(j, phase) ==
  /\ Exists(j) /\ Condition[j[1]] # ""
  /\ ApplyObserved(j, phase)
  /\ UNCHANGED schedVars

-----------------------------------------------------------------------------
(***************************************************************************)
(* Collector.Collect: one listing, then Delete and MarkCollected per job,  *)
(* in the listing's order; a failing Delete ends the sweep.                *)
(***************************************************************************)
runBorn(r) == CHOOSE n \in {born[j] : j \in runJobs(r, status)} :
                \A j \in runJobs(r, status) : n <= born[j]

Precedes(i, j) ==
  IF RunOfJob(i) = RunOfJob(j) THEN born[i] < born[j]
  ELSE runBorn(RunOfJob(i)) < runBorn(RunOfJob(j))

gcHead(j) == j \in gcList /\ \A i \in gcList \ {j} : Precedes(j, i)

CollectList ==
  /\ gcList = {} /\ ListGCReadyJobs # {}
  /\ gcList' = ListGCReadyJobs
  /\ UNCHANGED <<storeVars, objects, pod, pc, job, gcDeleted>>

CollectDelete(j) ==
  /\ gcHead(j) /\ ~gcDeleted
  /\ objects' = objects \ {j}
  /\ gcDeleted' = TRUE
  /\ UNCHANGED <<storeVars, pod, pc, job, gcList>>

CollectError(j) ==
  /\ gcHead(j) /\ ~gcDeleted
  /\ objects' \in {objects, objects \ {j}}
  /\ gcList' = {}
  /\ UNCHANGED <<storeVars, pod, pc, job, gcDeleted>>

CollectMark(j) ==
  /\ gcHead(j) /\ gcDeleted
  /\ MarkCollected(j)
  /\ gcList' = gcList \ {j}
  /\ gcDeleted' = FALSE
  /\ UNCHANGED <<objects, pod, pc, job>>

-----------------------------------------------------------------------------
(***************************************************************************)
(* Requests from outside.                                                  *)
(***************************************************************************)
Submit(r) == CreateRun(r) /\ UNCHANGED schedVars

Cancel(r) == CancelRun(r) /\ UNCHANGED schedVars

Rerequest(j) ==
  /\ Cardinality({i \in JobRunID : Exists(i) /\ i[2] > 1}) < MaxRerequests
  /\ RerequestJob(j)
  /\ UNCHANGED schedVars

Dispatch(d) ==
  \/ Claim(d) \/ Check(d) \/ Create(d) \/ CreateError(d)
  \/ Ack(d) \/ AckRefused(d) \/ Release(d)

Collect ==
  \/ CollectList
  \/ \E j \in JobRunID : CollectDelete(j) \/ CollectError(j) \/ CollectMark(j)

Next ==
  \/ \E d \in Dispatcher : Dispatch(d)
  \/ \E j \in JobRunID : PodStep(j)
  \/ \E j \in JobRunID, p \in ObservedPhase : Project(j, p)
  \/ \E j \in JobRunID, p \in {"skipped", "failed"} : ProjectCondition(j, p)
  \/ Collect
  \/ \E r \in RunID : Submit(r) \/ Cancel(r)
  \/ \E j \in JobRunID : Rerequest(j)

Spec == Init /\ [][Next]_vars

(***************************************************************************)
(* Fairness.  The dispatch and collect loops run on tickers until shutdown *)
(* (StartLoops), and calls on the active store do not fail forever.  Pods  *)
(* finish and their final phase is projected at least once: the executor   *)
(* and the controller, outside this module, both report it.                *)
(***************************************************************************)
Fairness ==
  /\ \A d \in Dispatcher : WF_vars(Dispatch(d)) /\ SF_vars(Create(d))
  /\ \A j \in JobRunID : WF_vars(PodStep(j))
  /\ \A j \in JobRunID, end \in {"succeeded", "failed"} :
       WF_vars(pod[j] = end /\ Project(j, end))
  /\ WF_vars(Collect)
  /\ \A j \in JobRunID : SF_vars(CollectDelete(j))

FairSpec == Spec /\ Fairness

-----------------------------------------------------------------------------
(***************************************************************************)
(* The records are well formed, and every dispatcher works on a real job.  *)
(***************************************************************************)
TypeOK ==
  /\ status \in [JobRunID -> JobRunStatus \cup {"absent"}]
  /\ runStatus \in [RunID -> WorkflowRunStatus \cup {"absent"}]
  /\ born \in [JobRunID -> Nat] /\ clock \in Nat
  /\ byJobKey \in [JobKey -> 0 .. MaxAttempt]
  /\ claimed \subseteq JobRunID /\ named \subseteq JobRunID
  /\ collected \subseteq JobRunID /\ objects \subseteq JobRunID
  /\ pod \in [JobRunID -> {"none", "pending", "running", "succeeded", "failed"}]
  /\ pc \in [Dispatcher -> {"idle", "check", "create", "ack", "release"}]
  /\ job \in [Dispatcher -> JobRunID \cup {NoJob}]
  /\ \A d \in Dispatcher : pc[d] # "idle" => job[d] \in JobRunID
  /\ gcList \subseteq JobRunID /\ gcDeleted \in BOOLEAN

(***************************************************************************)
(* ClaimNextQueuedJob hands no job to two dispatchers at once, also when a *)
(* claim is dropped by a cancellation or released after an error.          *)
(***************************************************************************)
ExclusiveDispatch ==
  \A d, e \in Dispatcher :
    pc[d] # "idle" /\ pc[e] # "idle" /\ job[d] = job[e] => d = e

(***************************************************************************)
(* A job the durable store shows as dispatched or running has its active   *)
(* object: AckDispatched comes after CreateOrGet, and the collector never  *)
(* deletes the object of an open job.                                      *)
(***************************************************************************)
ActiveHasObject ==
  \A j \in JobRunID : status[j] \in {"dispatched", "running"} => j \in objects

(***************************************************************************)
(* A run is closed exactly while all attempts of all its jobs are, through *)
(* skips, projections, cancellations and re-requests that reopen it.       *)
(***************************************************************************)
RunClosedWithJobs ==
  \A r \in RunID : runStatus[r] # "absent" =>
    (runStatus[r] \in RunTerminal <=> \A j \in runJobs(r, status) : status[j] \in JobTerminal)

(***************************************************************************)
(* A run reported as succeeded has no failed and no cancelled attempt.     *)
(***************************************************************************)
SuccessIsUnanimous ==
  \A r \in RunID : runStatus[r] = "succeeded" =>
    \A j \in runJobs(r, status) : status[j] \in {"succeeded", "skipped"}

(***************************************************************************)
(* A job without `if:` gets an active object only after each job it needs  *)
(* has succeeded in some attempt.                                          *)
(***************************************************************************)
NeedsRespected ==
  \A j \in objects : Condition[j[1]] = "" =>
    \A i \in DOMAIN DependsOn[j[1]] :
      \E n \in 1 .. MaxAttempt :
        <<DependsOn[j[1]][i], n>> \in JobRunID /\ status[<<DependsOn[j[1]][i], n>>] = "succeeded"

(***************************************************************************)
(* A terminal job status never changes, whatever arrives after it.         *)
(***************************************************************************)
TerminalSticky ==
  [][\A j \in JobRunID : status[j] \in JobTerminal => status'[j] = status[j]]_vars

(***************************************************************************)
(* An active object goes away only when the outcome of its job is durable  *)
(* (window W4).                                                            *)
(***************************************************************************)
ObjectsOutliveJobs ==
  [][\A j \in objects \ objects' : status[j] \in JobTerminal]_vars

(***************************************************************************)
(* Every queued job reaches a terminal status: it is dispatched and runs,  *)
(* is skipped for a failed need, or is cancelled.                          *)
(***************************************************************************)
JobsSettle ==
  \A j \in JobRunID : status[j] = "queued" ~> status[j] \in JobTerminal

(***************************************************************************)
(* Every settled job is marked collected in the end, although sweeps work  *)
(* off lists of the past and failing deletes cut them short.               *)
(***************************************************************************)
JobsCollected ==
  \A j \in JobRunID : status[j] \in JobTerminal ~> j \in collected

=============================================================================
