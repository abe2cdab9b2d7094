-------------------------- MODULE JobRunController --------------------------
(***************************************************************************)
(* The reconciler of one JobRun custom resource (internal/runtime/         *)
(* controller): it creates the primary pod, copies the pod's phase into    *)
(* the resource's status and projects it to the control plane.             *)
(*                                                                         *)
(* Reads go to the informers' copies, which follow the API server with a   *)
(* delay of their own; writes go to the API server, which refuses a status *)
(* update made from a copy that is not the latest, and a second pod of the *)
(* same name.  One worker reconciles the resource; an error, a requeue or  *)
(* a watch event makes it dirty and so reconciles it again.                *)
(***************************************************************************)
EXTENDS Naturals

CONSTANT MaxPods  \* bound: pods made for the resource, one after the other

VARIABLES
  cr,       \* the resource: live, status phase and pod UID, condition
  crSeen,   \* the informer's copy of it
  pod,      \* the pod: UID (0 = none), phase, whether it is being deleted
  podSeen,  \* the informer's copy of it
  pods,     \* how many pods there have been: the UIDs given out
  class,    \* whether the RunnerClass exists
  at,       \* the reconciler's next call
  jr,       \* the resource as this pass has read it
  podRead,  \* the pod as this pass has read it
  dirty     \* the resource is in the work queue

apiVars == <<cr, crSeen, pod, podSeen, pods, class>>
passVars == <<at, jr, podRead, dirty>>
controllerVars == <<apiVars, passVars>>

PodPhase == {"Pending", "Running", "Succeeded", "Failed", "Unknown"}
Phase == {"", "Pending", "Running", "Succeeded", "Failed"}

NoCR == [live |-> FALSE, phase |-> "", uid |-> 0, ready |-> ""]
NoPodSeen == [uid |-> 0, phase |-> "Pending"]
NoPod == [uid |-> 0, phase |-> "Pending", dying |-> FALSE]

ControllerInit ==
  /\ cr = NoCR /\ crSeen = NoCR /\ pod = NoPod /\ podSeen = NoPodSeen /\ pods = 0
  /\ class \in BOOLEAN
  /\ at = "idle" /\ jr = NoCR /\ podRead = NoPodSeen /\ dirty = FALSE

Terminal(phase) == phase \in {"Succeeded", "Failed"}

phaseRank(phase) == IF Terminal(phase) THEN 2 ELSE IF phase = "Running" THEN 1 ELSE 0

mapPodPhase(p) == IF p \in {"Running", "Succeeded", "Failed"} THEN p ELSE "Pending"

toModelPhase(phase) ==
  CASE phase = "Running"   -> "running"
    [] phase = "Succeeded" -> "succeeded"
    [] phase = "Failed"    -> "failed"
    [] OTHER               -> "pending"

-----------------------------------------------------------------------------
(***************************************************************************)
(* The informers: events arrive in order, each kind with its own delay.    *)
(***************************************************************************)
WatchCR ==
  /\ crSeen # cr /\ crSeen' = cr /\ dirty' = TRUE
  /\ UNCHANGED <<cr, pod, podSeen, pods, class, at, jr, podRead>>

Shown == [uid |-> pod.uid, phase |-> pod.phase]

WatchPod ==
  /\ podSeen # Shown /\ podSeen' = Shown /\ dirty' = TRUE
  /\ UNCHANGED <<cr, crSeen, pod, pods, class, at, jr, podRead>>

(***************************************************************************)
(* The pass ends; again says whether the resource is queued once more.     *)
(***************************************************************************)
Done(again) ==
  /\ at' = "idle" /\ jr' = NoCR /\ podRead' = NoPodSeen
  /\ dirty' = (again \/ (at # "idle" /\ dirty))

(***************************************************************************)
(* Status().Update refuses a copy that is not the latest.  No write brings *)
(* back an earlier value of the resource, so equal copies are equal        *)
(* versions.                                                               *)
(***************************************************************************)
Fresh(copy) == cr.live /\ copy = cr

(***************************************************************************)
(* Reconcile up to its first write.  Its reads are of the informers'       *)
(* copies, whose delay stands for the time between two of them as well.    *)
(***************************************************************************)
Gone == ~crSeen.live /\ Done(FALSE) /\ UNCHANGED apiVars

ClassMissing ==
  /\ crSeen.live /\ ~class
  /\ cr' = IF crSeen.ready # "class missing" /\ Fresh(crSeen)
           THEN [cr EXCEPT !.ready = "class missing"] ELSE cr
  /\ Done(TRUE)  \* after 30 seconds, or at once when the update was refused
  /\ UNCHANGED <<crSeen, pod, podSeen, pods, class>>

PodMissing ==
  /\ crSeen.live /\ class /\ podSeen.uid = 0
  /\ IF Terminal(crSeen.phase) THEN Done(FALSE)
     ELSE at' = "progress" /\ jr' = crSeen /\ dirty' = FALSE /\ UNCHANGED podRead
  /\ UNCHANGED apiVars

observePod_Regresses ==
  /\ crSeen.live /\ class /\ podSeen.uid # 0
  /\ IF crSeen.phase = mapPodPhase(podSeen.phase) /\ crSeen.uid = podSeen.uid THEN Done(FALSE)
     ELSE at' = "update" /\ jr' = crSeen /\ podRead' = podSeen /\ dirty' = FALSE
  /\ UNCHANGED apiVars

observePod ==
  LET phase   == mapPodPhase(podSeen.phase)
      changed == crSeen.phase # phase \/ crSeen.uid # podSeen.uid
  IN  /\ crSeen.live /\ class /\ podSeen.uid # 0
      /\ IF phaseRank(phase) < phaseRank(crSeen.phase) \/ ~changed THEN Done(FALSE)
         ELSE at' = "update" /\ jr' = crSeen /\ podRead' = podSeen /\ dirty' = FALSE
      /\ UNCHANGED apiVars

Reconcile ==
  /\ at = "idle" /\ dirty
  /\ Gone \/ ClassMissing \/ PodMissing \/ observePod

updateConditions ==
  /\ at = "progress" /\ (jr.ready = "creating" \/ Fresh(jr))
  /\ IF jr.ready = "creating" THEN UNCHANGED cr
     ELSE cr' = [cr EXCEPT !.ready = "creating"]
  /\ at' = "create" /\ jr' = NoCR
  /\ UNCHANGED <<crSeen, pod, podSeen, pods, class, podRead, dirty>>

Conflict ==
  /\ \/ at = "progress" /\ jr.ready # "creating" /\ ~Fresh(jr)
     \/ at = "update" /\ ~Fresh(jr)
  /\ Done(TRUE)
  /\ UNCHANGED apiVars

NewPod == pod' = [NoPod EXCEPT !.uid = pods + 1] /\ pods' = pods + 1

CreatePod ==
  /\ at = "create"
  /\ IF pod.uid # 0 THEN UNCHANGED <<pod, pods>> /\ Done(TRUE)  \* AlreadyExists: again in a second
     ELSE NewPod /\ Done(FALSE)
  /\ UNCHANGED <<cr, crSeen, podSeen, class>>

(***************************************************************************)
(* observePod: the status first, then the projection.                      *)
(***************************************************************************)
Observed ==
  [cr EXCEPT !.phase = mapPodPhase(podRead.phase), !.uid = podRead.uid,
             !.ready = "observed"]

UpdateStatus_NoProjection ==
  /\ at = "update" /\ Fresh(jr)
  /\ cr' = Observed
  /\ Done(FALSE)
  /\ UNCHANGED <<crSeen, pod, podSeen, pods, class>>

UpdateStatus ==
  /\ at = "update" /\ Fresh(jr)
  /\ cr' = Observed
  /\ at' = "project" /\ jr' = NoCR
  /\ UNCHANGED <<crSeen, pod, podSeen, pods, class, podRead, dirty>>

(***************************************************************************)
(* A write that takes effect although its response is lost: an error, and  *)
(* the pass is repeated.                                                   *)
(***************************************************************************)
LostResponse ==
  /\ \/ at = "update" /\ Fresh(jr) /\ cr' = Observed /\ UNCHANGED <<pod, pods>>
     \/ at = "create" /\ pod.uid = 0 /\ NewPod /\ UNCHANGED cr
  /\ Done(TRUE)
  /\ UNCHANGED <<crSeen, podSeen, class>>

(***************************************************************************)
(* A restart of the controller: everything is listed and queued again.     *)
(***************************************************************************)
Restart ==
  /\ at' = "idle" /\ jr' = NoCR /\ podRead' = NoPodSeen /\ dirty' = TRUE
  /\ crSeen' = cr /\ podSeen' = Shown
  /\ UNCHANGED <<cr, pod, pods, class>>

=============================================================================
