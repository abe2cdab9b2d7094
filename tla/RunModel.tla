------------------------------ MODULE RunModel ------------------------------
(***************************************************************************)
(* The pure run state machine of internal/run/model: the durable statuses  *)
(* of WorkflowRuns and JobRuns, the ranks that order them, the transition  *)
(* relations, and the aggregate of a run over the statuses of its jobs.    *)
(* No variables: every module that holds job or run records extends this.  *)
(***************************************************************************)
EXTENDS Naturals

WorkflowRunStatus == {"queued", "running", "succeeded", "failed", "cancelled"}

RunTerminal == {"succeeded", "failed", "cancelled"}

JobRunStatus == {"queued", "dispatched", "running",
                 "succeeded", "failed", "cancelled", "skipped"}

JobTerminal == {"succeeded", "failed", "cancelled", "skipped"}

ObservedPhase == {"pending", "running", "succeeded", "failed", "skipped"}

jobRank(s) ==
  CASE s = "queued"     -> 0
    [] s = "dispatched" -> 1
    [] s = "running"    -> 2
    [] OTHER            -> 3

runRank(s) ==
  CASE s = "queued"  -> 0
    [] s = "running" -> 1
    [] OTHER         -> 2

(***************************************************************************)
(* The explicit transitions (CancelRun, the claim scan's skips).           *)
(***************************************************************************)
CanTransitionJob_NotSticky(from, to) == to \in {"cancelled", "skipped"}

CanTransitionJob(from, to) ==
  /\ from \notin JobTerminal
  /\ \/ to \in {"cancelled", "skipped"}
     \/ to = "dispatched" /\ from = "queued"
     \/ to \in {"running", "succeeded", "failed"} /\ from \in {"dispatched", "running"}

TransitionJob(from, to) == IF CanTransitionJob(from, to) THEN to ELSE from

(***************************************************************************)
(* The forward-only progress of monotonic projection: a job observation,   *)
(* and an update of the run aggregate.                                     *)
(***************************************************************************)
CanAdvanceJob(from, to) ==
  /\ to # "cancelled"
  /\ from = to \/ jobRank(to) > jobRank(from)

CanAdvanceRun(from, to) ==
  \/ from = to
  \/ /\ from \notin RunTerminal
     /\ to \in RunTerminal \/ runRank(to) > runRank(from)

(***************************************************************************)
(* The status a phase implies; "pending", and any phase the code does not  *)
(* know, implies no durable change.                                        *)
(***************************************************************************)
PhaseChanges(p) == p \in ObservedPhase \ {"pending"}

JobStatusFromPhase(p) == p

(***************************************************************************)
(* The aggregate of a run over the set of its jobs' statuses: any open job *)
(* keeps the run open, closed jobs aggregate worst-first.                  *)
(***************************************************************************)
AggregateRunStatus_IgnoresCancelled(statuses) ==
  IF statuses \subseteq JobTerminal /\ statuses # {}
  THEN IF "failed" \in statuses THEN "failed" ELSE "succeeded"
  ELSE IF statuses \cap {"running", "dispatched"} # {} THEN "running" ELSE "queued"

AggregateRunStatus(statuses) ==
  IF statuses \subseteq JobTerminal /\ statuses # {}
  THEN IF "failed" \in statuses THEN "failed"
       ELSE IF "cancelled" \in statuses THEN "cancelled" ELSE "succeeded"
  ELSE IF statuses \cap {"running", "dispatched"} # {} THEN "running" ELSE "queued"

=============================================================================
