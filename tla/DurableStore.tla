---------------------------- MODULE DurableStore ----------------------------
(***************************************************************************)
(* The in-memory DurableStore (internal/storage/memory): run and job       *)
(* records, the claims handed to dispatchers, the collection marks.  Every *)
(* method holds the store's mutex from its first line to its return, so    *)
(* each one is a single step here.  This module has the state and one      *)
(* operation per method; the modules that extend it say who calls them.    *)
(*                                                                         *)
(* A JobRun is a pair <<key, attempt>>.  A key stands for one job key of   *)
(* one run, so RunOf gives its run; DependsOn may name a key that no job   *)
(* of the run has, which is a lookup the store can miss.                   *)
(***************************************************************************)
EXTENDS RunModel, FiniteSets, Sequences

CONSTANTS
  RunID,       \* the runs that may be created
  JobKey,      \* their jobs, one key per compiled job intent
  RunOf,       \* [JobKey -> RunID]
  Position,    \* [JobKey -> 1..MaxIntents]: place in the run's intents
  MaxIntents,  \* bound: intents of one run
  DependsOn,   \* [JobKey -> sequence of needed keys]
  Condition,   \* [JobKey -> STRING]: the raw `if:`, "" when there is none
  MaxAttempt,  \* bound: attempts of one job
  NoJob        \* stands for the error ErrNoQueuedJob

JobRunID == JobKey \X (1 .. MaxAttempt)

ASSUME StoreAssumption ==
  /\ RunOf \in [JobKey -> RunID]
  /\ MaxIntents \in Nat /\ MaxAttempt \in Nat \ {0}
  /\ Position \in [JobKey -> 1 .. MaxIntents]
  /\ \A k, l \in JobKey : RunOf[k] = RunOf[l] /\ Position[k] = Position[l] => k = l
  /\ \A r \in RunID : \E k \in JobKey : RunOf[k] = r   \* CreateRun refuses an empty run
  /\ NoJob \notin JobRunID

ASSUME NeedsAssumption ==   \* the needs of a job are a finite list
  \A k \in JobKey :
    Len(DependsOn[k]) \in Nat /\ DOMAIN DependsOn[k] = 1 .. Len(DependsOn[k])

VARIABLES
  status,      \* job records: JobRunStatus, "absent" before creation
  runStatus,   \* run records: WorkflowRunStatus, "absent" before creation
  born,        \* (CreatedAt, ID) of a job as its place in creation order
  clock,       \* the last place handed out by the monotonic ID generator
  byJobKey,    \* attempt a dependency on the key resolves to, 0 = no entry
  claimed,     \* jobs handed out by ClaimNextQueuedJob
  named,       \* jobs whose ActiveName is recorded
  collected    \* jobs whose ActiveCollectedAt is set

storeVars == <<status, runStatus, born, clock, byJobKey, claimed, named, collected>>

StoreInit ==
  /\ status = [j \in JobRunID |-> "absent"]
  /\ runStatus = [r \in RunID |-> "absent"]
  /\ born = [j \in JobRunID |-> 0]
  /\ clock = 0
  /\ byJobKey = [k \in JobKey |-> 0]
  /\ claimed = {} /\ named = {} /\ collected = {}

RunOfJob(j) == RunOf[j[1]]

Exists(j) == status[j] # "absent"

(***************************************************************************)
(* runJobs: all attempts of all jobs of a run, given the job records st.   *)
(***************************************************************************)
runJobs(r, st) == {j \in JobRunID : RunOfJob(j) = r /\ st[j] # "absent"}

(***************************************************************************)
(* refreshRunLocked: the status of run r once the job records are st.      *)
(***************************************************************************)
refreshRun(r, st) ==
  LET next == AggregateRunStatus({st[j] : j \in runJobs(r, st)})
  IN  IF runStatus[r] \in RunTerminal \/ ~CanAdvanceRun(runStatus[r], next)
      THEN runStatus[r] ELSE next

refreshRuns(R, st) ==
  [r \in RunID |-> IF r \in R /\ runStatus[r] # "absent"
                   THEN refreshRun(r, st) ELSE runStatus[r]]

-----------------------------------------------------------------------------
(***************************************************************************)
(* CreateRun: the run and the first attempt of each of its intents.        *)
(***************************************************************************)
CreateRun(r) ==
  /\ runStatus[r] = "absent"
  /\ runStatus' = [runStatus EXCEPT ![r] = "queued"]
  /\ status' = [j \in JobRunID |->
                  IF RunOfJob(j) = r /\ j[2] = 1 THEN "queued" ELSE status[j]]
  /\ born' = [j \in JobRunID |->
                IF RunOfJob(j) = r /\ j[2] = 1 THEN clock + Position[j[1]] ELSE born[j]]
  /\ clock' = clock + MaxIntents
  /\ byJobKey' = [k \in JobKey |-> IF RunOf[k] = r THEN 1 ELSE byJobKey[k]]
  /\ UNCHANGED <<claimed, named, collected>>

(***************************************************************************)
(* dependencyStateLocked, with the job records st.  The loop over the      *)
(* needed keys stops at the first one that is missing or did not succeed.  *)
(***************************************************************************)
dependencyState_NeverBlocked(st, j) ==
  LET deps == DependsOn[j[1]]
  IN  IF \E i \in DOMAIN deps :
           st[<<deps[i], byJobKey[deps[i]]>>] \in {"failed", "cancelled", "skipped"}
      THEN "failed" ELSE "ready"

dependencyState(st, j) ==
  LET deps       == DependsOn[j[1]]
      missing(i) == deps[i] \notin JobKey \/ RunOf[deps[i]] # RunOfJob(j)
      dep(i)     == st[<<deps[i], byJobKey[deps[i]]>>]
      stops(i)   == missing(i) \/ dep(i) \in {"failed", "cancelled", "skipped"}
  IN  IF \E i \in DOMAIN deps : stops(i)
      THEN LET first == CHOOSE i \in DOMAIN deps :
                          stops(i) /\ \A h \in 1 .. (i - 1) : ~stops(h)
           IN  IF missing(first) THEN "blocked" ELSE "failed"
      ELSE IF \A i \in DOMAIN deps : dep(i) = "succeeded" THEN "ready" ELSE "blocked"

Candidates == {j \in JobRunID : status[j] = "queued" /\ j \notin claimed}

Skip(S) == [j \in JobRunID |-> IF j \in S THEN "skipped" ELSE status[j]]

(***************************************************************************)
(* The claim scan, oldest candidate first, that skips the jobs S and stops *)
(* at pick (NoJob: it runs off the end).  A candidate sees the skips made  *)
(* before it is reached.                                                   *)
(***************************************************************************)
ClaimScan(S, pick) ==
  LET older(j)  == {i \in Candidates : born[i] < born[j]}
      reached   == IF pick = NoJob THEN Candidates ELSE older(pick)
      deps(j)   == dependencyState(Skip(S \cap older(j)), j)
      skips(j)  == deps(j) = "failed" /\ Condition[j[1]] = ""
  IN  /\ S = {j \in reached : skips(j)}
      /\ \A j \in reached \ S : deps(j) = "blocked"
      /\ pick # NoJob => deps(pick) # "blocked" /\ ~skips(pick)

ClaimNextQueuedJob_Unmarked(pick) ==
  /\ pick \in Candidates \cup {NoJob}
  /\ \E S \in SUBSET Candidates :
       /\ ClaimScan(S, pick)
       /\ status' = Skip(S)
       /\ runStatus' = refreshRuns({RunOfJob(j) : j \in S}, Skip(S))
  /\ UNCHANGED <<born, clock, byJobKey, claimed, named, collected>>

ClaimNextQueuedJob(pick) ==
  /\ pick \in Candidates \cup {NoJob}
  /\ \E S \in SUBSET Candidates :
       /\ ClaimScan(S, pick)
       /\ status' = Skip(S)
       /\ runStatus' = refreshRuns({RunOfJob(j) : j \in S}, Skip(S))
  /\ claimed' = claimed \cup ({pick} \ {NoJob})
  /\ UNCHANGED <<born, clock, byJobKey, named, collected>>

ReleaseClaim_Forgotten(j) == UNCHANGED storeVars

ReleaseClaim(j) ==
  /\ claimed' = claimed \ {j}
  /\ UNCHANGED <<status, runStatus, born, clock, byJobKey, named, collected>>

(***************************************************************************)
(* AckDispatched succeeds on a queued or a dispatched job and is refused   *)
(* (ErrJobNotDispatchable, nothing changes) in every other status.  The    *)
(* object name is derived from the job's ID, so it never conflicts.        *)
(***************************************************************************)
Dispatchable(j) == status[j] \in {"queued", "dispatched"}

AckDispatched(j) ==
  /\ Dispatchable(j)
  /\ status' = [status EXCEPT ![j] = "dispatched"]
  /\ named' = named \cup {j}
  /\ claimed' = claimed \ {j}
  /\ UNCHANGED <<runStatus, born, clock, byJobKey, collected>>

ApplyObserved_NoRefresh(j, phase) ==
  /\ status' = IF /\ status[j] \notin JobTerminal /\ PhaseChanges(phase)
                  /\ CanAdvanceJob(status[j], JobStatusFromPhase(phase))
               THEN [status EXCEPT ![j] = JobStatusFromPhase(phase)] ELSE status
  /\ UNCHANGED <<runStatus, born, clock, byJobKey, claimed, named, collected>>

ApplyObserved(j, phase) ==
  /\ IF \/ status[j] \in JobTerminal
        \/ PhaseChanges(phase) /\ ~CanAdvanceJob(status[j], JobStatusFromPhase(phase))
     THEN UNCHANGED <<status, runStatus>>
     ELSE /\ status' = IF PhaseChanges(phase)
                       THEN [status EXCEPT ![j] = JobStatusFromPhase(phase)] ELSE status
          /\ runStatus' = refreshRuns({RunOfJob(j)}, status')
  /\ UNCHANGED <<born, clock, byJobKey, claimed, named, collected>>

(***************************************************************************)
(* CancelRun on an open run; on a closed one it changes nothing.           *)
(***************************************************************************)
CancelRun(r) ==
  /\ runStatus[r] \notin RunTerminal \cup {"absent"}
  /\ status' = [j \in JobRunID |-> IF j \in runJobs(r, status)
                                   THEN TransitionJob(status[j], "cancelled")
                                   ELSE status[j]]
  /\ claimed' = claimed \ runJobs(r, status)
  /\ runStatus' = [runStatus EXCEPT ![r] = "cancelled"]
  /\ UNCHANGED <<born, clock, byJobKey, named, collected>>

(***************************************************************************)
(* RerequestJob that creates attempt n + 1 of job j = <<k, n>>; when that  *)
(* attempt exists it is returned and nothing changes.                      *)
(***************************************************************************)
RerequestJob(j) ==
  LET new == <<j[1], j[2] + 1>>
      r   == RunOfJob(j)
  IN  /\ Exists(j) /\ j[2] < MaxAttempt /\ ~Exists(new)
      /\ status' = [status EXCEPT ![new] = "queued"]
      /\ born' = [born EXCEPT ![new] = clock + 1]
      /\ clock' = clock + 1
      /\ byJobKey' = [byJobKey EXCEPT ![j[1]] = new[2]]
      /\ runStatus' = IF runStatus[r] \in RunTerminal
                      THEN [runStatus EXCEPT ![r] = "queued"] ELSE runStatus
      /\ UNCHANGED <<claimed, named, collected>>

ListGCReadyJobs_AnyStarted ==
  {j \in JobRunID : status[j] \notin {"absent", "queued"} /\ j \notin collected}

ListGCReadyJobs ==
  {j \in JobRunID : /\ runStatus[RunOfJob(j)] \in RunTerminal
                    /\ status[j] \in JobTerminal
                    /\ j \notin collected}

MarkCollected_Forgotten(j) == UNCHANGED storeVars

MarkCollected(j) ==
  /\ collected' = collected \cup {j}
  /\ UNCHANGED <<status, runStatus, born, clock, byJobKey, claimed, named>>

=============================================================================
