---------------------------- MODULE CheckReport ----------------------------
(***************************************************************************)
(* The two requests that report on one JobRun to the control plane: POST   *)
(* /status from its executor and POST /observed from the controller.  Each *)
(* handler projects the phase, reads the record back and brings the        *)
(* GitHub check run to what it read; the two run concurrently, and each of *)
(* their calls is a step.                                                  *)
(***************************************************************************)
EXTENDS RunModel, Sequences

VARIABLES
  status,  \* the durable status of the JobRun
  hat,     \* handler -> its next call
  hphase,  \* handler -> the phase of its request
  hview,   \* handler -> the status it has read back
  hfound,  \* handler -> the check run it has found: its index, 0 for none
  checks   \* GitHub's check runs with this JobRun's external ID, by creation

handlerVars == <<hat, hphase, hview, hfound>>
reportVars == <<status, checks, handlerVars>>

Handlers == {"status", "observed"}

ReportInit ==
  /\ status = "queued" /\ checks = <<>>
  /\ hat = [h \in Handlers |-> "idle"]
  /\ hphase = [h \in Handlers |-> "pending"]
  /\ hview = [h \in Handlers |-> "queued"]
  /\ hfound = [h \in Handlers |-> 0]

(***************************************************************************)
(* MapJobRun: what the check run shows, its status or, once completed, its *)
(* conclusion.                                                             *)
(***************************************************************************)
MapJobRun(s) ==
  CASE s = "queued" -> "queued"
    [] s \in {"dispatched", "running"} -> "in_progress"
    [] s = "succeeded" -> "success"
    [] s = "failed" -> "failure"
    [] s = "cancelled" -> "cancelled"
    [] s = "skipped" -> "skipped"

(***************************************************************************)
(* A request arrives.  One of each kind is under way at a time: the        *)
(* executor and the controller send one after the other.                   *)
(***************************************************************************)
Receive(h, phase) ==
  /\ hat[h] = "idle"
  /\ hat' = [hat EXCEPT ![h] = "project"] /\ hphase' = [hphase EXCEPT ![h] = phase]
  /\ UNCHANGED <<status, checks, hview, hfound>>

HandlerEnds(h) ==
  /\ hat' = [hat EXCEPT ![h] = "idle"] /\ hphase' = [hphase EXCEPT ![h] = "pending"]
  /\ hview' = [hview EXCEPT ![h] = "queued"] /\ hfound' = [hfound EXCEPT ![h] = 0]

(***************************************************************************)
(* projectObserved: the monotonic ApplyObserved of the store.              *)
(***************************************************************************)
projectObserved_Overwrites(h) ==
  /\ hat[h] = "project"
  /\ status' = IF PhaseChanges(hphase[h]) THEN JobStatusFromPhase(hphase[h]) ELSE status
  /\ hat' = [hat EXCEPT ![h] = "report"] /\ hphase' = [hphase EXCEPT ![h] = "pending"]
  /\ UNCHANGED <<checks, hview, hfound>>

projectObserved(h) ==
  LET to == JobStatusFromPhase(hphase[h])
  IN  /\ hat[h] = "project"
      /\ status' = IF PhaseChanges(hphase[h]) /\ CanAdvanceJob(status, to) THEN to ELSE status
      /\ hat' = [hat EXCEPT ![h] = "report"] /\ hphase' = [hphase EXCEPT ![h] = "pending"]
      /\ UNCHANGED <<checks, hview, hfound>>

projectFails(h) ==
  /\ hat[h] = "project"
  /\ HandlerEnds(h)
  /\ UNCHANGED <<status, checks>>

(***************************************************************************)
(* reportCheck reads the record; then Report lists the commit's check runs *)
(* and updates the first that matches or creates one.  An error of any of  *)
(* these is logged; the request has succeeded all the same.                *)
(***************************************************************************)
reportCheck(h) ==
  /\ hat[h] = "report"
  /\ hview' = [hview EXCEPT ![h] = status]
  /\ hat' = [hat EXCEPT ![h] = "list"]
  /\ UNCHANGED <<status, checks, hphase, hfound>>

findByExternalID(h) ==
  /\ hat[h] = "list"
  /\ hfound' = [hfound EXCEPT ![h] = IF checks = <<>> THEN 0 ELSE 1]
  /\ hat' = [hat EXCEPT ![h] = "write"]
  /\ UNCHANGED <<status, checks, hphase, hview>>

Report(h) ==
  /\ hat[h] = "write"
  /\ checks' = IF hfound[h] # 0
               THEN [checks EXCEPT ![hfound[h]] = MapJobRun(hview[h])]
               ELSE Append(checks, MapJobRun(hview[h]))
  /\ HandlerEnds(h)
  /\ UNCHANGED status

reportFails(h) ==
  /\ hat[h] \in {"report", "list", "write"}
  /\ HandlerEnds(h)
  /\ UNCHANGED <<status, checks>>

=============================================================================
