------------------------------ MODULE Process ------------------------------
(***************************************************************************)
(* What the process of a job's pod promises the rest of the system: it     *)
(* works on its plan, sends its verdict at most once or leaves without     *)
(* one, and exits with zero only after a verdict of success.  Module       *)
(* Executor has the program in detail and is checked to implement this;    *)
(* module Runtime puts this process into a pod.                            *)
(***************************************************************************)
VARIABLES
  proc,     \* "off", "working", "reporting", "leaving", "exited"
  stopped,  \* the context is done while the process works or reports
  verdict,  \* "none", "success", "failure"; cleared at the exit
  zero      \* the exit code is zero, once proc = "exited"

procVars == <<proc, stopped, verdict, zero>>

ProcInit == proc = "off" /\ stopped = FALSE /\ verdict = "none" /\ zero = FALSE

ProcStart == proc = "off" /\ proc' = "working" /\ UNCHANGED <<stopped, verdict, zero>>

(***************************************************************************)
(* SIGTERM, or the job's timeout.                                          *)
(***************************************************************************)
ContextDone ==
  /\ proc \in {"working", "reporting"} /\ ~stopped /\ stopped' = TRUE
  /\ UNCHANGED <<proc, verdict, zero>>

(***************************************************************************)
(* The job has an outcome to report; or there is none: no token, no plan,  *)
(* no secrets, no workspace.                                               *)
(***************************************************************************)
Decide(v) ==
  /\ proc = "working" /\ proc' = "reporting" /\ verdict' = v
  /\ UNCHANGED <<stopped, zero>>

GiveUp ==
  /\ proc = "working" /\ proc' = "leaving" /\ verdict' = "failure" /\ stopped' = FALSE
  /\ UNCHANGED zero

(***************************************************************************)
(* The one call of ReportJob has returned, with or without an error; on a  *)
(* context that is done it fails at once.                                  *)
(***************************************************************************)
ReportReturns ==
  /\ proc = "reporting" /\ proc' = "leaving" /\ stopped' = FALSE
  /\ UNCHANGED <<verdict, zero>>

ProcExit_Zero ==
  /\ proc = "leaving" /\ proc' = "exited" /\ zero' = TRUE /\ verdict' = "none"
  /\ UNCHANGED stopped

ProcExit ==
  /\ proc = "leaving" /\ proc' = "exited" /\ zero' = (verdict = "success") /\ verdict' = "none"
  /\ UNCHANGED stopped

(***************************************************************************)
(* SIGKILL, an eviction, a lost node.                                      *)
(***************************************************************************)
Kill ==
  /\ proc \in {"working", "reporting", "leaving"}
  /\ proc' = "exited" /\ zero' = FALSE /\ stopped' = FALSE /\ verdict' = "none"

ProcNext ==
  \/ ProcStart \/ ContextDone \/ GiveUp \/ ReportReturns \/ ProcExit \/ Kill
  \/ \E v \in {"success", "failure"} : Decide(v)

ProcSpec == ProcInit /\ [][ProcNext]_procVars

=============================================================================
