------------------------------ MODULE Executor ------------------------------
(***************************************************************************)
(* The executor's program (cmd/executor and internal/runtime/executor):    *)
(* one process that fetches its plan, runs the steps in order, reports     *)
(* once and exits.  A plan says whether its environment renders, whether   *)
(* it needs secrets, and its steps: their kind, their condition, whether   *)
(* they continue on error, and whether their inputs render.                *)
(*                                                                         *)
(* The engine only asks the expression package what a condition comes to   *)
(* in an environment.  That package is a parameter here, but for its       *)
(* comparisons; module Expression has it, and module MCExecutor puts the   *)
(* two together.                                                           *)
(***************************************************************************)
EXTENDS Comparison

CONSTANTS
  Plans,            \* the plans the control plane may hand out
  FetchAttempts,    \* attempts at fetching the plan: 10
  CondResult(_, _)  \* expression.EvaluateCondition(cond, env):
                    \* <<TRUE, whether it holds>> or <<FALSE, reason>>

HasSteps(p) == p.steps \in Seq({p.steps[i] : i \in DOMAIN p.steps})

ASSUME ExecutorAssumption == FetchAttempts \in Nat \ {0} /\ \A p \in Plans : HasSteps(p)

VARIABLES
  pc,        \* the program's next call; "off" before the start, "gone" after the exit
  plan,      \* the plan it has
  attempt,   \* attempts at fetching the plan so far
  step,      \* the step it is at
  results,   \* result.Steps; up to the current step also the states that
             \* conditions see
  outcome,   \* of the job: "", "success", "cancelled" or "failure"
  done,      \* the context is done: SIGTERM, or the timeout
  reports,   \* what ReportJob has been called with, in order
  code       \* the exit code

vars == <<pc, plan, attempt, step, results, outcome, done, reports, code>>

NoPlan == [envOk |-> TRUE, secrets |-> FALSE, steps |-> <<>>]

Init ==
  /\ pc = "off" /\ plan = NoPlan /\ attempt = 0 /\ step = 1
  /\ results = <<>> /\ outcome = ""
  /\ done = FALSE /\ reports = <<>> /\ code = -1

Steps == plan.steps

(***************************************************************************)
(* SIGTERM, or the end of the job's time, at any moment.                   *)
(***************************************************************************)
ContextDone ==
  /\ pc \notin {"off", "leave", "gone"} /\ ~done /\ done' = TRUE
  /\ UNCHANGED <<pc, plan, attempt, step, results, outcome, reports, code>>

Leave(o) ==
  /\ pc' = "leave" /\ outcome' = o
  /\ UNCHANGED <<plan, attempt, step, done, reports, code>>

-----------------------------------------------------------------------------
(***************************************************************************)
(* main: the token, and the plan with its retries.  A response that cannot *)
(* be retried, or a context that is done, ends the attempts.               *)
(***************************************************************************)
Start ==
  /\ pc = "off" /\ pc' = "token"
  /\ UNCHANGED <<plan, attempt, step, results, outcome, done, reports, code>>

ReadToken ==
  /\ pc = "token"
  /\ \/ pc' = "fetch" /\ UNCHANGED <<plan, attempt, step, results, outcome, done, reports, code>>
     \/ Leave("") /\ UNCHANGED results

FetchPlan ==
  /\ pc = "fetch" /\ ~done
  /\ \E p \in Plans : plan' = p
  /\ pc' = "env" /\ attempt' = 0
  /\ UNCHANGED <<step, results, outcome, done, reports, code>>

FetchFails_Forever ==
  /\ pc = "fetch"
  /\ \/ ~done /\ attempt' = (attempt + 1) % FetchAttempts /\ UNCHANGED <<pc, outcome>>
     \/ pc' = "leave" /\ UNCHANGED <<attempt, outcome>>
  /\ UNCHANGED <<plan, step, results, done, reports, code>>

FetchFails ==
  /\ pc = "fetch"
  /\ \/ /\ ~done /\ attempt + 1 < FetchAttempts
        /\ attempt' = attempt + 1 /\ UNCHANGED <<pc, outcome>>
     \/ pc' = "leave" /\ UNCHANGED <<attempt, outcome>>
  /\ UNCHANGED <<plan, step, results, done, reports, code>>

-----------------------------------------------------------------------------
(***************************************************************************)
(* Engine.Run before the steps.  An environment that does not render is    *)
(* reported, without steps; secrets that cannot be fetched and a workspace *)
(* that cannot be written are not reported.                                *)
(***************************************************************************)
Report(o, rs) ==
  /\ pc' = "report" /\ outcome' = o /\ results' = rs

JobEnv ==
  /\ pc = "env"
  /\ IF plan.envOk THEN pc' = "secrets" /\ UNCHANGED <<outcome, results>>
     ELSE Report("failure", <<>>)
  /\ UNCHANGED <<plan, attempt, step, done, reports, code>>

FetchSecrets ==
  /\ pc = "secrets"
  /\ \/ (~plan.secrets \/ ~done) /\ pc' = "step"
        /\ UNCHANGED <<plan, attempt, step, results, outcome, done, reports, code>>
     \/ Leave("") /\ UNCHANGED results  \* or the workspace's directory cannot be made

-----------------------------------------------------------------------------
(***************************************************************************)
(* The loop over the steps.                                                *)
(***************************************************************************)
Entry(i, out, concl) == [step |-> i, outcome |-> out, conclusion |-> concl]

SkippedFrom(from) == [k \in 1..(Len(Steps) - from + 1) |-> Entry(from + k - 1, "skipped", "skipped")]

failJob_Short(from, rs) == Report("failure", rs)

failJob(from, rs) == Report("failure", rs \o SkippedFrom(from))

CheckCancelled ==
  /\ pc = "step" /\ step <= Len(Steps) /\ done
  /\ Report("cancelled", results)
  /\ UNCHANGED <<plan, attempt, step, done, reports, code>>

PrepareFails ==
  /\ pc = "step" /\ step <= Len(Steps) /\ ~done
  /\ Leave("") /\ UNCHANGED results

(***************************************************************************)
(* exprEnv: the contexts a condition sees after the steps in states.       *)
(* There is no job status entry, so success() holds.                       *)
(***************************************************************************)
jobStatusFor(states) ==
  IF \E i \in DOMAIN states : states[i].outcome = "failure" /\ states[i].conclusion # "success"
  THEN "failure" ELSE "success"

stepContext(p, states) ==
  [id \in {p.steps[i].id : i \in DOMAIN states} |->
     LET same == {i \in DOMAIN states : p.steps[i].id = id}
         st   == states[CHOOSE i \in same : \A j \in same : j <= i]
     IN  ObjOf([outcome |-> StrOf(st.outcome), conclusion |-> StrOf(st.conclusion)])]

exprEnv(p, states) ==
  [steps |-> ObjOf(stepContext(p, states)),
   job   |-> ObjOf([status |-> StrOf(jobStatusFor(states))])]

Advance(entry) ==
  results' = Append(results, entry) /\ step' = step + 1 /\ pc' = "step"

EvalIf_ErrorSkips ==
  /\ pc = "step" /\ step <= Len(Steps) /\ ~done
  /\ IF CondResult(Steps[step].cond, exprEnv(plan, results)) = <<TRUE, TRUE>>
     THEN pc' = "resolve" /\ UNCHANGED <<step, results>>
     ELSE Advance(Entry(step, "skipped", "skipped"))
  /\ UNCHANGED <<plan, attempt, outcome, done, reports, code>>

EvalIf ==
  LET c == CondResult(Steps[step].cond, exprEnv(plan, results))
  IN  /\ pc = "step" /\ step <= Len(Steps) /\ ~done
      /\ IF ~Ok(c) THEN failJob(step, results) /\ UNCHANGED step
         ELSE IF c[2] THEN pc' = "resolve" /\ UNCHANGED <<step, results, outcome>>
         ELSE Advance(Entry(step, "skipped", "skipped")) /\ UNCHANGED outcome
      /\ UNCHANGED <<plan, attempt, done, reports, code>>

(***************************************************************************)
(* Inputs, script and step environment are rendered; a builtin is looked   *)
(* up.  A composite step has been expanded before and does nothing.        *)
(***************************************************************************)
Resolve ==
  /\ pc = "resolve"
  /\ IF Steps[step].kind = "composite"
     THEN Advance(Entry(step, "success", "success")) /\ UNCHANGED outcome
     ELSE IF ~Steps[step].renders THEN failJob(step, results) /\ UNCHANGED step
     ELSE pc' = "run" /\ UNCHANGED <<step, results, outcome>>
  /\ UNCHANGED <<plan, attempt, done, reports, code>>

(***************************************************************************)
(* How a step ends.  A script on a context that is done is cancelled, even *)
(* if it succeeded; JavaScript that is interrupted fails; a builtin passes *)
(* on what the call it was in makes of the context.                        *)
(***************************************************************************)
Endings(kind) ==
  CASE kind = "run" -> {"failure"} \cup (IF done THEN {"cancelled"} ELSE {"success"})
    [] kind = "js"  -> {"success", "failure"}
    [] OTHER        -> {"success", "failure"} \cup (IF done THEN {"cancelled"} ELSE {})

Conclude_GoesOn(ending) ==
  /\ Advance(Entry(step, ending, ending))
  /\ UNCHANGED outcome

Conclude(ending) ==
  IF ending = "success" THEN Advance(Entry(step, "success", "success")) /\ UNCHANGED outcome
  ELSE IF ending = "cancelled" THEN Report("cancelled", results) /\ UNCHANGED step
  ELSE IF Steps[step].continueOnError
  THEN Advance(Entry(step, "failure", "success")) /\ UNCHANGED outcome
  ELSE failJob(step + 1, Append(results, Entry(step, "failure", "failure"))) /\ UNCHANGED step

RunStep ==
  /\ pc = "run"
  /\ \E ending \in Endings(Steps[step].kind) : Conclude(ending)
  /\ UNCHANGED <<plan, attempt, done, reports, code>>

AllSteps ==
  /\ pc = "step" /\ step > Len(Steps)
  /\ Report("success", results)
  /\ UNCHANGED <<plan, attempt, step, done, reports, code>>

-----------------------------------------------------------------------------
(***************************************************************************)
(* report, whose error is only logged, and the exit.                       *)
(***************************************************************************)
ReportJob_Again ==
  /\ pc = "report"
  /\ reports' = Append(reports, [outcome |-> outcome, steps |-> results])
  /\ pc' = IF Len(reports) = 0 THEN "step" ELSE "leave"
  /\ UNCHANGED <<plan, attempt, step, results, outcome, done, code>>

ReportJob ==
  /\ pc = "report"
  /\ reports' = Append(reports, [outcome |-> outcome, steps |-> results])
  /\ pc' = "leave"
  /\ UNCHANGED <<plan, attempt, step, results, outcome, done, code>>

Exit ==
  /\ pc = "leave" /\ pc' = "gone"
  /\ code' = CASE outcome = "success" -> 0 [] outcome = "cancelled" -> 130 [] OTHER -> 1
  /\ UNCHANGED <<plan, attempt, step, results, outcome, done, reports>>

Killed ==
  /\ pc \notin {"off", "gone"} /\ pc' = "gone" /\ code' = 137
  /\ UNCHANGED <<plan, attempt, step, results, outcome, done, reports>>

Program ==
  \/ Start \/ ReadToken \/ FetchPlan \/ FetchFails \/ JobEnv \/ FetchSecrets
  \/ CheckCancelled \/ PrepareFails \/ EvalIf \/ Resolve \/ RunStep \/ AllSteps
  \/ ReportJob \/ Exit

Next == Program \/ ContextDone \/ Killed

(***************************************************************************)
(* The program runs; every call of it returns (a step at the latest when   *)
(* the context's deadline has passed and the grace period with it).        *)
(***************************************************************************)
Spec == Init /\ [][Next]_vars /\ WF_vars(Program)

-----------------------------------------------------------------------------
(***************************************************************************)
(* A report accounts for the plan: its entries are those of the first      *)
(* steps in order, and of all of them unless the job was cancelled or its  *)
(* environment did not render, whichever of the loop's exits was taken     *)
(* (failJob's "remaining steps as skipped").                               *)
(***************************************************************************)
StepAccounting ==
  \A k \in DOMAIN reports :
    LET r == reports[k]
    IN  /\ \A i \in DOMAIN r.steps : r.steps[i].step = i
        /\ r.outcome # "cancelled" /\ plan.envOk => Len(r.steps) = Len(Steps)

(***************************************************************************)
(* The verdict of a report agrees with its entries: after a step that      *)
(* failed without continue-on-error nothing runs and the job has failed;   *)
(* success means that every step succeeded, was skipped or may fail;       *)
(* cancelled means that the context was done.                              *)
(***************************************************************************)
VerdictAgrees ==
  \A k \in DOMAIN reports :
    LET r == reports[k]
    IN  /\ \A i, j \in DOMAIN r.steps :
             i < j /\ r.steps[i].conclusion = "failure" => r.steps[j].outcome = "skipped"
        /\ r.outcome = "success" => \A i \in DOMAIN r.steps :
             r.steps[i].conclusion \in {"success", "skipped"}
        /\ r.outcome = "cancelled" => done

(***************************************************************************)
(* The steps of a job that succeeds ran exactly when their conditions held *)
(* for the outcomes of the steps before them: a condition that could not   *)
(* be evaluated neither ran nor skipped its step ("Errors are never        *)
(* silently converted to false").                                          *)
(***************************************************************************)
ConditionsHonoured ==
  pc = "leave" /\ outcome = "success" =>
    \A i \in DOMAIN results :
      LET c == CondResult(Steps[i].cond, exprEnv(plan, SubSeq(results, 1, i - 1)))
      IN  Ok(c) /\ (c[2] <=> results[i].outcome # "skipped")

(***************************************************************************)
(* The comparisons of the expressions are coherent however their operands  *)
(* are coerced: turning one round keeps its answer, and of two values that *)
(* compare, neither NaN, exactly one of <, == and > holds, with <= and >=  *)
(* the disjunctions they name.  They do not depend on the state: one of    *)
(* them is enough.                                                         *)
(***************************************************************************)
ComparisonsAgree == pc = "off" => \A l, r \in Operands : Agree(l, r)

(***************************************************************************)
(* The program implements what its pod relies on: one verdict at most, and *)
(* an exit code of zero only with a verdict of success.                    *)
(***************************************************************************)
procNow ==
  CASE pc = "off"    -> "off"
    [] pc = "report" -> "reporting"
    [] pc = "leave"  -> "leaving"
    [] pc = "gone"   -> "exited"
    [] OTHER         -> "working"

verdictNow ==
  IF pc \notin {"report", "leave"} THEN "none"
  ELSE IF outcome = "success" THEN "success" ELSE "failure"

P == INSTANCE Process WITH
       proc <- procNow, verdict <- verdictNow,
       stopped <- (done /\ procNow \in {"working", "reporting"}),
       zero <- (pc = "gone" /\ code = 0)

ImplementsProcess == P!ProcSpec

(***************************************************************************)
(* A process that has started exits: the attempts at the plan and the loop *)
(* over the steps end, whatever fails.                                     *)
(***************************************************************************)
Exits == pc = "token" ~> pc = "gone"

=============================================================================
