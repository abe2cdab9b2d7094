--------------------------- MODULE Executor_proof ---------------------------
(***************************************************************************)
(* Proofs about the executor's program, for every set of plans and every   *)
(* expression engine: what it reports accounts for its plan, agrees with   *)
(* its entries and with the conditions, and the program implements the     *)
(* process that its pod relies on; and about the comparisons that          *)
(* conditions are made of, for every set of operands.                      *)
(***************************************************************************)
EXTENDS Executor, SequenceTheorems, TLAPS

-----------------------------------------------------------------------------
(***************************************************************************)
(* The inductive invariant.                                                *)
(***************************************************************************)
Before == {"off", "token", "fetch", "env", "secrets"}
Loop == {"step", "resolve", "run"}

StepEntry == [step : Nat, outcome : {"success", "failure", "skipped"},
              conclusion : {"success", "failure", "skipped"}]

(* Entries of the first steps, in order.                                   *)
Numbered(rs) == \A i \in DOMAIN rs : rs[i].step = i

(* No step failed for the job.                                             *)
Clean(rs) == \A i \in DOMAIN rs : rs[i].conclusion # "failure"

(* The conditions of the first steps of plan p were honoured.              *)
Holds(p, i, rs) == CondResult(p.steps[i].cond, exprEnv(p, rs))

Honoured(p, rs) ==
  \A i \in DOMAIN rs :
    LET c == Holds(p, i, SubSeq(rs, 1, i - 1))
    IN  Ok(c) /\ (c[2] <=> rs[i].outcome # "skipped")

(* What a report of outcome o with the entries rs says of plan p.          *)
Sound(p, o, rs) ==
  /\ Numbered(rs)
  /\ o # "cancelled" /\ p.envOk => Len(rs) = Len(p.steps)
  /\ \A i, j \in DOMAIN rs : i < j /\ rs[i].conclusion = "failure" => rs[j].outcome = "skipped"
  /\ o = "success" => Clean(rs)

Outcomes == {"", "success", "cancelled", "failure"}

Reported == [outcome : Outcomes, steps : Seq(StepEntry)]

TypeInv ==
  /\ pc \in Before \cup Loop \cup {"report", "leave", "gone"}
  /\ HasSteps(plan)
  /\ step \in Nat \ {0}
  /\ results \in Seq(StepEntry)
  /\ outcome \in Outcomes
  /\ done \in BOOLEAN
  /\ reports \in Seq(Reported)

(* While the steps run, the first ones have entries and none failed.       *)
LoopInv ==
  /\ plan.envOk /\ outcome = "" /\ reports = <<>>
  /\ Len(results) = step - 1 /\ step <= Len(Steps) + 1
  /\ Numbered(results) /\ Clean(results) /\ Honoured(plan, results)

PhaseInv ==
  /\ pc = "off" => ~done
  /\ pc \in Before => step = 1 /\ results = <<>> /\ outcome = "" /\ reports = <<>>
  /\ pc = "secrets" => plan.envOk
  /\ pc \in Loop => LoopInv
  /\ pc \in {"resolve", "run"} =>
       LET c == Holds(plan, step, results) IN step <= Len(Steps) /\ Ok(c) /\ c[2]
  /\ pc = "report" => Sound(plan, outcome, results) /\ reports = <<>>
  /\ pc = "report" /\ outcome = "cancelled" => done
  /\ pc \in {"report", "leave"} /\ outcome = "success" => Honoured(plan, results)

ReportInv ==
  \A k \in DOMAIN reports :
    /\ Sound(plan, reports[k].outcome, reports[k].steps)
    /\ reports[k].outcome = "cancelled" => done

ExecInv == TypeInv /\ PhaseInv /\ ReportInv

-----------------------------------------------------------------------------
(***************************************************************************)
(* The empty sequence.                                                     *)
(***************************************************************************)
LEMMA NoEntries ==
  ASSUME NEW s, s = <<>>
  PROVE  DOMAIN s = {} /\ Len(s) = 0 /\ \A S : s \in Seq(S)
<1>1. \A S : s \in Seq(S) /\ Len(s) = 0
  BY Zenon, EmptySeq
<1>2. DOMAIN s = 1..0
  BY Zenon, <1>1, LenProperties
<1> QED
  BY <1>1, <1>2

LEMMA PlanLength ==
  ASSUME HasSteps(plan)
  PROVE  Len(Steps) \in Nat
BY Zenon, LenProperties DEF HasSteps, Steps

(***************************************************************************)
(* An entry for the next step keeps the entries numbered and clean.        *)
(***************************************************************************)
LEMMA EntryAppended ==
  ASSUME NEW rs \in Seq(StepEntry), NEW e \in StepEntry, e.step = Len(rs) + 1, Numbered(rs)
  PROVE  /\ Append(rs, e) \in Seq(StepEntry) /\ Len(Append(rs, e)) = Len(rs) + 1
         /\ Numbered(Append(rs, e))
         /\ Clean(rs) /\ e.conclusion # "failure" => Clean(Append(rs, e))
<1>1. /\ Append(rs, e) \in Seq(StepEntry) /\ Len(Append(rs, e)) = Len(rs) + 1
      /\ DOMAIN Append(rs, e) = 1..(Len(rs) + 1) /\ DOMAIN rs = 1..Len(rs) /\ Len(rs) \in Nat
  OBVIOUS
<1>2. \A i \in 1..(Len(rs) + 1) : Append(rs, e)[i] = IF i = Len(rs) + 1 THEN e ELSE rs[i]
  OBVIOUS
<1> QED
  BY <1>1, <1>2 DEF Numbered, Clean

(***************************************************************************)
(* What the conditions of the earlier steps saw is not changed by a new    *)
(* entry, and the condition of its own step saw all of the entries before. *)
(***************************************************************************)
LEMMA HonouredAppended ==
  ASSUME NEW p, NEW rs \in Seq(StepEntry), NEW e \in StepEntry, Honoured(p, rs),
         Ok(Holds(p, Len(rs) + 1, rs)),
         Holds(p, Len(rs) + 1, rs)[2] <=> e.outcome # "skipped"
  PROVE  Honoured(p, Append(rs, e))
<1>1. /\ DOMAIN Append(rs, e) = 1..(Len(rs) + 1) /\ DOMAIN rs = 1..Len(rs) /\ Len(rs) \in Nat
  OBVIOUS
<1>2. SubSeq(Append(rs, e), 1, Len(rs)) = rs
  OBVIOUS
<1>3. \A i \in 1..Len(rs) : SubSeq(Append(rs, e), 1, i - 1) = SubSeq(rs, 1, i - 1)
  OBVIOUS
<1>4. \A i \in 1..(Len(rs) + 1) : Append(rs, e)[i] = IF i = Len(rs) + 1 THEN e ELSE rs[i]
  OBVIOUS
<1>5. SUFFICES ASSUME NEW i \in DOMAIN Append(rs, e)
               PROVE  LET c == Holds(p, i, SubSeq(Append(rs, e), 1, i - 1))
                      IN  Ok(c) /\ (c[2] <=> Append(rs, e)[i].outcome # "skipped")
  BY Zenon DEF Honoured
<1>6. CASE i = Len(rs) + 1
  <2>1. i - 1 = Len(rs)
    BY <1>1, <1>6
  <2> QED
    BY Zenon, <1>1, <1>2, <1>4, <1>6, <2>1
<1>7. CASE i \in 1..Len(rs)
  <2>1. i # Len(rs) + 1
    BY <1>1, <1>7
  <2> QED
    BY Zenon, <1>1, <1>3, <1>4, <1>7, <2>1 DEF Honoured
<1> QED
  BY <1>1, <1>6, <1>7

(***************************************************************************)
(* Numbered entries, of which at most the last failed, followed by skipped *)
(* entries for the steps after them.                                       *)
(***************************************************************************)
LEMMA Padded ==
  ASSUME NEW rs \in Seq(StepEntry), NEW m \in Nat, NEW sk \in [1..m -> StepEntry], Numbered(rs),
         \A i \in DOMAIN rs : i < Len(rs) => rs[i].conclusion # "failure",
         \A k \in 1..m : sk[k].step = Len(rs) + k /\ sk[k].outcome = "skipped"
  PROVE  /\ rs \o sk \in Seq(StepEntry) /\ Len(rs \o sk) = Len(rs) + m /\ Numbered(rs \o sk)
         /\ \A i, j \in DOMAIN (rs \o sk) :
              i < j /\ (rs \o sk)[i].conclusion = "failure" => (rs \o sk)[j].outcome = "skipped"
<1>1. sk \in Seq(StepEntry) /\ Len(sk) = m
  OBVIOUS
<1>2. /\ rs \o sk \in Seq(StepEntry) /\ Len(rs \o sk) = Len(rs) + m
      /\ DOMAIN (rs \o sk) = 1..(Len(rs) + m) /\ DOMAIN rs = 1..Len(rs) /\ Len(rs) \in Nat
  <2>1. rs \o sk \in Seq(StepEntry) /\ Len(rs \o sk) = Len(rs) + m
    BY Zenon, <1>1, ConcatProperties
  <2> QED
    BY Zenon, <2>1, LenProperties
<1>3. \A i \in 1..Len(rs) : (rs \o sk)[i] = rs[i]
  BY <1>1
<1>4. ASSUME NEW i \in 1..(Len(rs) + m), i > Len(rs)
      PROVE  (rs \o sk)[i].step = i /\ (rs \o sk)[i].outcome = "skipped"
  <2>1. i - Len(rs) \in 1..m /\ Len(rs) + (i - Len(rs)) = i
    BY <1>2, <1>4
  <2>2. (rs \o sk)[i] = sk[i - Len(rs)]
    BY <1>1, <1>4
  <2> QED
    BY Zenon, <2>1, <2>2
<1>5. Numbered(rs \o sk)
  <2> SUFFICES ASSUME NEW i \in 1..(Len(rs) + m) PROVE (rs \o sk)[i].step = i
    BY Zenon, <1>2 DEF Numbered
  <2>1. CASE i \in 1..Len(rs)
    BY Zenon, <1>2, <1>3, <2>1 DEF Numbered
  <2>2. CASE i > Len(rs)
    BY Zenon, <1>4, <2>2
  <2> QED
    BY <1>2, <2>1, <2>2
<1>6. ASSUME NEW i \in 1..(Len(rs) + m), NEW j \in 1..(Len(rs) + m), i < j,
             (rs \o sk)[i].conclusion = "failure"
      PROVE  (rs \o sk)[j].outcome = "skipped"
  <2>1. j > Len(rs)
    <3> SUFFICES ASSUME ~(j > Len(rs)) PROVE FALSE
      BY Zenon
    <3>1. i \in 1..Len(rs) /\ i < Len(rs)
      BY <1>2, <1>6
    <3> QED
      BY Zenon, <1>2, <1>3, <1>6, <3>1
  <2> QED
    BY Zenon, <1>4, <2>1
<1> QED
  BY Zenon, <1>2, <1>5, <1>6

(***************************************************************************)
(* failJob: with the steps from `from` on entered as skipped, the entries  *)
(* are those of the whole plan, and nothing ran after a failure.           *)
(***************************************************************************)
LEMMA FailedSound ==
  ASSUME NEW rs \in Seq(StepEntry), NEW from \in Nat,
         HasSteps(plan),
         Len(rs) = from - 1, from <= Len(Steps) + 1, Numbered(rs),
         \A i \in DOMAIN rs : i < Len(rs) => rs[i].conclusion # "failure"
  PROVE  /\ rs \o SkippedFrom(from) \in Seq(StepEntry)
         /\ Sound(plan, "failure", rs \o SkippedFrom(from))
<1>1. PICK m : m = Len(Steps) - from + 1
  BY Zenon
<1>2. PICK sk : sk = SkippedFrom(from)
  BY Zenon
<1>3. m \in Nat /\ Len(rs) \in Nat /\ Len(rs) + m = Len(Steps)
  BY <1>1, PlanLength
<1>4. sk = [k \in 1..m |-> Entry(from + k - 1, "skipped", "skipped")]
  BY Zenon, <1>1, <1>2 DEF SkippedFrom
<1>5. \A k \in 1..m : Entry(from + k - 1, "skipped", "skipped") \in StepEntry /\ from + k - 1 = Len(rs) + k
  BY <1>3 DEF Entry, StepEntry
<1>6. sk \in [1..m -> StepEntry] /\ \A k \in 1..m : sk[k].step = Len(rs) + k /\ sk[k].outcome = "skipped"
  BY Zenon, <1>4, <1>5 DEF Entry
<1>7. /\ rs \o sk \in Seq(StepEntry) /\ Len(rs \o sk) = Len(rs) + m /\ Numbered(rs \o sk)
      /\ \A i, j \in DOMAIN (rs \o sk) :
           i < j /\ (rs \o sk)[i].conclusion = "failure" => (rs \o sk)[j].outcome = "skipped"
  BY Zenon, <1>3, <1>6, Padded
<1>8. Sound(plan, "failure", rs \o sk)
  BY Zenon, <1>3, <1>7 DEF Sound, Steps
<1> QED
  BY Zenon, <1>2, <1>7, <1>8

-----------------------------------------------------------------------------
(***************************************************************************)
(* Steps that leave the plan and the reports alone keep what was reported. *)
(***************************************************************************)
LEMMA ReportsKept ==
  ASSUME ReportInv, plan' = plan, reports' = reports, done => done'
  PROVE  ReportInv'
BY Zenon DEF ReportInv

(***************************************************************************)
(* The steps of the program keep the invariant.  Those before the loop do  *)
(* it because there are no entries and no report yet.                      *)
(***************************************************************************)
LEMMA InitInv == Init => ExecInv
<1> SUFFICES ASSUME Init PROVE ExecInv
  BY Zenon
<1>1. DOMAIN reports = {} /\ HasSteps(plan) /\ results \in Seq(StepEntry) /\ reports \in Seq(Reported)
  <2>1. plan.steps = <<>>
    BY Zenon DEF Init, NoPlan
  <2> QED
    BY Zenon, <2>1, NoEntries DEF Init, HasSteps
<1>2. TypeInv
  <2>1. pc \in Before /\ outcome \in Outcomes
    BY Zenon DEF Init, Before, Outcomes
  <2>2. done \in BOOLEAN
    BY Zenon DEF Init
  <2>3. step \in Nat \ {0}
    <3>1. step = 1
      BY Zenon DEF Init
    <3> QED
      BY <3>1
  <2> QED
    BY Zenon, <1>1, <2>1, <2>2, <2>3 DEF TypeInv
<1> QED
  BY Zenon, <1>1, <1>2 DEF Init, ExecInv, PhaseInv, ReportInv, Loop

LEMMA BeforeLoop ==
  ASSUME ExecInv, Start \/ ReadToken \/ FetchFails
  PROVE  ExecInv'
<1>1. TypeInv'
  BY Zenon DEF ExecInv, TypeInv, Start, ReadToken, FetchFails, Leave, Before, Steps, Outcomes
<1>2. PhaseInv'
  BY Zenon DEF ExecInv, PhaseInv, Start, ReadToken, FetchFails, Leave, Before, Loop
<1>3. ReportInv'
  <2>1. plan' = plan /\ reports' = reports /\ done' = done
    BY Zenon DEF Start, ReadToken, FetchFails, Leave
  <2> QED
    BY Zenon, <2>1, ReportsKept DEF ExecInv
<1> QED
  BY Zenon, <1>1, <1>2, <1>3 DEF ExecInv

LEMMA PlanFetched ==
  ASSUME ExecInv, FetchPlan
  PROVE  ExecInv'
<1>1. PICK p \in Plans : plan' = p
  BY Zenon DEF FetchPlan
<1>2. TypeInv'
  BY Zenon, <1>1, ExecutorAssumption DEF ExecInv, TypeInv, FetchPlan, Before
<1>3. reports = <<>> /\ DOMAIN reports = {} /\ reports' = reports
  BY Zenon, NoEntries DEF ExecInv, PhaseInv, FetchPlan, Before
<1>4. PhaseInv'
  BY Zenon, <1>3 DEF ExecInv, PhaseInv, FetchPlan, Before, Loop
<1> QED
  BY Zenon, <1>2, <1>3, <1>4 DEF ExecInv, ReportInv

LEMMA JobPrepared ==
  ASSUME ExecInv, JobEnv \/ FetchSecrets
  PROVE  ExecInv'
<1>1. TypeInv'
  <2>1. \A S : <<>> \in Seq(S)
    BY Zenon, NoEntries
  <2> QED
    BY Zenon, <2>1 DEF ExecInv, TypeInv, JobEnv, FetchSecrets, Leave, Report, Before, Loop, Outcomes
<1>2. results = <<>> /\ DOMAIN results = {} /\ Len(results) = 0 /\ step = 1 /\ outcome = "" /\ reports = <<>>
  BY Zenon, NoEntries DEF ExecInv, PhaseInv, JobEnv, FetchSecrets, Before
<1>3. PhaseInv'
  <2>1. CASE JobEnv
    <3>1. CASE plan.envOk
      BY Zenon, <2>1, <3>1, <1>2 DEF JobEnv, PhaseInv, Before, Loop
    <3>2. CASE ~plan.envOk
      BY Zenon, <2>1, <3>2, <1>2 DEF JobEnv, PhaseInv, Before, Loop, Report, Sound, Numbered, Clean
    <3> QED
      BY Zenon, <3>1, <3>2
  <2>2. CASE FetchSecrets
    <3>1. CASE pc' = "leave"
      BY Zenon, <2>2, <3>1, <1>2 DEF FetchSecrets, Leave, PhaseInv, Before, Loop
    <3>2. CASE pc' = "step"
      <4>1. plan.envOk /\ UNCHANGED <<plan, attempt, step, results, outcome, done, reports, code>>
        BY Zenon, <2>2, <3>2 DEF FetchSecrets, Leave, ExecInv, PhaseInv
      <4>2. Len(Steps) \in Nat
        BY Zenon, PlanLength DEF ExecInv, TypeInv
      <4>3. LoopInv'
        <5>1. Numbered(results)' /\ Clean(results)' /\ Honoured(plan, results)'
          BY Zenon, <1>2, <4>1 DEF Numbered, Clean, Honoured
        <5>2. (Len(results) = step - 1)' /\ (step <= Len(Steps) + 1)'
          <6>1. Len(results') = 0 /\ step' = 1 /\ Len(Steps') \in Nat
            BY Zenon, <1>2, <4>1, <4>2 DEF Steps
          <6> QED
            BY <6>1
        <5> QED
          BY Zenon, <1>2, <4>1, <5>1, <5>2 DEF LoopInv
      <4> QED
        BY Zenon, <1>2, <3>2, <4>1, <4>3 DEF PhaseInv, Before, Loop
    <3> QED
      BY Zenon, <2>2, <3>1, <3>2 DEF FetchSecrets, Leave
  <2> QED
    BY Zenon, <2>1, <2>2
<1>4. ReportInv'
  <2>1. plan' = plan /\ reports' = reports /\ done' = done
    BY Zenon DEF JobEnv, FetchSecrets, Leave
  <2> QED
    BY Zenon, <2>1, ReportsKept DEF ExecInv
<1> QED
  BY Zenon, <1>1, <1>3, <1>4 DEF ExecInv

-----------------------------------------------------------------------------
(***************************************************************************)
(* In the loop.  Advance, with an entry for the current step that honours  *)
(* its condition and is not a failure, goes on with the next step.         *)
(***************************************************************************)
LEMMA Advanced ==
  ASSUME ExecInv, pc \in Loop, step <= Len(Steps), NEW out, NEW concl,
         Entry(step, out, concl) \in StepEntry, concl # "failure",
         Ok(Holds(plan, step, results)), Holds(plan, step, results)[2] <=> out # "skipped",
         Advance(Entry(step, out, concl)),
         UNCHANGED <<plan, outcome, done, reports>>
  PROVE  ExecInv'
<1>1. PICK e : e = Entry(step, out, concl)
  BY Zenon
<1>2. e \in StepEntry /\ e.step = step /\ e.outcome = out /\ e.conclusion = concl
  BY Zenon, <1>1 DEF Entry
<1>3. results' = Append(results, e) /\ step' = step + 1 /\ pc' = "step"
  BY Zenon, <1>1 DEF Advance
<1>4. /\ results \in Seq(StepEntry) /\ step \in Nat /\ Len(Steps) \in Nat
      /\ Len(results) = step - 1 /\ Numbered(results) /\ Clean(results) /\ Honoured(plan, results)
  BY Zenon, PlanLength DEF ExecInv, TypeInv, PhaseInv, LoopInv
<1>5. Len(results) + 1 = step
  BY <1>4
<1>6. /\ Append(results, e) \in Seq(StepEntry) /\ Len(Append(results, e)) = Len(results) + 1
      /\ Numbered(Append(results, e)) /\ Clean(Append(results, e))
  BY Zenon, <1>2, <1>4, <1>5, EntryAppended
<1>7. Honoured(plan, Append(results, e))
  BY Zenon, <1>2, <1>4, <1>5, HonouredAppended
<1>8. LoopInv'
  <2>1. Steps' = Steps /\ (Len(results) = step - 1)' /\ (step <= Len(Steps) + 1)'
    BY <1>3, <1>4, <1>5, <1>6 DEF Steps
  <2>2. plan.envOk' /\ (outcome = "")' /\ (reports = <<>>)'
    BY Zenon DEF ExecInv, PhaseInv, LoopInv
  <2>3. Numbered(results)' /\ Clean(results)' /\ Honoured(plan, results)'
    BY Zenon, <1>3, <1>6, <1>7
  <2> QED
    BY Zenon, <2>1, <2>2, <2>3 DEF LoopInv
<1>9. TypeInv'
  BY <1>3, <1>4, <1>6 DEF ExecInv, TypeInv, Loop
<1>10. PhaseInv'
  BY Zenon, <1>3, <1>8 DEF PhaseInv, Before, Loop
<1>11. ReportInv'
  BY Zenon, ReportsKept DEF ExecInv
<1> QED
  BY Zenon, <1>9, <1>10, <1>11 DEF ExecInv

(***************************************************************************)
(* The engine decides on a verdict: what it is about to report is sound.   *)
(***************************************************************************)
LEMMA Decided ==
  ASSUME ExecInv, pc \in Loop, NEW o \in Outcomes, NEW rs \in Seq(StepEntry), Report(o, rs),
         Sound(plan, o, rs), o = "cancelled" => done, o = "success" => Honoured(plan, rs),
         UNCHANGED <<plan, step, done, reports>>
  PROVE  ExecInv'
<1>1. pc' = "report" /\ outcome' = o /\ results' = rs
  BY Zenon DEF Report
<1>2. TypeInv'
  BY Zenon, <1>1 DEF ExecInv, TypeInv
<1>3. reports' = <<>>
  BY Zenon DEF ExecInv, PhaseInv, LoopInv
<1>4. PhaseInv'
  BY Zenon, <1>1, <1>3 DEF PhaseInv, Before, Loop
<1>5. ReportInv'
  BY Zenon, ReportsKept DEF ExecInv
<1> QED
  BY Zenon, <1>2, <1>4, <1>5 DEF ExecInv

(***************************************************************************)
(* The actions of the loop.                                                *)
(***************************************************************************)
LEMMA LoopFacts ==
  ASSUME ExecInv, pc \in Loop
  PROVE  /\ results \in Seq(StepEntry) /\ step \in Nat /\ Len(Steps) \in Nat /\ HasSteps(plan)
         /\ LoopInv /\ Len(results) = step - 1 /\ DOMAIN results = 1..Len(results)
BY Zenon, PlanLength, LenProperties DEF ExecInv, TypeInv, PhaseInv, LoopInv

LEMMA StepCancelled ==
  ASSUME ExecInv, pc \in Loop, done, Report("cancelled", results),
         UNCHANGED <<plan, step, done, reports>>
  PROVE  ExecInv'
<1>1. results \in Seq(StepEntry) /\ Numbered(results) /\ Clean(results)
  BY Zenon, LoopFacts DEF LoopInv
<1>2. Sound(plan, "cancelled", results)
  BY Zenon, <1>1 DEF Sound, Clean
<1> QED
  BY Zenon, <1>1, <1>2, Decided DEF Outcomes

LEMMA StepFailed ==
  ASSUME ExecInv, pc \in Loop, NEW rs \in Seq(StepEntry), NEW from \in Nat,
         failJob(from, rs), Len(rs) = from - 1, from <= Len(Steps) + 1, Numbered(rs),
         \A i \in DOMAIN rs : i < Len(rs) => rs[i].conclusion # "failure",
         UNCHANGED <<plan, step, done, reports>>
  PROVE  ExecInv'
<1>1. PICK all : all = rs \o SkippedFrom(from)
  BY Zenon
<1>2. all \in Seq(StepEntry) /\ Sound(plan, "failure", all)
  BY Zenon, <1>1, FailedSound, LoopFacts
<1>3. Report("failure", all)
  BY Zenon, <1>1 DEF failJob
<1> QED
  BY Zenon, <1>2, <1>3, Decided DEF Outcomes

LEMMA LoopLeft ==
  ASSUME ExecInv, PrepareFails
  PROVE  ExecInv'
<1>1. TypeInv'
  BY Zenon DEF ExecInv, TypeInv, PrepareFails, Leave, Outcomes
<1>2. PhaseInv'
  BY Zenon DEF PhaseInv, PrepareFails, Leave, Before, Loop
<1>3. ReportInv'
  <2>1. plan' = plan /\ reports' = reports /\ done' = done
    BY Zenon DEF PrepareFails, Leave
  <2> QED
    BY Zenon, <2>1, ReportsKept DEF ExecInv
<1> QED
  BY Zenon, <1>1, <1>2, <1>3 DEF ExecInv

(***************************************************************************)
(* A condition that holds lets its step be resolved, one that does not     *)
(* enters it as skipped, and one that is an error fails the job.           *)
(***************************************************************************)
LEMMA ConditionEvaluated ==
  ASSUME ExecInv, EvalIf
  PROVE  ExecInv'
<1>1. pc = "step" /\ step <= Len(Steps) /\ pc \in Loop /\ UNCHANGED <<plan, done, reports>>
  BY Zenon DEF EvalIf, Loop
<1>2. PICK c : c = Holds(plan, step, results)
  BY Zenon
<1>3. /\ ~Ok(c) => failJob(step, results) /\ step' = step
      /\ Ok(c) /\ c[2] => pc' = "resolve" /\ UNCHANGED <<step, results, outcome>>
      /\ Ok(c) /\ ~c[2] => Advance(Entry(step, "skipped", "skipped")) /\ outcome' = outcome
  BY Zenon, <1>2 DEF EvalIf, Holds, Steps
<1>4. CASE ~Ok(c)
  <2>1. Len(results) = step - 1 /\ step <= Len(Steps) + 1 /\ Numbered(results) /\ Clean(results)
    BY Zenon, <1>1, LoopFacts DEF LoopInv
  <2>2. results \in Seq(StepEntry) /\ step \in Nat
    BY Zenon, <1>1, LoopFacts
  <2> QED
    BY Zenon, <1>1, <1>3, <1>4, <2>1, <2>2, StepFailed DEF Clean
<1>5. CASE Ok(c) /\ c[2]
  <2>1. pc' = "resolve" /\ UNCHANGED <<plan, step, results, outcome, done, reports>>
    BY Zenon, <1>1, <1>3, <1>5
  <2>2. TypeInv'
    BY Zenon, <2>1 DEF ExecInv, TypeInv, Loop
  <2>3. LoopInv'
    BY Zenon, <1>1, <2>1, LoopFacts DEF LoopInv, Steps
  <2>4. PhaseInv'
    BY Zenon, <1>1, <1>2, <1>5, <2>1, <2>3 DEF PhaseInv, Before, Loop, Steps
  <2>5. ReportInv'
    BY Zenon, <2>1, ReportsKept DEF ExecInv
  <2> QED
    BY Zenon, <2>2, <2>4, <2>5 DEF ExecInv
<1>6. CASE Ok(c) /\ ~c[2]
  <2>1. Entry(step, "skipped", "skipped") \in StepEntry
    BY Zenon, <1>1, LoopFacts DEF Entry, StepEntry
  <2> QED
    BY Zenon, <1>1, <1>2, <1>3, <1>6, <2>1, Advanced
<1> QED
  BY Zenon, <1>4, <1>5, <1>6

(***************************************************************************)
(* The facts about a step that is being resolved or run: its condition     *)
(* held for the entries before it.                                         *)
(***************************************************************************)
LEMMA StepFacts ==
  ASSUME ExecInv, pc \in {"resolve", "run"}
  PROVE  /\ pc \in Loop /\ step <= Len(Steps)
         /\ Ok(Holds(plan, step, results)) /\ Holds(plan, step, results)[2]
         /\ \A concl \in {"success", "failure"}, out \in {"success", "failure"} :
              Entry(step, out, concl) \in StepEntry
<1>1. pc \in Loop /\ step \in Nat
  BY Zenon, LoopFacts DEF Loop
<1> QED
  BY Zenon, <1>1 DEF ExecInv, PhaseInv, Entry, StepEntry

LEMMA StepResolved ==
  ASSUME ExecInv, Resolve
  PROVE  ExecInv'
<1>1. pc = "resolve" /\ UNCHANGED <<plan, done, reports>>
  BY Zenon DEF Resolve
<1>2. CASE Advance(Entry(step, "success", "success")) /\ outcome' = outcome
  BY Zenon, <1>1, <1>2, StepFacts, Advanced
<1>3. CASE failJob(step, results) /\ step' = step
  <2>1. Len(results) = step - 1 /\ step <= Len(Steps) + 1 /\ Numbered(results) /\ Clean(results)
    BY Zenon, <1>1, StepFacts, LoopFacts DEF LoopInv
  <2>2. results \in Seq(StepEntry) /\ step \in Nat /\ pc \in Loop
    BY Zenon, <1>1, StepFacts, LoopFacts
  <2> QED
    BY Zenon, <1>1, <1>3, <2>1, <2>2, StepFailed DEF Clean
<1>4. CASE pc' = "run" /\ UNCHANGED <<step, results, outcome>>
  <2>1. TypeInv'
    BY Zenon, <1>1, <1>4 DEF ExecInv, TypeInv, Loop
  <2>2. LoopInv'
    BY Zenon, <1>1, <1>4, StepFacts, LoopFacts DEF LoopInv, Steps
  <2>3. PhaseInv'
    BY Zenon, <1>1, <1>4, <2>2, StepFacts DEF PhaseInv, Before, Loop, Steps
  <2>4. ReportInv'
    BY Zenon, <1>1, ReportsKept DEF ExecInv
  <2> QED
    BY Zenon, <2>1, <2>3, <2>4 DEF ExecInv
<1> QED
  BY Zenon, <1>2, <1>3, <1>4 DEF Resolve

(***************************************************************************)
(* A step ends.  Its failure, unless it may fail, is the last entry before *)
(* those of the steps that do not run any more.                            *)
(***************************************************************************)
LEMMA StepRun ==
  ASSUME ExecInv, RunStep
  PROVE  ExecInv'
<1>1. pc = "run" /\ pc \in Loop /\ UNCHANGED <<plan, done, reports>>
  BY Zenon DEF RunStep, Loop
<1>2. PICK ending \in Endings(Steps[step].kind) : Conclude(ending)
  BY Zenon DEF RunStep
<1>3. CASE ending = "success"
  <2>1. Advance(Entry(step, "success", "success")) /\ outcome' = outcome
    BY Zenon, <1>2, <1>3 DEF Conclude
  <2> QED
    BY Zenon, <1>1, <2>1, StepFacts, Advanced
<1>4. CASE ending = "cancelled"
  <2>1. Report("cancelled", results) /\ step' = step
    BY Zenon, <1>2, <1>4 DEF Conclude
  <2>2. done
    BY Zenon, <1>4 DEF Endings
  <2> QED
    BY Zenon, <1>1, <2>1, <2>2, StepCancelled
<1>5. CASE ending \notin {"success", "cancelled"} /\ Steps[step].continueOnError
  <2>1. Advance(Entry(step, "failure", "success")) /\ outcome' = outcome
    BY Zenon, <1>2, <1>5 DEF Conclude
  <2> QED
    BY Zenon, <1>1, <2>1, StepFacts, Advanced
<1>6. CASE ending \notin {"success", "cancelled"} /\ ~Steps[step].continueOnError
  <2>1. PICK e : e = Entry(step, "failure", "failure")
    BY Zenon
  <2>2. PICK rs : rs = Append(results, e)
    BY Zenon
  <2>3. failJob(step + 1, rs) /\ step' = step
    BY Zenon, <1>2, <1>6, <2>1, <2>2 DEF Conclude
  <2>4. /\ results \in Seq(StepEntry) /\ step \in Nat /\ Len(Steps) \in Nat /\ step <= Len(Steps)
        /\ Len(results) = step - 1 /\ Numbered(results) /\ Clean(results)
    BY Zenon, <1>1, LoopFacts, StepFacts DEF LoopInv
  <2>5. e \in StepEntry /\ e.step = Len(results) + 1
    BY <2>1, <2>4 DEF Entry, StepEntry
  <2>6. rs \in Seq(StepEntry) /\ Len(rs) = Len(results) + 1 /\ Numbered(rs)
    BY Zenon, <2>2, <2>4, <2>5, EntryAppended
  <2>7. step + 1 \in Nat /\ Len(rs) = (step + 1) - 1 /\ step + 1 <= Len(Steps) + 1
    BY <2>4, <2>6
  <2>8. \A i \in DOMAIN rs : i < Len(rs) => rs[i].conclusion # "failure"
    <3>1. \A i \in DOMAIN rs : i < Len(rs) => i \in DOMAIN results /\ rs[i] = results[i]
      BY <2>2, <2>4, <2>5, <2>6
    <3> QED
      BY Zenon, <2>4, <3>1 DEF Clean
  <2> QED
    BY Zenon, <1>1, <2>3, <2>6, <2>7, <2>8, StepFailed
<1> QED
  BY Zenon, <1>3, <1>4, <1>5, <1>6

LEMMA LoopDone ==
  ASSUME ExecInv, CheckCancelled \/ AllSteps
  PROVE  ExecInv'
<1>1. pc \in Loop /\ UNCHANGED <<plan, step, done, reports>>
  BY Zenon DEF CheckCancelled, AllSteps, Loop
<1>2. CASE CheckCancelled
  BY Zenon, <1>1, <1>2, StepCancelled DEF CheckCancelled
<1>3. CASE AllSteps
  <2>1. Report("success", results) /\ step > Len(Steps)
    BY Zenon, <1>3 DEF AllSteps
  <2>2. /\ results \in Seq(StepEntry) /\ step \in Nat /\ Len(Steps) \in Nat
        /\ Len(results) = step - 1 /\ step <= Len(Steps) + 1
        /\ Numbered(results) /\ Clean(results) /\ Honoured(plan, results)
    BY Zenon, <1>1, LoopFacts DEF LoopInv
  <2>3. Len(results) = Len(Steps)
    BY <2>1, <2>2
  <2>4. Sound(plan, "success", results)
    BY Zenon, <2>2, <2>3 DEF Sound, Clean, Steps
  <2> QED
    BY Zenon, <1>1, <2>1, <2>2, <2>4, Decided DEF Outcomes
<1> QED
  BY Zenon, <1>2, <1>3

(***************************************************************************)
(* The one report, and the end of the process.                             *)
(***************************************************************************)
LEMMA JobReported ==
  ASSUME ExecInv, ReportJob
  PROVE  ExecInv'
<1>1. PICK r : r = [outcome |-> outcome, steps |-> results]
  BY Zenon
<1>2. /\ pc = "report" /\ pc' = "leave" /\ reports' = Append(reports, r)
      /\ UNCHANGED <<plan, step, results, outcome, done>>
  BY Zenon, <1>1 DEF ReportJob
<1>3. r \in Reported /\ r.outcome = outcome /\ r.steps = results
  BY Zenon, <1>1 DEF ExecInv, TypeInv, Reported
<1>4. reports \in Seq(Reported) /\ Len(reports) = 0
  BY Zenon, <1>2, NoEntries DEF ExecInv, TypeInv, PhaseInv
<1>5. reports' \in Seq(Reported) /\ DOMAIN reports' = {1} /\ reports'[1] = r
  BY <1>2, <1>3, <1>4
<1>6. TypeInv'
  BY Zenon, <1>2, <1>5 DEF ExecInv, TypeInv
<1>7. PhaseInv'
  BY Zenon, <1>2 DEF ExecInv, PhaseInv, Before, Loop
<1>8. ReportInv'
  BY Zenon, <1>2, <1>3, <1>5 DEF ExecInv, PhaseInv, ReportInv
<1> QED
  BY Zenon, <1>6, <1>7, <1>8 DEF ExecInv

LEMMA Stopped ==
  ASSUME ExecInv, Exit \/ Killed \/ ContextDone \/ UNCHANGED vars
  PROVE  ExecInv'
<1>1. /\ UNCHANGED <<plan, step, results, outcome, reports>> /\ (done => done') /\ done' \in BOOLEAN
      /\ pc' \in {pc, "gone"} /\ (pc' = "off" => done' = done)
  <2>1. CASE Exit \/ Killed
    BY Zenon, <2>1 DEF Exit, Killed, ExecInv, TypeInv
  <2>2. CASE ContextDone
    BY Zenon, <2>2 DEF ContextDone
  <2>3. CASE UNCHANGED vars
    BY Zenon, <2>3 DEF vars, ExecInv, TypeInv
  <2> QED
    BY Zenon, <2>1, <2>2, <2>3
<1>2. TypeInv'
  BY Zenon, <1>1 DEF ExecInv, TypeInv
<1>3. (LoopInv <=> LoopInv') /\ Steps' = Steps
  BY Zenon, <1>1 DEF LoopInv, Steps
<1>4. PhaseInv'
  BY Zenon, <1>1, <1>3 DEF ExecInv, PhaseInv, Before, Loop
<1>5. ReportInv'
  BY Zenon, <1>1, ReportsKept DEF ExecInv
<1> QED
  BY Zenon, <1>2, <1>4, <1>5 DEF ExecInv

(***************************************************************************)
(* The invariant holds in every behaviour of the program, for every set of *)
(* plans and every expression engine.                                      *)
(***************************************************************************)
THEOREM ExecutorInvariant == Spec => []ExecInv
<1>1. Init => ExecInv
  BY Zenon, InitInv
<1>2. ExecInv /\ [Next]_vars => ExecInv'
  BY Zenon, BeforeLoop, PlanFetched, JobPrepared, LoopLeft, ConditionEvaluated, StepResolved, StepRun,
     LoopDone, JobReported, Stopped DEF Next, Program
<1> QED
  BY <1>1, <1>2, PTL DEF Spec

(***************************************************************************)
(* Whatever ended the loop, a report has the entries of the first steps in *)
(* order, and of all steps unless the job was cancelled or its environment *)
(* did not render (Engine.Run and failJob).                                *)
(***************************************************************************)
THEOREM ReportsAccountForSteps == Spec => []StepAccounting
<1>1. ExecInv => StepAccounting
  BY Zenon DEF ExecInv, ReportInv, StepAccounting, Sound, Numbered, Steps
<1> QED
  BY <1>1, ExecutorInvariant, PTL

(***************************************************************************)
(* The verdict of a report agrees with its entries and with the context:   *)
(* nothing ran after a failure, a success has no failed step, a cancelled  *)
(* job's context was done (Engine.Run).                                    *)
(***************************************************************************)
THEOREM VerdictsAgree == Spec => []VerdictAgrees
<1>1. ExecInv => VerdictAgrees
  <2> SUFFICES ASSUME ExecInv, NEW k \in DOMAIN reports
               PROVE  LET r == reports[k]
                      IN  /\ \A i, j \in DOMAIN r.steps :
                               i < j /\ r.steps[i].conclusion = "failure" => r.steps[j].outcome = "skipped"
                          /\ r.outcome = "success" => \A i \in DOMAIN r.steps :
                               r.steps[i].conclusion \in {"success", "skipped"}
                          /\ r.outcome = "cancelled" => done
    BY Zenon DEF VerdictAgrees
  <2>1. Sound(plan, reports[k].outcome, reports[k].steps) /\ (reports[k].outcome = "cancelled" => done)
    BY Zenon DEF ExecInv, ReportInv
  <2>2. reports[k].steps \in Seq(StepEntry)
    <3>1. reports \in Seq(Reported)
      BY Zenon DEF ExecInv, TypeInv
    <3>2. reports[k] \in Reported
      BY Zenon, <3>1, LenProperties, ElementOfSeq
    <3> QED
      BY Zenon, <3>2 DEF Reported
  <2>3. \A i \in DOMAIN reports[k].steps :
          reports[k].steps[i].conclusion \in {"success", "failure", "skipped"}
    <3>1. \A i \in DOMAIN reports[k].steps : reports[k].steps[i] \in StepEntry
      BY Zenon, <2>2, LenProperties, ElementOfSeq
    <3> QED
      BY Zenon, <3>1 DEF StepEntry
  <2> QED
    BY Zenon, <2>1, <2>3 DEF Sound, Clean
<1> QED
  BY <1>1, ExecutorInvariant, PTL

(***************************************************************************)
(* The steps of a job that succeeds ran exactly when their conditions held *)
(* for the entries before them (evalIf's errors are never a false).        *)
(***************************************************************************)
THEOREM ConditionsAreHonoured == Spec => []ConditionsHonoured
<1>1. ExecInv => ConditionsHonoured
  BY Zenon DEF ExecInv, PhaseInv, Honoured, Holds, ConditionsHonoured, Steps
<1> QED
  BY <1>1, ExecutorInvariant, PTL

-----------------------------------------------------------------------------
(***************************************************************************)
(* The program implements Process.  Of the invariant it needs that the     *)
(* context is not done before the start, and that there is no outcome      *)
(* before there is a report.                                               *)
(***************************************************************************)
Working == {"token", "fetch", "env", "secrets", "step", "resolve", "run"}

Mapped ==
  /\ pc \in {"off", "report", "leave", "gone"} \cup Working
  /\ pc = "off" => ~done
  /\ pc \in Working => outcome = ""

LEMMA MappedHolds == ExecInv => Mapped
BY Zenon DEF ExecInv, TypeInv, PhaseInv, LoopInv, Mapped, Working, Before, Loop

(***************************************************************************)
(* Steps inside the loop and before it are steps of the working process    *)
(* that Process does not see.                                              *)
(***************************************************************************)
LEMMA InnerStep ==
  ASSUME pc \in Working, pc' \in Working, done' = done
  PROVE  UNCHANGED P!procVars
BY Zenon DEF P!procVars, procNow, verdictNow, Working

LEMMA DecideStep ==
  ASSUME pc \in Working, pc' = "report", done' = done
  PROVE  \E v \in {"success", "failure"} : P!Decide(v)
BY Zenon DEF P!Decide, procNow, verdictNow, Working

LEMMA GiveUpStep ==
  ASSUME pc \in Working, pc' = "leave", done' = done, outcome' # "success"
  PROVE  P!GiveUp
BY Zenon DEF P!GiveUp, procNow, verdictNow, Working

LEMMA ProgramSteps ==
  ASSUME Mapped, [Next]_vars
  PROVE  [P!ProcNext]_(P!procVars)
<1>1. CASE Start
  BY Zenon, <1>1 DEF Start, Mapped, P!ProcNext, P!ProcStart, procNow, verdictNow
<1>2. CASE ReadToken \/ FetchPlan \/ FetchFails \/ JobEnv \/ FetchSecrets
  <2>1. pc \in Working /\ done' = done
    BY Zenon, <1>2 DEF ReadToken, FetchPlan, FetchFails, JobEnv, FetchSecrets, Leave, Working
  <2>2. pc' \in Working \/ pc' = "report" \/ (pc' = "leave" /\ outcome' = "")
    BY Zenon, <1>2, <2>1 DEF ReadToken, FetchPlan, FetchFails, JobEnv, FetchSecrets, Leave, Report,
                             Working, Mapped
  <2> QED
    BY Zenon, <2>1, <2>2, InnerStep, DecideStep, GiveUpStep DEF P!ProcNext
<1>3. CASE CheckCancelled \/ PrepareFails \/ EvalIf \/ Resolve \/ RunStep \/ AllSteps
  <2>1. pc \in Working /\ done' = done
    BY Zenon, <1>3 DEF CheckCancelled, PrepareFails, EvalIf, Resolve, RunStep, AllSteps, Leave, Working
  <2>2. pc' \in Working \/ pc' = "report" \/ (pc' = "leave" /\ outcome' = "")
    BY Zenon, <1>3 DEF CheckCancelled, PrepareFails, EvalIf, Resolve, RunStep, AllSteps, Leave, Report,
                failJob, Advance, Conclude, Working
  <2> QED
    BY Zenon, <2>1, <2>2, InnerStep, DecideStep, GiveUpStep DEF P!ProcNext
<1>4. CASE ReportJob
  BY Zenon, <1>4 DEF ReportJob, P!ProcNext, P!ReportReturns, procNow, verdictNow
<1>5. CASE Exit
  BY <1>5 DEF Exit, P!ProcNext, P!ProcExit, procNow, verdictNow
<1>6. CASE ContextDone
  BY Zenon, <1>6 DEF ContextDone, Mapped, Working, P!ProcNext, P!ContextDone, procNow, verdictNow
<1>7. CASE Killed
  <2>1. pc \notin {"off", "gone"} /\ pc' = "gone" /\ ~(code' = 0)
    BY <1>7 DEF Killed
  <2>2. procNow \in {"working", "reporting", "leaving"} /\ procNow' = "exited" /\ verdictNow' = "none"
    BY Zenon, <2>1 DEF Mapped, Working, procNow, verdictNow
  <2>3. P!Kill
    BY Zenon, <2>1, <2>2 DEF P!Kill
  <2> QED
    BY Zenon, <2>3 DEF P!ProcNext
<1>8. CASE UNCHANGED vars
  BY Zenon, <1>8 DEF vars, P!procVars, procNow, verdictNow
<1> QED
  BY Zenon, <1>1, <1>2, <1>3, <1>4, <1>5, <1>6, <1>7, <1>8 DEF Next, Program

(***************************************************************************)
(* The executor's program implements the process its pod relies on: it     *)
(* reports one verdict at most, and exits with zero only after a verdict   *)
(* of success, for every plan and wherever it is stopped or killed.        *)
(***************************************************************************)
THEOREM ExecutorImplementsProcess == Spec => ImplementsProcess
<1>1. Init => P!ProcInit
  BY Zenon DEF Init, P!ProcInit, procNow, verdictNow
<1>2. Mapped /\ [Next]_vars => [P!ProcNext]_(P!procVars)
  BY Zenon, ProgramSteps
<1> QED
  BY <1>1, <1>2, MappedHolds, ExecutorInvariant, PTL DEF Spec, ImplementsProcess, P!ProcSpec

-----------------------------------------------------------------------------
(***************************************************************************)
(* The comparisons of the expressions.                                     *)
(***************************************************************************)

(* An operand's number, and the place of a string in the alphabet.         *)
LEMMA NumberFacts ==
  ASSUME NEW v \in Operands
  PROVE  toNumber(v)[1] \in BOOLEAN /\ toNumber(v)[2] \in Int
<1>1. CASE Kind(v) = "num"
  BY Zenon, <1>1, ComparisonAssumption DEF toNumber
<1>2. CASE Kind(v) = "bool"
  BY <1>2 DEF toNumber
<1>3. CASE Kind(v) = "str" /\ v[2] \in DOMAIN NumberOf
  BY Zenon, <1>3, ComparisonAssumption DEF toNumber
<1>4. CASE Kind(v) \notin {"num", "bool"} /\ ~(Kind(v) = "str" /\ v[2] \in DOMAIN NumberOf)
  BY <1>4 DEF toNumber
<1> QED
  BY Zenon, <1>1, <1>2, <1>3, <1>4

LEMMA RankFacts ==
  ASSUME NEW v \in Operands, Kind(v) = "str"
  PROVE  RankOf(v[2]) \in Int /\ RankOf(v[2]) \in 1..Len(Alphabet) /\ Alphabet[RankOf(v[2])] = ToLower(v[2])
<1>1. \E i \in 1..Len(Alphabet) : Alphabet[i] = ToLower(v[2])
  BY Zenon, ComparisonAssumption
<1>2. RankOf(v[2]) \in 1..Len(Alphabet) /\ Alphabet[RankOf(v[2])] = ToLower(v[2])
  BY Zenon, <1>1 DEF RankOf
<1> QED
  BY <1>2

LEMMA SignFacts ==
  ASSUME NEW a \in Int, NEW b \in Int
  PROVE  /\ Sign(a, b) \in Int /\ Sign(b, a) = 0 - Sign(a, b)
         /\ Sign(a, b) = 0 <=> a = b
BY SMTT(40) DEF Sign

(* The two ways in which operands compare.                                 *)
Numeric(l, r) == toNumber(l)[1] /\ toNumber(r)[1] /\ "num" \in {Kind(l), Kind(r)}
Textual(l, r) == Kind(l) = "str" /\ Kind(r) = "str"

LEMMA CompareCases ==
  ASSUME NEW l, NEW r
  PROVE  /\ Numeric(l, r) => compare(l, r) = <<TRUE, IF NaN \in {toNumber(l)[2], toNumber(r)[2]} THEN 0
                                                     ELSE Sign(toNumber(l)[2], toNumber(r)[2])>>
         /\ Textual(l, r) => ~Numeric(l, r) /\ compare(l, r) = <<TRUE, Sign(RankOf(l[2]), RankOf(r[2]))>>
         /\ ~Numeric(l, r) /\ ~Textual(l, r) => compare(l, r) = <<FALSE, 0>>
BY Zenon DEF compare, Numeric, Textual

(* Turned round, a comparison changes its sign.                            *)
LEMMA CompareTurned ==
  ASSUME NEW l \in Operands, NEW r \in Operands
  PROVE  /\ compare(l, r)[1] \in BOOLEAN /\ compare(l, r)[2] \in Int
         /\ compare(r, l)[1] = compare(l, r)[1] /\ compare(r, l)[2] = 0 - compare(l, r)[2]
<1> DEFINE a == toNumber(l)[2]
           b == toNumber(r)[2]
<1>1. CASE Numeric(l, r)
  <2>1. Numeric(r, l)
    BY Zenon, <1>1 DEF Numeric
  <2>2. a \in Int /\ b \in Int
    BY Zenon, NumberFacts
  <2>3. /\ compare(l, r) = <<TRUE, IF NaN \in {a, b} THEN 0 ELSE Sign(a, b)>>
        /\ compare(r, l) = <<TRUE, IF NaN \in {b, a} THEN 0 ELSE Sign(b, a)>>
    BY Zenon, <1>1, <2>1, CompareCases
  <2> HIDE DEF a, b
  <2>4. CASE NaN \in {a, b}
    <3>1. compare(l, r) = <<TRUE, 0>> /\ compare(r, l) = <<TRUE, 0>>
      BY Zenon, <2>3, <2>4
    <3>2. PICK x, y : x = compare(l, r) /\ y = compare(r, l)
      BY Zenon
    <3>3. x = <<TRUE, 0>> /\ y = <<TRUE, 0>>
      BY Zenon, <3>1, <3>2
    <3>4. x[1] \in BOOLEAN /\ x[2] \in Int /\ y[1] = x[1] /\ y[2] = 0 - x[2]
      BY <3>3
    <3> QED
      BY Zenon, <3>2, <3>4
  <2>5. CASE NaN \notin {a, b}
    <3>1. compare(l, r) = <<TRUE, Sign(a, b)>> /\ compare(r, l) = <<TRUE, Sign(b, a)>>
      BY Zenon, <2>3, <2>5
    <3> QED
      BY <3>1, <2>2, SignFacts
  <2> QED
    BY Zenon, <2>4, <2>5
<1>2. CASE Textual(l, r)
  <2>1. Textual(r, l) /\ Kind(l) = "str" /\ Kind(r) = "str"
    BY Zenon, <1>2 DEF Textual
  <2>2. RankOf(l[2]) \in Int /\ RankOf(r[2]) \in Int
    BY Zenon, <2>1, RankFacts
  <2>3. /\ compare(l, r) = <<TRUE, Sign(RankOf(l[2]), RankOf(r[2]))>>
        /\ compare(r, l) = <<TRUE, Sign(RankOf(r[2]), RankOf(l[2]))>>
    BY Zenon, <1>2, <2>1, CompareCases
  <2> QED
    BY <2>2, <2>3, SignFacts
<1>3. CASE ~Numeric(l, r) /\ ~Textual(l, r)
  <2>1. ~Numeric(r, l) /\ ~Textual(r, l)
    BY Zenon, <1>3 DEF Numeric, Textual
  <2>2. compare(l, r) = <<FALSE, 0>> /\ compare(r, l) = <<FALSE, 0>>
    BY Zenon, <1>3, <2>1, CompareCases
  <2>3. PICK x, y : x = compare(l, r) /\ y = compare(r, l)
    BY Zenon
  <2>4. x = <<FALSE, 0>> /\ y = <<FALSE, 0>>
    BY Zenon, <2>2, <2>3
  <2>5. x[1] \in BOOLEAN /\ x[2] \in Int /\ y[1] = x[1] /\ y[2] = 0 - x[2]
    BY <2>4
  <2> QED
    BY Zenon, <2>3, <2>5
<1> QED
  BY Zenon, <1>1, <1>2, <1>3

LEMMA EqualTurned ==
  ASSUME NEW l, NEW r
  PROVE  looseEqual(l, r) <=> looseEqual(r, l)
<1>1. EqualFold(String(l), String(r)) <=> EqualFold(String(r), String(l))
  BY Zenon DEF EqualFold
<1>2. SameNumber(toNumber(l), toNumber(r)) <=> SameNumber(toNumber(r), toNumber(l))
  BY Zenon DEF SameNumber
<1>3. CASE Kind(l) = Kind(r)
  <2>1. EqualFold(l[2], r[2]) <=> EqualFold(r[2], l[2])
    BY Zenon DEF EqualFold
  <2> QED
    BY Zenon, <1>2, <1>3, <2>1 DEF looseEqual
<1>4. CASE Kind(l) # Kind(r)
  <2>1. {Kind(l), Kind(r)} = {Kind(r), Kind(l)} /\ {l, r} = {r, l}
    BY Zenon
  <2> QED
    BY Zenon, <1>1, <1>2, <1>4, <2>1 DEF looseEqual
<1> QED
  BY Zenon, <1>3, <1>4

(* == holds of two values that compare, neither NaN, when neither is less, *)
(* though it coerces its operands by rules of its own.                     *)
LEMMA EqualCompared ==
  ASSUME NEW l \in Operands, NEW r \in Operands, compare(l, r)[1], ~Unordered(l, r)
  PROVE  looseEqual(l, r) <=> compare(l, r)[2] = 0
<1> DEFINE a == toNumber(l)[2]
           b == toNumber(r)[2]
<1>1. CASE Numeric(l, r)
  <2>1. a \in Int /\ b \in Int /\ NaN \notin {a, b}
    BY Zenon, <1>1, NumberFacts DEF Unordered, Numeric
  <2>2. looseEqual(l, r) <=> SameNumber(toNumber(l), toNumber(r))
    <3>1. "num" \in {Kind(l), Kind(r)} /\ {Kind(l), Kind(r)} # {"null", "str"}
      BY Zenon, <1>1 DEF Numeric
    <3>2. CASE Kind(l) = Kind(r)
      BY Zenon, <3>1, <3>2 DEF looseEqual
    <3>3. CASE Kind(l) # Kind(r)
      BY Zenon, <3>1, <3>3 DEF looseEqual
    <3> QED
      BY Zenon, <3>2, <3>3
  <2>3. SameNumber(toNumber(l), toNumber(r)) <=> a = b
    BY Zenon, <1>1, <2>1 DEF SameNumber, Numeric
  <2>4. compare(l, r) = <<TRUE, Sign(a, b)>>
    BY Zenon, <1>1, <2>1, CompareCases
  <2>5. compare(l, r)[2] = Sign(a, b)
    BY <2>4
  <2>6. Sign(a, b) = 0 <=> a = b
    BY Zenon, <2>1, SignFacts
  <2> QED
    BY Zenon, <2>2, <2>3, <2>5, <2>6
<1>2. CASE Textual(l, r)
  <2>1. Kind(l) = "str" /\ Kind(r) = "str"
    BY Zenon, <1>2 DEF Textual
  <2>2. looseEqual(l, r) <=> ToLower(l[2]) = ToLower(r[2])
    BY Zenon, <2>1 DEF looseEqual, EqualFold
  <2>3. ToLower(l[2]) = ToLower(r[2]) <=> RankOf(l[2]) = RankOf(r[2])
    BY Zenon, <2>1, RankFacts DEF RankOf
  <2>4. compare(l, r)[2] = Sign(RankOf(l[2]), RankOf(r[2]))
    <3>1. compare(l, r) = <<TRUE, Sign(RankOf(l[2]), RankOf(r[2]))>>
      BY Zenon, <1>2, CompareCases
    <3> QED
      BY <3>1
  <2>5. Sign(RankOf(l[2]), RankOf(r[2])) = 0 <=> RankOf(l[2]) = RankOf(r[2])
    <3>1. RankOf(l[2]) \in Int /\ RankOf(r[2]) \in Int
      BY Zenon, <2>1, RankFacts
    <3> QED
      BY Zenon, <3>1, SignFacts
  <2> QED
    BY Zenon, <2>2, <2>3, <2>4, <2>5
<1>3. Numeric(l, r) \/ Textual(l, r)
  <2>1. compare(l, r) # <<FALSE, 0>>
    <3>1. compare(l, r) = <<FALSE, 0>> => compare(l, r)[1] = FALSE
      BY SMT
    <3> QED
      BY Zenon, <3>1, Zenon
  <2> QED
    BY Zenon, <2>1, CompareCases
<1> QED
  BY Zenon, <1>1, <1>2, <1>3

LEMMA OperandsAgree ==
  ASSUME NEW l \in Operands, NEW r \in Operands
  PROVE  Agree(l, r)
<1> DEFINE c == compare(l, r)[2]
           d == compare(r, l)[2]
<1>1. /\ compare(l, r)[1] \in BOOLEAN /\ compare(r, l)[1] = compare(l, r)[1]
      /\ c \in Int /\ d = 0 - c
  BY Zenon, CompareTurned
<1>2. \A x, y : /\ Compared("==", x, y) <=> looseEqual(x, y)
                /\ Compared("<", x, y) <=> compare(x, y)[1] /\ compare(x, y)[2] < 0
                /\ Compared("<=", x, y) <=> compare(x, y)[1] /\ compare(x, y)[2] <= 0
                /\ Compared(">", x, y) <=> compare(x, y)[1] /\ compare(x, y)[2] > 0
                /\ Compared(">=", x, y) <=> compare(x, y)[1] /\ compare(x, y)[2] >= 0
  BY SMTT(60) DEF Compared
<1>3. Compared("==", l, r) <=> Compared("==", r, l)
  BY Zenon, <1>2, EqualTurned
<1>4. (c < 0 <=> d > 0) /\ (c <= 0 <=> d >= 0)
  <2>1. c \in Int /\ d = 0 - c
    BY Zenon, <1>1
  <2> HIDE DEF c, d
  <2> QED
    BY <2>1
<1>5. (Compared("<", l, r) <=> Compared(">", r, l)) /\ (Compared("<=", l, r) <=> Compared(">=", r, l))
  BY Zenon, <1>1, <1>2, <1>4
<1>6. ASSUME compare(l, r)[1], ~Unordered(l, r)
      PROVE  /\ \E one \in Orders : \A op \in Orders : Compared(op, l, r) <=> op = one
             /\ Compared("<=", l, r) <=> Compared("<", l, r) \/ Compared("==", l, r)
             /\ Compared(">=", l, r) <=> Compared(">", l, r) \/ Compared("==", l, r)
  <2>1. /\ Compared("==", l, r) <=> c = 0
        /\ Compared("<", l, r) <=> c < 0
        /\ Compared(">", l, r) <=> c > 0
        /\ Compared("<=", l, r) <=> c <= 0
        /\ Compared(">=", l, r) <=> c >= 0
    BY Zenon, <1>2, <1>6, EqualCompared
  <2>2. /\ c <= 0 <=> c < 0 \/ c = 0
        /\ c >= 0 <=> c > 0 \/ c = 0
        /\ c < 0 \/ c = 0 \/ c > 0
        /\ ~(c < 0 /\ c = 0) /\ ~(c < 0 /\ c > 0) /\ ~(c = 0 /\ c > 0)
    <3>1. c \in Int
      BY Zenon, <1>1
    <3> HIDE DEF c
    <3> QED
      BY <3>1
  <2>3. \E one \in Orders : \A op \in Orders : Compared(op, l, r) <=> op = one
    <3>1. CASE c < 0
      <4>1. \A op \in Orders : Compared(op, l, r) <=> op = "<"
        BY Zenon, <3>1, <2>1, <2>2 DEF Orders
      <4> QED
        BY Zenon, <4>1 DEF Orders
    <3>2. CASE c = 0
      <4>1. \A op \in Orders : Compared(op, l, r) <=> op = "=="
        BY Zenon, <3>2, <2>1, <2>2 DEF Orders
      <4> QED
        BY Zenon, <4>1 DEF Orders
    <3>3. CASE c > 0
      <4>1. \A op \in Orders : Compared(op, l, r) <=> op = ">"
        BY Zenon, <3>3, <2>1, <2>2 DEF Orders
      <4> QED
        BY Zenon, <4>1 DEF Orders
    <3> QED
      BY Zenon, <2>2, <3>1, <3>2, <3>3
  <2> QED
    BY Zenon, <2>1, <2>2, <2>3
<1> QED
  BY Zenon, <1>3, <1>5, <1>6 DEF Agree

(***************************************************************************)
(* Comparisons are coherent, for every set of operands of the six kinds:   *)
(* looseEqual and compare, which coerce by different rules, never          *)
(* contradict each other, and the order of the operands does not matter.   *)
(***************************************************************************)
THEOREM ComparisonsAreCoherent == Spec => []ComparisonsAgree
<1>1. ComparisonsAgree
  BY Zenon, OperandsAgree DEF ComparisonsAgree
<1> QED
  BY <1>1, PTL

=============================================================================
