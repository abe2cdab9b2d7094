# Verification of forgelet

forgelet is a Kubernetes-native CI service that runs GitHub-Actions-style
workflows. A webhook delivery or a cron slot is parsed and compiled into a run of
several jobs in a durable store. Each job becomes one active object (a `JobRun`
custom resource) and its pod; an executor in the pod runs the job's steps. What
happens to the pod is projected back into the durable store and shown as a check
run on GitHub; objects are collected once their outcome is durable. The stores, the
cluster and GitHub share no transaction, so everything between them is a protocol
of separate, repeatable calls.

Paths below are relative to `src/internal/` unless they say otherwise.
`PROJECT.json` maps every definition to the lines it models.

## The system's parts and how they interact

```
 files --> parser, compiler           plans                 secrets
                  |                     ^  \                   |
 webhook/cron --> Ingestor --> durable store  \--> executor (in the pod)
                                 |  ^   ^              |  /status
               claim, ack        |  |   +-- handlers <-+
                                 v  |          ^   \--> GitHub checks
  Collector, Dispatcher --> JobRun resource    | /observed
                                 \--> controller --> pod
```

| part | code | here |
|---|---|---|
| statuses, transitions, run aggregate | `run/model` | `RunModel` |
| in-memory durable store | `storage/memory` | `DurableStore` |
| dispatcher, projector, collector, canceler | `run/scheduler` | `Scheduler` |
| ingestor; plans, conditions, re-request, dispatch loop | `run/scheduler/ingestor.go`, `server` | `Server` |
| PostgreSQL durable store | `storage/postgres` | `PgStore` |
| JobRun controller, active store on Kubernetes | `runtime/controller` | `JobRunController`, `Runtime` |
| handlers of the two reports, check runs | `server`, `report`, `provider/github/check.go` | `CheckReport`, `Runtime` |
| executor | `runtime/executor`, `src/cmd/executor` | `Executor`, and its promise `Process` |
| expression engine | `workflow/expression` | `Expression`; classes of job conditions in `Server` |
| workflow parser | `workflow/syntax` | `Syntax` |
| compiler, workflow source, plan builder | `workflow/compiler`, `server` | `Compiler` |
| cron scheduler | `run/schedule`, `server/schedule.go` | `Frontend` |
| the rest | see `PROJECT.json` | not modelled, reasons below |

## Modules

**`RunModel`** has the pure functions of `run/model`: which transitions are legal,
which advance, how a phase maps to a status, how job statuses aggregate to a run
status.

**`DurableStore`** has the in-memory store's records and one operation per method
(`CreateRun`, `ClaimNextQueuedJob`, `ReleaseClaim`, `AckDispatched`,
`ApplyObserved`, `CancelRun`, `RerequestJob`, `ListGCReadyJobs`, `MarkCollected`).
Each method holds the store's mutex from entry to return, so each is one step,
its trailing `refreshRunLocked` included. A `JobRunID` is a pair of a job key and
an attempt; `born` stands for the order of `(CreatedAt, ID)`.

**`Scheduler`** composes the store with its callers, which interleave between any
two calls. A dispatcher is a program counter over `DispatchNext` (`Claim`,
`Check`, `Create`, `Ack`, and `Release` on an error); `CreateError` is a call that
failed before or after taking effect. `Project` delivers any phase the pod has
shown, so phases come late, repeated and out of order; `ProjectCondition` is a
projection the control plane makes for an `if:`. The sweep lists once and then
deletes and marks job by job; a failing delete ends it (`CollectError`). `Submit`,
`Cancel` and `Rerequest` come from outside.

**`Server`** extends `Scheduler` with what runs around it: webhook handlers
(`RecordDelivery`, `Compile`, `IngestRun`, then `ListJobRuns` and `PlanJob` for
each job, or `BuildPlansFails`), the re-request that creates an attempt and copies
its plan afterwards (`RerequestAttempt`, `CopyPlan`), and the single dispatch loop
(`ListQueuedJobs`, `LoadRun`, `EvaluateNext`, `RunEvaluated`, `Drain`). The loop
decides conditions from records it read earlier (`view`), as the code does. An
`if:` is abstracted to what it depends on; the module's head lists the classes.
`ImplementsScheduler` says that all of this only takes steps of `Scheduler`.

**`PgStore`** is the other implementation of the durable store, one action per SQL
statement, at PostgreSQL's READ COMMITTED level. A session holds its uncommitted
writes (`writes`, `runWrite`), its row locks (`holds`) and the key-share locks its
foreign keys take (`shares`). `FOR UPDATE` waits, `SKIP LOCKED` does not. Sessions
crash between any two statements, leases run out (`LeaseLapses`), and PostgreSQL
aborts a transaction in a cycle of waits (`Abort`). What PostgreSQL itself does is
taken from its documented behaviour and marked external in the map. It does not
refine `DurableStore`: `pg_sticky` shows where it differs.

**`JobRunController`** is the reconciler of one resource, call by call. It reads the
informers' copies (`crSeen`, `podSeen`), which lag behind the API server each on its
own, and writes to the API server, which refuses a status update from an old copy.
**`CheckReport`** has the two request handlers that report on a job, `POST /status`
from the executor and `POST /observed` from the controller: project, read the
record back, list the check runs, create or update one. **`Process`** is what a
job's process promises: at most one verdict, and an exit code of zero only after a
verdict of success. **`Runtime`** composes these three with the dispatcher, the
collector, the kubelet and the cluster for one job: pods are evicted and made
again, nodes are lost, the controller restarts, calls and their answers get lost.

**`Executor`** is the program in the pod, call by call: reading the token, fetching
the plan with retries, secrets, and for every step the cancellation check, its
condition, its inputs, its run; then the one report and the exit code. The context
may be done, or the process killed, at any point. Every path that ends a job in
`engine.go` is an alternative of an action. What a condition evaluates to is the
constant `CondResult`: the program only calls the engine. The run gives it
**`Expression`**, the recursive-descent parser, evaluator and status functions over
tokens. **`Comparison`** has the coercing comparisons of the engine, over strings of
which constants give the lower case, the number and the order, and **`Value`** the
values all of them speak of.

**`Syntax`** and **`Compiler`** are pure: from YAML nodes to the AST or a refusal;
topological order, matrix expansion, builtins and trigger filters; the workflow
source over the files of a repository and the schedules in them; the plan of a job,
composite actions included. `Compiler` ends with what the results are measured by
(`Compiled`, `Faithful`). **`Frontend`** has webhooks and the cron scheduler, whose
tick reads the clock, goes through the schedules one by one, ingests a slot and
remembers it in memory. Calls fail and the server restarts between any two steps.
It extends `Compiler`: a repository's files are YAML nodes, and what they mean is
what `Parse`, `Compile` and `buildPlan` make of them. The nodes are a constant, any
set that has with a node the nodes inside it.

No module that a proof depends on has a recursive operator. `topoSort`'s visit is a
recursive function of how deep its calls may nest, the growth of matrix combinations
and the merging of triggers are recursive functions of a position; the nesting that
`topoSort` allows is proved to be enough.

**`MCScheduler`, `MCServer`, `MCPgStore`, `MCExecutor`, `MCFrontend`** hold the small
instances, `MCExecutor` also what the parser and the implicit guard promise by
themselves; `Runtime` needs none. **`Scheduler_proof`, `Server_proof`,
`Runtime_proof`, `Executor_proof`, `PgStore_proof`, `PgLocks_proof`,
`Compiler_proof`, `Frontend_proof`** hold the theorems.

## Runs that pass

| run | instance | checks |
|---|---|---|
| `sched_dispatch` | 2 dispatchers, 2 dependent jobs, fair | no job is dispatched by two callers (`ExclusiveDispatch`); an active job has its object (`ActiveHasObject`); every queued job settles (`JobsSettle`) and is collected (`JobsCollected`); `TypeOK` |
| `sched_rerequest` | 1 dispatcher, 2 dependent jobs, one re-request | a run is closed exactly with its jobs (`RunClosedWithJobs`), its success is unanimous (`SuccessIsUnanimous`), needs come first (`NeedsRespected`), terminal statuses stay (`TerminalSticky`), objects outlive their jobs (`ObjectsOutliveJobs`) |
| `srv_control` | 2 handlers on one delivery; a run of 2 jobs, the second `if: failure()`, or of 1; fair | every step is one of `Scheduler` (`ImplementsScheduler`); one run (`OneRunPerDelivery`), and a run in the end (`DeliveryBecomesRun`); an ingested run is planned (`RunsArePlanned`); skips follow from final results (`SkipIsJustified`); every pass of the loop ends (`DispatchOnceReturns`) |
| `srv_rerequest` | a run of 1 job, with a false condition or with none, one re-request | a job whose condition is false for the event never has a plan, in any attempt (`FalseConditionNeverRuns`) |
| `pg_sessions` | 2 dispatchers, 2 handlers, 2 jobs, one lapse each | claims are exclusive within the lease (`ClaimsWithinLease`), decide on rows nobody changes (`LockedStaysQueued`), and without re-requests only two cancellations of one run can deadlock (`NoLockCycle`) |
| `pg_handlers` | 2 handlers on one delivery, re-requests, fair | `OneRunPerDelivery`; every call ends (`CallsEnd`) |
| `runtime` | 1 job, 2 pods, 1 fault | a durable success was decided for by a process (`SuccessIsEarned`); a conclusion on GitHub is the record's (`CheckHonest`); the resource's phase never goes back (`CRNeverRegresses`) |
| `runtime_ends` | 1 job, 1 pod, no fault, fair | a dispatched job ends whatever becomes of its process (`JobEnds`) |
| `executor` | 363 plans of up to 3 steps, fair | reports account for the steps (`StepAccounting`), agree with their verdict (`VerdictAgrees`) and the conditions (`ConditionsHonoured`); the program implements `Process` (`ImplementsProcess`) and exits (`Exits`); the parser against a printer (`ParserFaithful`), the implicit guard (`StatusGuarded`), `==` against `<` and `>` (`ComparisonsAgree`) |
| `frontend` | 364 repositories, time 1 to 5, 2 faults, fair | a slot runs once and in order (`OneRunPerSlot`), only the most recent one (`OnlyMostRecent`), and the last one eventually (`SchedulesCatchUp`); the compiler against a reference (`CompileSound`); an unknown key anywhere is refused (`NothingIgnored`); plans keep their steps, and inline those of composite actions (`PlanKeepsSteps`) |

`ParserFaithful`, `StatusGuarded`, `ComparisonsAgree`, `CompileSound` and
`NothingIgnored` are about pure functions. They quantify over a bounded set of
inputs and are evaluated in the initial states of their run.

## Runs that find a violation

Each checks one sentence of a comment or port; the finding in `PROJECT.json`
quotes it.

| run | what the counterexample shows |
|---|---|
| `pg_sticky` | an acknowledgement or observation overwrites a terminal status committed after its unlocked read |
| `compile_needs` | a job that needs a matrix job waits for the plain job id, a key that no job of its run has |

`pg_sticky` needs two transactions on one job that overlap by a statement; it is a
property of the statements as written at READ COMMITTED. The run says that an order
is possible, not how often it happens. `compile_needs` takes no race at all.

### Races and gaps the models contain, without a run

These are behaviours of the modules, or next to what they model, and easy to see
in the code. No run is kept for them.

Control plane and stores:

- A cancellation and a whole sweep fit between the dispatcher's check and its
  create; the object created afterwards is never collected
  (`run/scheduler/dispatcher.go:62`). The comment at `:54-56` says "if a cancellation
  lands between the check and the ack, the ack is refused and the orphan object is
  removed by the collector (cancelled jobs are GC-eligible terminals)". That holds
  unless the job is marked collected before the create.
- A job with a condition is dispatched when one need has failed and another still
  runs (`storage/memory/store.go:238`), although conditions are meant to be decided
  on final results.
- The loop dispatches a job between `CreateRun` and the evaluation of its false
  condition in `buildPlans` (`server/server.go:175`), or a new attempt before
  `Rerequest` has copied its plan (`server/server.go:190`). Such a pod finds no plan
  and fails; `FalseConditionNeverRuns` says that in the first case it never gets one.
  A re-request between the handler's list of the jobs and the job's plan leaves the
  new attempt without a plan for good.
- A phase projected before the acknowledgement makes it fail, and the job runs
  without its active name on record (`run/scheduler/dispatcher.go:69`).
- A create that took effect but reported an error leaves a live object; if the
  needed job is re-requested and fails, the job is skipped while its pod executes
  (`storage/memory/store.go:243`).
- A re-request that lands between the loop's read of a run and its decision: the
  condition is decided without the new attempt (`server/server.go:384`).
  `SkipIsJustified` allows for exactly this.
- A duplicate job key is refused after earlier jobs of the run were stored
  (`storage/memory/store.go:100`); they stay queued without a run.
- In PostgreSQL: two jobs that end at the same time leave their run open
  (`storage/postgres/store.go:623`); a re-request that commits during a cancellation
  leaves a queued job in a cancelled run (`:511`); two concurrent re-requests insert
  the same attempt twice (`:568`); a need that is listed twice, or has two rows,
  blocks its dependant, because needs are matched by count (`:379`).

Cluster and reports:

- The controller updates the resource before it projects and does not repeat a
  projection that failed, or that a restart cut off
  (`runtime/controller/jobrun_controller.go:175`). If the process was stopped before
  its own report, the job never ends. The comment at `:120` says "projects it to the
  durable store exactly once per phase transition"; that holds without faults, which
  is why `runtime_ends` has none.
- A reconcile with an old copy of the resource and a fresh one of the pods makes a
  new pod for a job whose pod is gone; `SuccessIsEarned` and `CheckHonest` hold
  nevertheless.
- Two reports list the checks, find none and create two; an older report may put a
  check back to in progress after a conclusion (`provider/github/check.go:56`).
- `cmd.Wait` closes a step's pipe while the reader may have output left
  (`runtime/executor/engine.go:529`).

Workflows:

- Steps of a composite action drop the `if:`, `env` and `continue-on-error` of the
  step that uses it (`server/server.go:1160`), while
  `src/specs/0012-js-composite-actions/tasks.md:6` says
  "继承 `if:`/`env`/`continue-on-error`" (they inherit them), and so does `spec.md:30-32`
  beside it. `PlanKeepsSteps` therefore claims nothing of these three for such a step.
  Its inputs that are secret references are not put into the action's steps either
  (`:1146`); the reference is kept under the ID of the step, which none of their entries
  has.
- The `env` of a step that uses an action is dropped (`server/server.go:1178` has it
  for scripts only). `PlanKeepsSteps` claims the environment of scripts.
- Secret inputs are known by a step ID that need not be unique
  (`server/server.go:1146`): two steps of one ID share their secret inputs.
- A schedule event names no workflow, so every scheduled file of a repository runs
  at each slot of any of them (`server/server.go:1047`).
- The implicit `success() && (...)` is put around a condition as text
  (`workflow/expression/conditions.go:31`); a text with unbalanced parentheses can
  become valid by it. Whether it is needed is decided by searching the text: one that
  names `steps.myjob.x` contains `job.` and is not guarded. `Expression` has the search
  (`Mentions`); the sentences of `StatusGuarded` contain no such name.
- Keys of matrix instances are texts, `id[value,value]` (`workflow/compiler/expand.go:50`):
  values with commas can make two instances share one. The model keeps the values apart.

## Bounds and why they are enough

- `MaxAttempt`, `MaxRerequests`: one re-request in total is the least that reopens
  a closed run and redirects `byJobKey`. `MaxIntents` is the number of positions in
  a run. The proofs have no such bound.
- Two dispatchers (handlers, sessions) are the least that compete; every race in
  the hazard list is between two callers. Symmetry is used in `pg_sessions` only,
  which has no temporal property.
- Two jobs give a dependency and an aggregate of different results.
- `sched_dispatch` and `srv_control` have no re-requests, `srv_rerequest` has one
  job: two dispatchers on two jobs, or the control plane on two jobs, outgrow an
  exhaustive search once a job can be re-requested. So `SkipIsJustified`,
  `JobsSettle` and `JobsCollected` are checked for first attempts only; the first of
  them is proved for any number. A delivery of the server instances may turn out as
  either of two runs, so that one search covers both.
- `MaxRows` bounds the rows of `job_runs`: in `pg_handlers` a job and two further
  attempts. In `pg_sessions` the two jobs fill the table, so there are no
  re-requests: two of them do deadlock, and `pg_handlers` shows that they still
  end. `MaxLapses` is 1, so that an old and a new holder of one claim meet.
- `MaxLoad` bounds the calls under way at one time, a handler's counting twice. With
  4, two handlers, or one handler and both dispatchers, are in the middle of a call
  together; all four at once outgrow an exhaustive search. It does not bind in
  `pg_handlers`.
- `MaxPods`, `MaxFaults`: two pods are a lost one and its replacement. One fault is
  an eviction, an unreachable node, a lost call or answer, a failing store or a
  restart of the controller, at any point. That a process is stopped or killed is
  not counted. `runtime_ends` has no fault because the property is false with one
  (see the first race of the cluster above).
- `FetchAttempts` is 3 where the code has 10: a first, a middle and a last attempt.
  Three steps are the least for a step between a failure and the end of the plan.
- `Horizon` 5 and `Window` 3 (the code's 24 hours) have slots inside, at the edge of
  and beyond the window. `MaxFaults` 2 lets a tick fail and the server restart.
- The graphs of `frontend` are all those of three jobs over seven lists of needs:
  cycles, self-references and every order in the document. Sentences for the
  expression parser have up to six tokens.
- Every `needs` of the scheduling instances names a job of its run. The store can be
  handed one that does not (the proofs cover it, `compile_needs` shows where it comes
  from); such a job stays blocked, so `JobsSettle` is about resolvable needs.

Deadlock is not checked where the system may stop: `pg_handlers` (nobody has to
call), `runtime` and `runtime_ends` (a job ends and is collected), `executor` (the
process exits) and `frontend` (the clock reaches `Horizon`).

## Fairness

- *Loops.* `StartLoops` (`server/server.go:507-552`) runs dispatch and collection on
  tickers until shutdown: weak fairness of each dispatcher, of the loop's steps and
  of the sweep.
- *Active store.* Calls may fail any number of times but not forever: strong
  fairness of `Create`, `CollectDelete` and, in `srv_control`, of the compiler.
- *Pods* of `Scheduler` finish, and their final phase is projected once.
  `runtime_ends` justifies this for the composition of reconciler, kubelet and
  executor as long as no call is lost; the first race of the cluster above is what
  becomes of it otherwise.
- *Redelivery.* `srv_control` assumes that somebody redelivers what has no run. The
  code does not do it for webhooks; a cron tick retries by itself (`Frontend`).
- *Handlers* that have begun go on; each is one goroutine of the HTTP server.
- *PostgreSQL.* A session goes on with the call it began, a lock that is free again
  and again is granted, a deadlock is detected. Nothing makes a session begin a
  call.
- *Cluster.* Informers deliver, the kubelet starts and ends containers and posts
  phases, the work queue runs its passes, processes end: weak fairness of each.
  Nothing forces a cancellation, an eviction, a stop or a fault.
- *Executor.* Weak fairness of the program: every call returns, at the latest by its
  deadline and the grace period after it.
- *Cron.* The loop ticks every 30 s, and time passes: weak fairness of both.

## Refinement

- `ImplementsProcess`: every behaviour of `Executor` is one of `Process`, with a
  refinement mapping from the program's state to the verdict and the exit code.
  `Runtime` composes `Process`, not `Executor`, with the cluster; this is what makes
  that sound. By model checking in `executor`, and proved for every set of plans.
- `ImplementsScheduler`: every behaviour of `Server` is one of `Scheduler`. By model
  checking in `srv_control`, and proved for every instance.

## Proofs

### `Scheduler_proof`

For every set of runs, jobs and dispatchers, all dependencies and conditions and
any number of attempts:

| theorem | states |
|---|---|
| `TypeCorrect` | `Spec => []TypeOK` |
| `SafetyInvariant` | `Spec => []SafetyInv`, the inductive invariant |
| `DispatchIsExclusive` | `[]ExclusiveDispatch` |
| `ActiveJobsHaveObjects` | `[]ActiveHasObject` |
| `RunsCloseWithTheirJobs` | `[]RunClosedWithJobs` |
| `RunSuccessIsUnanimous` | `[]SuccessIsUnanimous` |
| `TerminalIsSticky` | `TerminalSticky`, an action property |
| `ObjectsOutlive` | `ObjectsOutliveJobs`, an action property |
| `NeedsAreRespected` | `[]NeedsRespected` |

The only assumption is `StoreAssumption` in `DurableStore`: constants have their
types, no two jobs of a run share a position, every run has a job (`CreateRun`
refuses an empty one), `NoJob` is no job.

None of the properties is inductive by itself. `SafetyInv` adds three facts, and
`NeedsAreRespected` a fourth.

- `ClaimsHeld`: a working dispatcher holds its claim, or its job is closed. A
  cancellation drops claims, so exclusiveness would otherwise be lost by a second
  claim; but it also closes the job, and closed jobs are not candidates.
- `RecordsTogether`: a run and its first attempts appear together, and only known
  jobs are claimed or have a pod. The aggregate is over the jobs that exist, so a
  run without jobs would never close.
- `ObjectsKept`: whatever has a pod, or is about to be acknowledged, has its object
  or a durable outcome, and the sweep holds only jobs with a durable outcome. This
  carries the object from `Create` over the acknowledgement and over a re-request
  that reopens the run under a sweep.
- `NeedsInv`: from the claim of a job without `if:` on, some attempt of each of its
  needs has succeeded. It speaks of *some* attempt because a re-request redirects
  `byJobKey` away from the one that the claim saw; success is durable, so that one
  stays a witness. `ReadyNeeds` is the fact about the loop of
  `dependencyStateLocked`, and the keys of a known run resolve to an attempt.

The argument runs over effects rather than actions: `RecordSteps`, `ObjectSteps`
and `DispatcherSteps` say in which ways any step changes the records, the objects
and a dispatcher; each conjunct of the invariant is then preserved by a lemma that
cites only the effects it needs. `AggregateCloses` and `RefreshCloses` are the facts
about the aggregate that the run properties rest on.

### `Server_proof`

For every number of handlers and deliveries and every assignment of conditions,
under `StoreAssumption` and `ServerAssumption` (types of the constants, and that a
run's ID is not one of the two marks of a delivery record):

| theorem | states |
|---|---|
| `ServerInvariant` | `ServerSpec => [](TypeOK /\ RecordsTogether /\ ServerInv)` |
| `ServerImplementsScheduler` | `ServerSpec => ImplementsScheduler` |
| `DeliveryHasOneRun` | `[]OneRunPerDelivery` |
| `IngestedRunsArePlanned` | `[]RunsArePlanned` |
| `FalseConditionsNeverRun` | `[]FalseConditionNeverRuns` |
| `ServerRunsCloseWithTheirJobs` | `[]RunClosedWithJobs`, through the refinement |

The refinement is not step by step obvious: a handler or the loop that picks "the
oldest job left" takes a step of `Scheduler` only if that job exists, and a run is
created only if it does not. `ServerInv` says so: a run is the one its delivery's
record names and the reverse (`ReceiptsKnow`), handlers and loop hold only jobs that
exist (`HandlersKnow`, `LoopKnows`), and while a run is planned each of its first
attempts is left, planned or ended (`PlanningOK`). `Quiet` collects the steps that
create no run; most conjuncts are preserved by those for one common reason.
`OldestExists` rests on the well-foundedness of the naturals. `FalseConditionNeverRuns`
is inductive by itself: a plan is put by `PlanJob`, or copied from an attempt of the
same job.

Its second part, on deferred conditions, is for every list of needs and any number of
attempts, under one more assumption, `NeedsAssumption` (the needs of a job are a
finite list):

| theorem | states |
|---|---|
| `ConditionInvariant` | `ServerSpec => []ConditionInv` |
| `SkipsAreJustified` | `[]SkipIsJustified` |

The loop decides on records it read before, and the property asks for a cut through
the attempts that explains the decision. `ConditionInv` finds it. The attempts of a
job have no gap (`NoGap`), so the records in the loop's hands hold, of each job, the
attempts up to some number: that is the cut (`CutExists`). What had ended in them has
ended so (`ViewKnows`), and a condition depends on nothing but the attempts of the
needed jobs (`SameDecision`), all of which had ended; so the condition is false for
the present records up to the cut (`DecisionJustified`). And it stays so, since those
attempts cannot change any more (`JustifiedStays`): a re-request only adds attempts
beyond the cut. `NewSkip` shows that no other step skips a job with a deferred
condition.

### `Runtime_proof`

For any number of pods and faults, without assumptions on the constants:

| theorem | states |
|---|---|
| `RuntimeInvariant` | `Spec => []RuntimeInv` |
| `SuccessEarned` | `[]SuccessIsEarned` |
| `ChecksAreHonest` | `[]CheckHonest` |
| `ResourceNeverRegresses` | `CRNeverRegresses`, an action property |

`EarnedInv`: as long as no process has decided for success, nothing on either
channel says so, from the exit code over the pod's phase and its copies to the
requests under way. `ViewsHonest`: a terminal status that a handler has read back is
still the record's when the handler writes the check, because terminal statuses
stay. `ResourceInv`: a pass about to update has compared the two phases it read, and
the API server accepts the update only if the resource is still the one read.

### `Executor_proof`

For every set of plans, every number of attempts at fetching one, and every
expression engine (`CondResult` is a constant operator without an assumption; it
may accept, refuse or fail on any condition). `ExecutorAssumption`: there is an
attempt, and a plan has a sequence of steps.

| theorem | states |
|---|---|
| `ExecutorInvariant` | `Spec => []ExecInv` |
| `ReportsAccountForSteps` | `[]StepAccounting` |
| `VerdictsAgree` | `[]VerdictAgrees` |
| `ConditionsAreHonoured` | `[]ConditionsHonoured` |
| `ExecutorImplementsProcess` | `Spec => ImplementsProcess` |
| `ComparisonsAreCoherent` | `[]ComparisonsAgree` |

The properties speak of what was reported, after the loop has gone. `ExecInv` carries
them there: while the steps run, the first `step - 1` of them have an entry each, no
entry is a failure that counts, and each agrees with its condition as it was
evaluated over the entries before it (`LoopInv`); what the program is about to
report is `Sound` for its plan, and so is what it has reported (`ReportInv`). A
failing step fills in the remaining entries as skipped; `Padded` and `FailedSound`
are the lemmas about that.

`ComparisonsAreCoherent` is for every set of operands, under `ComparisonAssumption`: an
operand is well typed, and the lower case of a string has a place of its own in the
order of strings. What the display string of a value is stays open (`String` is a
constant operator). Folding the case and lower-casing are taken to agree, as they do
for all but a few letters outside ASCII.

### `PgStore_proof` and `PgLocks_proof`

For every set of runs, deliveries, jobs, dispatchers and handlers, and any number of
rows and lapses, with crashes and aborts at any statement. `PgAssumption`: constants
have their types, dispatchers are finitely many, locks of different tables differ, the
intents of a run are finitely many and numbered from one.

| theorem | states |
|---|---|
| `PgInvariant` | `Spec => []PgInv` |
| `LockedRowsStayQueued` | `[]LockedStaysQueued` |
| `DeliveriesAreUnique` | `[]OneRunPerDelivery` |
| `ClaimsStayWithinLease` | `[]ClaimsWithinLease` |
| `LockCyclesAreKnown` | `[]NoLockCycle` |

`PgInv` says of the tables that a row has its key and its run; of the locks that no
two transactions hold the same one (`LockInv`); and of each call, place by place,
what it holds, which rows it works on, and that its uncommitted writes are to rows it
has locked (`SessionOK`). The proof is one of non-interference. For each action a
lemma shows `StepOK`: the session's own part of the invariant holds again, it touches
no other session (`Apart`), new locks were free, committed records only appear, and
rows that another session has locked stay queued and unclaimed (`Effect`). Given
that, `OthersKeep` and `StepKeeps` preserve the rest of the invariant once for all
actions.

- `OneRunPerDelivery` needs that the insert holds the lock on the index entry until it
  commits, and that the entry is looked up under it.
- `ClaimsWithinLease` counts dispatchers. `LeaseStep` says that a step of one session
  lets a row count one more worker only while it makes its claim live, and drops a
  live claim only while it stops working on the row: that is why `ReleaseClaim`, which
  does not ask whose claim it drops, is harmless to the count.
- `NoLockCycle`: each wait in a set of mutually waiting transactions is for a row or
  for a run (`WaitKinds`, `HolderKinds`). Whoever holds a run waits for nothing, unless
  it re-requests or is a claim that has skipped a job; so a cycle without cancellations
  and re-requests is one of claims, each waiting for a run that the next one holds
  (`CycleKinds`). Claims go up the rows, and without re-requests the rows of a run are
  next to each other (`OrderInv`), so the last row of each waiting claim is smaller
  than that of the one it waits for (`WaitsGoUp`): the claim with the largest one has
  nobody to wait for. With re-requests the rows of a run are no longer adjacent, and
  the third case of the property is a real possibility.

### `Compiler_proof`

The pure functions, for every document and any number of jobs, needs, axes, values and
steps. `SyntaxAssumption`: a node is a scalar, a mapping or a list, and what is in it
is a node. `CompilerAssumption`: the axes have one order, and a composite action that
is found has a list of steps.

| theorem | states |
|---|---|
| `TopoSort` | `topoSort` succeeds exactly for orderable jobs, and returns each once and after those it needs |

The induction theorems of the library take an operator, which the provers cannot
instantiate. `NatSet` is induction for a *set* of naturals instead, proved from the
well-foundedness of their order, and `Iteration` shows that a function can be defined
by primitive recursion, without which nothing is known of a recursive function. With
these two, what `FlattenSeq`, `visitAll`, `visit` and `Combos` compute is proved as
follows.

- `Flatten`: each element of the result has a place `<<i, p>>` in the sequences, in
  the lexicographic order of the places, and each place has an element.
- `VisitGood`, by induction on the nesting that is left: if no more jobs are unvisited
  than calls may nest, a visit either returns a walk in which the job is done, the
  output is in order, and nothing else that was being visited changed; or it fails
  and there is a cycle. A job that is being visited when it is needed again lies on
  the chain of jobs under way (`Chain`), and that chain is a set of jobs each of which
  needs another of them (`MeetsCycle`). Conversely, an output in order has, in each
  set of jobs, a first one, which needs none of the others (`SortedOrderable`).
- `CombosAll`, by induction on the axes: the combinations are the choices of one value
  for each axis. `CompileOrdered` puts the instances of the sorted jobs together: the
  places of `Flatten` say that those of a job come after those of its needs.
- `WorkflowParsed`: what `Parse` returns for an accepted document is a sequence of
  jobs as the other lemmas need them.
- `BuildPlan`: the places of `Flatten` are the stems of a plan's entries, and order
  those of a composite action, each of which is its step with the plain inputs put in
  (`CompositeEntry`).

### `Frontend_proof`

For every set of repositories and webhooks, any files, any horizon, window and number
of faults. `FrontendAssumption`: expressions fire within the horizon, the files of a
repository are a sequence of nodes, an event's repository exists, and a misspelt key
is none of the fields' names.

| theorem | states |
|---|---|
| `FrontendInvariant` | `Spec => []FrontInv` |
| `SlotsRunOnce` | `[]OneRunPerSlot` |
| `MostRecentSlotRuns` | `OnlyMostRecent`, an action property |
| `RunsAreCompiled` | `Spec => [](ContentsInv /\ PlansInv)` |
| `CompilerIsSound` | `[]CompileSound` |
| `ParserIgnoresNothing` | `[]NothingIgnored` |
| `PlansKeepSteps` | `[]PlanKeepsSteps` |

The last slot emitted is forgotten by a restart, so the order of runs cannot rest on
it. It rests on time: every slot with a run is past for the clock and for the tick
under way (`KeysInv`), and the slot that `Tick` picks is the last of *all* slots up to
its time, whatever the cursor (`LatestIsLast`). So a run is newer than the others of
its schedule, unless its key is known, and then there is no new run.

`PlansInv` ties a run to the compiler: its jobs are what the workflow source returns
for one of the events, and its plans are `buildPlan` of them. That the event of a
schedule is one of a configured repository takes the type of what `List` returns
(`ListType`), through the parser of triggers and schedules.

`NothingIgnored` goes down the document level by level: the predicates `StepLevel`,
`FieldLevel`, `JobLevel` and `TopLevel` say that a node with an unexpected entry
somewhere in it is refused wherever the parser expects a node of that level, and the
`Lift` and `Deeper` lemmas carry one level to the next.

### Only model-checked

- All liveness: fairness and `ENABLED` are out of the prover's reach.
- `ParserFaithful` and `StatusGuarded`: the recursive-descent parser, the evaluator and
  the printer are mutually recursive over trees of any depth and are written as
  recursive operators, which the prover does not take.

## Not modelled

- A restart of the server inside `Server`. Plans are kept in memory
  (`server/support.go:14-15`), so a restart loses them; that is a documented
  limitation. `Frontend` has restarts, for the cron scheduler.
- The control plane over the PostgreSQL store: `Server` is composed with the
  in-memory store. A projection that fails while conditions are evaluated is
  therefore out of the model. In `PgStore`, `RecordDelivery` (one statement), the
  read-only lists and `MarkCollected`.
- What a refused `CreateRun` leaves behind in the in-memory store.
- The scheduling protocol over several jobs composed with `Runtime`: `Runtime` has
  one job, and takes the dispatcher's create and acknowledgement as one step.
- Environment, outputs, masks and log lines of steps, and what built-in and
  JavaScript actions do: `Executor` has how a step may end.
- The lexer, functions that build or search strings, JSON and file hashing of the
  expression engine; glob matching, edit distance, splitting of strings and cron
  expressions, which are constants of their modules. They are text or library
  functions without state.
- Timestamps, other than as an order; the wording of diagnostics; logging, metrics,
  tracing.
- HTTP handlers for secrets, cache and artifacts, identity and policy decisions:
  stateless per request. Cryptography, YAML and webhook decoding, the object store:
  libraries or external services. API types, generated code and the entry points
  that only wire the parts together.
