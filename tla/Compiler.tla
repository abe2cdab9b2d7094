------------------------------ MODULE Compiler ------------------------------
(***************************************************************************)
(* The workflow compiler (internal/workflow/compiler), from the AST to the *)
(* job instances of a run; the workflow source that applies it to the      *)
(* files of a repository, and the builder of executor plans                *)
(* (internal/server).  Pure operators.  A job key is <<ID, values>>.       *)
(*                                                                         *)
(* What the code finds by taking a string apart is given by constants: the *)
(* two halves of a `uses`, the branches a pattern matches, the secret a    *)
(* value refers to, a step's short name.                                   *)
(***************************************************************************)
EXTENDS Syntax, TLC

CONSTANTS
  AxisOrder,   \* the names of matrix axes in their order
  UsesOf,      \* [uses -> <<action, version>>], for each that has both
  Registry,    \* [builtin action -> the inputs it supports]
  Nearest,     \* actions within two edits of a builtin's name
  Negated,     \* [pattern with a leading "!" -> the rest]
  Glob,        \* the pairs <<pattern, branch>> that match
  SecretName,  \* [value of the form ${{ secrets.NAME }} -> NAME]
  ShortName,   \* [action, uses or script -> the step ID made from it]
  ActionMeta,  \* [uses -> what FetchAction returns], for those it finds
  InputOf      \* [piece of a composite's text of the form ${{ inputs.K }} -> K]

ASSUME CompilerAssumption ==
  /\ AxisOrder \in Seq(Range(AxisOrder))
  /\ \A i, h \in DOMAIN AxisOrder : AxisOrder[i] = AxisOrder[h] => i = h
  /\ \A a \in DOMAIN ActionMeta :
       ActionMeta[a].using = "composite" => ActionMeta[a].steps \in Seq(Range(ActionMeta[a].steps))

(***************************************************************************)
(* topoSort: a depth-first visit in document order.  The walk is           *)
(* [state |-> [ID -> 0 unvisited, 1 visiting, 2 done], out |-> jobs,       *)
(*  ok |-> no cycle met].  visit(jobs)[n] is the visit whose calls nest    *)
(* less than n deep: each call below the first one marks another job, so n *)
(* need not exceed the number of jobs by more than one.                    *)
(***************************************************************************)
IDs(jobs) == {jobs[i].id : i \in DOMAIN jobs}

byID(jobs, id) == jobs[CHOOSE i \in DOMAIN jobs : jobs[i].id = id]

Walks(jobs) == [state : [IDs(jobs) -> 0 .. 2], out : Seq(Range(jobs)), ok : BOOLEAN]

Calls(jobs) == IDs(jobs) \X Walks(jobs)

visitAll(call, ids, walk) ==
  LET after[k \in 0 .. Len(ids)] == IF k = 0 THEN walk ELSE call[<<ids[k], after[k - 1]>>]
  IN  after[Len(ids)]

visitJob(call, j, walk) ==
  IF ~walk.ok \/ walk.state[j.id] = 2 THEN walk
  ELSE IF walk.state[j.id] = 1 THEN [walk EXCEPT !.ok = FALSE]
  ELSE LET deps == visitAll(call, j.needs, [walk EXCEPT !.state[j.id] = 1])
       IN  IF ~deps.ok THEN deps
           ELSE [state |-> [deps.state EXCEPT ![j.id] = 2], out |-> Append(deps.out, j), ok |-> TRUE]

visit(jobs) ==
  LET to[n \in Nat] == [c \in Calls(jobs) |-> IF n = 0 THEN c[2] ELSE visitJob(to[n - 1], byID(jobs, c[1]), c[2])]
  IN  to

(* A job's ID is taken, or a need names no job. *)
Unfit(jobs) ==
  \/ \E i, h \in DOMAIN jobs : i # h /\ jobs[i].id = jobs[h].id
  \/ \E i \in DOMAIN jobs : ~(Range(jobs[i].needs) \subseteq IDs(jobs))

topoSort_DocumentOrder(jobs) ==
  IF Unfit(jobs) THEN Failed ELSE <<TRUE, jobs>>

topoSort(jobs) ==
  LET ids  == [i \in DOMAIN jobs |-> jobs[i].id]
      walk == visitAll(visit(jobs)[Len(jobs) + 1], ids,
                       [state |-> [id \in IDs(jobs) |-> 0], out |-> <<>>, ok |-> TRUE])
  IN  IF Unfit(jobs) \/ ~walk.ok THEN Failed ELSE <<TRUE, walk.out>>

-----------------------------------------------------------------------------
(***************************************************************************)
(* expandMatrix: one instance per combination, the values in the order of  *)
(* their axes and of the document.  The needs are copied as they are.      *)
(***************************************************************************)
Axes(job) ==
  FlattenSeq([i \in DOMAIN AxisOrder |-> IF AxisOrder[i] \in DOMAIN job.matrix THEN <<AxisOrder[i]>> ELSE <<>>])

Combos(job) ==
  LET combos[n \in 0 .. Len(Axes(job))] ==
        IF n = 0 THEN <<<<>>>>
        ELSE FlattenSeq([i \in DOMAIN combos[n - 1] |->
               [v \in DOMAIN job.matrix[Axes(job)[n]] |->
                  Append(combos[n - 1][i], job.matrix[Axes(job)[n]][v])]])
  IN  combos[Len(Axes(job))]

(* The key is the job's ID and the values; the code writes them as one     *)
(* text, id[value,value], which tells the same instances apart as long as  *)
(* no value has a comma.                                                   *)
Instance(job, steps, values) ==
  [key   |-> <<job.id, values>>,
   needs |-> [i \in DOMAIN job.needs |-> <<job.needs[i], <<>>>>],
   cond  |-> job.cond, env |-> job.env, steps |-> steps]

expandMatrix(job, steps) ==
  IF \E a \in DOMAIN job.matrix : job.matrix[a] = <<>> THEN Failed
  ELSE <<TRUE, [i \in DOMAIN Combos(job) |-> Instance(job, steps, Combos(job)[i])]>>

(***************************************************************************)
(* compileBuiltin.  A `uses` without an action or a version, or close to a *)
(* builtin's name, is an error; any other that is no builtin is left to be *)
(* resolved when the plan is built.  Inputs a builtin lacks are dropped.   *)
(***************************************************************************)
stepFails(step) ==
  IF step.uses = "" THEN step.run = ""
  ELSE step.uses \notin DOMAIN UsesOf \/ UsesOf[step.uses][1] \in Nearest

compileStep(step) ==
  LET action == UsesOf[step.uses][1]
      common == [name |-> step.name, cond |-> step.cond, coe |-> step.coe, env |-> step.env]
      kind   == CASE step.uses = ""              -> "run"
                  [] action \in DOMAIN Registry  -> "builtin"
                  [] OTHER                       -> "uses"
  IN  common @@ [kind |-> kind,
                 what |-> CASE kind = "run" -> step.run [] kind = "builtin" -> action
                            [] OTHER -> step.uses,
                 with |-> CASE kind = "run"     -> <<>>
                            [] kind = "builtin" -> Restrict(step.with, DOMAIN step.with \cap Registry[action])
                            [] OTHER            -> step.with]

compileJob(job) ==
  IF job.runsOn = "" \/ job.steps = <<>> \/ \E i \in DOMAIN job.steps : stepFails(job.steps[i])
  THEN Failed
  ELSE expandMatrix(job, [i \in DOMAIN job.steps |-> compileStep(job.steps[i])])

Compile(wf) ==
  LET ordered == topoSort(wf.jobs)
      parts   == [i \in DOMAIN ordered[2] |-> compileJob(ordered[2][i])]
  IN  IF wf.jobs = <<>> \/ ~ordered[1] \/ \E i \in DOMAIN parts : ~parts[i][1] THEN Failed
      ELSE <<TRUE, FlattenSeq([i \in DOMAIN parts |-> parts[i][2]])>>

-----------------------------------------------------------------------------
(***************************************************************************)
(* The filters of push and pull_request.                                   *)
(***************************************************************************)
matchGlob(pattern, branch) == <<pattern, branch>> \in Glob

splitExclusions(patterns) ==
  [include |-> Range(patterns) \ DOMAIN Negated,
   exclude |-> {Negated[p] : p \in Range(patterns) \cap DOMAIN Negated}]

matchesFilters(trigger, branch) ==
  LET split == splitExclusions(trigger.branches)
  IN  /\ ~\E p \in Range(trigger.ignore) \cup split.exclude : matchGlob(p, branch)
      /\ split.include = {} \/ \E p \in split.include : matchGlob(p, branch)

Matches(trigger, branch) == trigger.on /\ matchesFilters(trigger, branch)

(***************************************************************************)
(* matchedJobs: the jobs of every file whose triggers match the event; one *)
(* file that does not parse or compile fails the event.  A schedule event  *)
(* does not say which schedule: every file that has one matches.           *)
(***************************************************************************)
Matched(on, ev) ==
  CASE ev.name = "push"         -> Matches(on.push, ev.branch)
    [] ev.name = "pull_request" -> Matches(on.pr, ev.branch)
    [] OTHER                    -> on.schedule # <<>>

Compiles(file) == Parse(file)[1] /\ Compile(Parse(file)[2])[1]

matchedJobs(files, ev) ==
  IF ev.name \notin {"push", "pull_request", "schedule"} THEN <<TRUE, <<>>>>
  ELSE IF \E i \in DOMAIN files : ~Compiles(files[i]) THEN Failed
  ELSE <<TRUE, FlattenSeq([i \in DOMAIN files |->
                             LET wf == Parse(files[i])[2]
                             IN  IF Matched(wf.on, ev) THEN Compile(wf)[2] ELSE <<>>])>>

-----------------------------------------------------------------------------
(***************************************************************************)
(* buildPlan.  Values that are secret references leave the environment and *)
(* the inputs and become references, known by the step's ID.               *)
(***************************************************************************)
Plain(values) == Restrict(values, DOMAIN values \ {k \in DOMAIN values : values[k] \in DOMAIN SecretName})

SecretsIn(values, id) ==
  {<<SecretName[values[k]], id, k>> : k \in {x \in DOMAIN values : values[x] \in DOMAIN SecretName}}

stDisplayName(step) == IF step.name # "" THEN step.name ELSE ShortName[step.what]

Substituted(text, inputs) ==
  [i \in DOMAIN text |-> IF text[i] \in DOMAIN InputOf /\ InputOf[text[i]] \in DOMAIN inputs
                         THEN inputs[InputOf[text[i]]] ELSE text[i]]

PlanStep(step, kind, what, inputs) ==
  [id |-> <<stDisplayName(step)>>, kind |-> kind, cond |-> step.cond, coe |-> step.coe,
   env |-> IF kind = "run" THEN step.env ELSE <<>>, what |-> <<what>>, inputs |-> inputs]

(***************************************************************************)
(* The inner steps take their IDs from the outer step, and neither its     *)
(* condition nor its continue-on-error.                                    *)
(***************************************************************************)
expandComposite(steps, inputs, id) ==
  LET runs(cs) == cs.run # <<>> \/ cs.uses = ""
  IN  [i \in DOMAIN steps |->
         [id     |-> <<id, i>>,
          kind   |-> IF runs(steps[i]) THEN "run" ELSE "js",
          cond   |-> "", coe |-> FALSE, env |-> <<>>,
          what   |-> IF runs(steps[i]) THEN Substituted(steps[i].run, inputs) ELSE <<steps[i].uses>>,
          inputs |-> IF runs(steps[i]) THEN <<>>
                     ELSE [k \in DOMAIN steps[i].with |-> Substituted(steps[i].with[k], inputs)]]]

planSteps_NoCondition(step) == <<PlanStep([step EXCEPT !.cond = ""], step.kind, step.what, Plain(step.with))>>

Composite(step) ==
  step.kind = "uses" /\ step.what \in DOMAIN ActionMeta /\ ActionMeta[step.what].using = "composite"

planSteps(step) ==
  IF Composite(step)
  THEN expandComposite(ActionMeta[step.what].steps, Plain(step.with), stDisplayName(step))
  ELSE <<PlanStep(step, IF step.kind = "uses" THEN "js" ELSE step.kind, step.what, Plain(step.with))>>

buildPlan(inst) ==
  [env   |-> Plain(inst.env),
   steps |-> FlattenSeq([i \in DOMAIN inst.steps |-> planSteps(inst.steps[i])]),
   refs  |-> SecretsIn(inst.env, "") \cup
             UNION {SecretsIn(inst.steps[i].with, stDisplayName(inst.steps[i])) : i \in DOMAIN inst.steps}]

-----------------------------------------------------------------------------
(***************************************************************************)
(* List: the schedules of the files that parse, repository by repository.  *)
(***************************************************************************)
Crons(file) == IF Parse(file)[1] THEN Parse(file)[2].on.schedule ELSE <<>>

ListRepo(repo, files) ==
  FlattenSeq([i \in DOMAIN files |-> [c \in DOMAIN Crons(files[i]) |-> <<repo, i, Crons(files[i])[c]>>]])

List(repos, contents) ==
  FlattenSeq([r \in DOMAIN repos |-> ListRepo(repos[r], contents[repos[r]])])

-----------------------------------------------------------------------------
(***************************************************************************)
(* What Compile and buildPlan promise of their results.                    *)
(***************************************************************************)
(* The reference for a set of jobs that can be ordered: IDs are distinct,  *)
(* needs name jobs, and no group of jobs only waits for itself.            *)
Orderable(jobs) ==
  /\ \A i, j \in DOMAIN jobs : jobs[i].id = jobs[j].id => i = j
  /\ \A i \in DOMAIN jobs : Range(jobs[i].needs) \subseteq IDs(jobs)
  /\ \A S \in (SUBSET DOMAIN jobs) \ {{}} :
       \E i \in S : \A j \in S : jobs[j].id \notin Range(jobs[i].needs)

JobFine(job) ==
  /\ job.runsOn # "" /\ job.steps # <<>> /\ \A i \in DOMAIN job.steps : ~stepFails(job.steps[i])
  /\ \A a \in DOMAIN job.matrix : job.matrix[a] # <<>>

(* The choices of one value for each axis, and the key of one.             *)
Selections(job) ==
  {c \in [DOMAIN job.matrix -> UNION {DOMAIN job.matrix[a] : a \in DOMAIN job.matrix}] :
     \A a \in DOMAIN job.matrix : c[a] \in DOMAIN job.matrix[a]}

KeyOf(job, c) == <<job.id, [n \in DOMAIN Axes(job) |-> job.matrix[Axes(job)[n]][c[Axes(job)[n]]]]>>

(* The result of compiling jobs.                                           *)
Compiled(jobs, out) ==
  /\ out[1] <=> jobs # <<>> /\ Orderable(jobs) /\ \A i \in DOMAIN jobs : JobFine(jobs[i])
  /\ out[1] =>
       /\ {out[2][i].key : i \in DOMAIN out[2]}
            = UNION {{KeyOf(j, c) : c \in Selections(j)} : j \in Range(jobs)}
       /\ \A i, h \in DOMAIN out[2] :
            (\E n \in DOMAIN out[2][i].needs : out[2][i].needs[n][1] = out[2][h].key[1]) => h < i

(* The entry of a plan that stands for a step by itself: an input that is  *)
(* a secret reference is not in it but among the plan's references.  Only  *)
(* a script keeps its environment.                                         *)
Kept(step, entry, plan) ==
  /\ entry.what = <<step.what>> /\ entry.cond = step.cond /\ entry.coe = step.coe
  /\ step.kind = "run" => entry.env = step.env
  /\ \A k \in DOMAIN step.with :
       IF step.with[k] \in DOMAIN SecretName
       THEN k \notin DOMAIN entry.inputs /\ <<SecretName[step.with[k]], entry.id[1], k>> \in plan.refs
       ELSE entry.inputs[k] = step.with[k]

(* The entry that stands for a step of a composite action: its script, or  *)
(* the action it uses and the inputs, where an input given as with that is *)
(* no secret reference takes the place of its name.                        *)
Filled(text, with, out) ==
  /\ DOMAIN out = DOMAIN text
  /\ \A i \in DOMAIN text :
       IF /\ text[i] \in DOMAIN InputOf /\ InputOf[text[i]] \in DOMAIN with
          /\ with[InputOf[text[i]]] \notin DOMAIN SecretName
       THEN out[i] = with[InputOf[text[i]]]
       ELSE out[i] = text[i]

Inlined(inner, with, entry) ==
  IF inner.run # <<>>
  THEN entry.kind = "run" /\ Filled(inner.run, with, entry.what)
  ELSE inner.uses # "" =>
         /\ entry.kind = "js" /\ entry.what = <<inner.uses>>
         /\ DOMAIN entry.inputs = DOMAIN inner.with
         /\ \A k \in DOMAIN inner.with : Filled(inner.with[k], with, entry.inputs[k])

(* The entries of a step that uses a composite action.                     *)
InlinedAll(step, entries, out) ==
  LET inner == ActionMeta[step.what].steps
  IN  /\ \A p \in entries : \E n \in DOMAIN inner :
           out[p].id = <<stDisplayName(step), n>> /\ Inlined(inner[n], step.with, out[p])
      /\ \A n \in DOMAIN inner : \E p \in entries : out[p].id = <<stDisplayName(step), n>>
      /\ \A p, q \in entries : p < q => out[p].id[2] < out[q].id[2]

(* A plan stands for steps: each entry stems from a step, in the order of  *)
(* the steps; a step has one entry of its own, or one for each step of its *)
(* composite action, in their order and named after both.  Nothing is said *)
(* of the condition, the environment or the continue-on-error of a step    *)
(* that uses a composite action: its entries do not have them.             *)
Faithful(steps, plan) ==
  \E stem \in [DOMAIN plan.steps -> DOMAIN steps] :
    /\ \A p, q \in DOMAIN plan.steps : p < q => stem[p] <= stem[q]
    /\ \A a \in DOMAIN steps :
         LET entries == {p \in DOMAIN plan.steps : stem[p] = a}
         IN  IF Composite(steps[a])
             THEN InlinedAll(steps[a], entries, plan.steps)
             ELSE \E p \in entries : entries = {p} /\ Kept(steps[a], plan.steps[p], plan)

=============================================================================
