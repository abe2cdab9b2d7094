------------------------------- MODULE Syntax -------------------------------
(***************************************************************************)
(* The workflow parser (internal/workflow/syntax): a YAML document becomes *)
(* a validated AST or is refused.  A node is a scalar, a map whose items   *)
(* are <<key, node>> pairs, or a seq of nodes; parsed YAML keeps repeated  *)
(* keys, and the last one wins.                                            *)
(*                                                                         *)
(* The code collects every diagnostic and discards the AST when there is   *)
(* one.  So each parser is a pair here: whether it records a diagnostic    *)
(* (xBad), and the value it returns where it does not.                     *)
(***************************************************************************)
EXTENDS Naturals, Sequences, FiniteSets, Functions

CONSTANTS
  Identifiers,  \* the strings isIdentifier accepts
  Nodes         \* the nodes considered, each with those in it

Inside(node) == {IF node.kind = "map" THEN node.items[i][2] ELSE node.items[i] : i \in DOMAIN node.items}

ASSUME SyntaxAssumption ==
  /\ \A v \in Nodes : v.kind \in {"scalar", "map", "seq"} /\ v.items \in Seq(Range(v.items))
  /\ UNION {Inside(v) : v \in Nodes} \subseteq Nodes

(* The sequences one after the other, as appends in a loop make them.      *)
(* SequencesExt has this operator, but extends Bags, whose theorems would  *)
(* be in the context of every proof obligation about the parser.           *)
FlattenSeq(seqs) ==
  LET upTo[n \in 0 .. Len(seqs)] == IF n = 0 THEN <<>> ELSE upTo[n - 1] \o seqs[n]
  IN  upTo[Len(seqs)]

Scalar(tag, value) == [kind |-> "scalar", tag |-> tag, value |-> value, items |-> <<>>]

Mapping(items) == [kind |-> "map", tag |-> "", value |-> "", items |-> items]

Listing(items) == [kind |-> "seq", tag |-> "", value |-> "", items |-> items]

(* A field that is not there reads as the zero value of any type. *)
Absent == [kind |-> "", tag |-> "", value |-> "", items |-> <<>>]

Failed == <<FALSE, <<>>>>

-----------------------------------------------------------------------------
(***************************************************************************)
(* mapping refuses a node of another kind and every key off the list; of a *)
(* key that is repeated, the last value stays.                             *)
(***************************************************************************)
mappingBad(node, allowed) ==
  node.kind # "map" \/ \E i \in DOMAIN node.items : node.items[i][1] \notin allowed

Has(node, key) == \E i \in DOMAIN node.items : node.items[i][1] = key

Field(node, key) ==
  LET at == {i \in DOMAIN node.items : node.items[i][1] = key}
  IN  IF at = {} THEN Absent ELSE node.items[CHOOSE i \in at : \A h \in at : h <= i][2]

scalarBad(node) == node.kind # "scalar" \/ node.tag \in {"int", "bool", "float"}

scalarString(node) == node.value

stringSeqBad(node) == node.kind # "seq" \/ \E i \in DOMAIN node.items : scalarBad(node.items[i])

stringSeq(node) == [i \in DOMAIN node.items |-> node.items[i].value]

envMapBad(node) == node.kind # "map" \/ \E i \in DOMAIN node.items : scalarBad(node.items[i][2])

envMap(node) ==
  [k \in {node.items[i][1] : i \in DOMAIN node.items} |-> scalarString(Field(node, k))]

conditionBad(node) == node.tag # "bool" /\ scalarBad(node)

-----------------------------------------------------------------------------
(***************************************************************************)
(* on: a trigger's name, or a mapping of triggers.                         *)
(***************************************************************************)
NoTrigger == [on |-> FALSE, branches |-> <<>>, ignore |-> <<>>]

EmptyTrigger == [NoTrigger EXCEPT !.on = TRUE]

parsePushBad(node) ==
  /\ ~(node.kind = "scalar" /\ (node.tag = "null" \/ node.value = ""))
  /\ \/ mappingBad(node, {"branches", "branches-ignore"})
     \/ \E i \in DOMAIN node.items : stringSeqBad(node.items[i][2])

parsePush(node) ==
  [on       |-> TRUE,
   branches |-> stringSeq(Field(node, "branches")),
   ignore   |-> stringSeq(Field(node, "branches-ignore"))]

parseScheduleBad(node) ==
  \/ node.kind # "seq"
  \/ \E i \in DOMAIN node.items :
       \/ mappingBad(node.items[i], {"cron"})
       \/ \E c \in DOMAIN node.items[i].items : scalarBad(node.items[i].items[c][2])

parseSchedule(node) ==
  FlattenSeq([i \in DOMAIN node.items |-> [c \in DOMAIN node.items[i].items |->
                                             node.items[i].items[c][2].value]])

parseOnBad(node) ==
  CASE node.kind = "scalar" -> node.value \notin {"push", "pull_request"}
    [] OTHER                ->
         \/ mappingBad(node, {"push", "pull_request", "schedule"})
         \/ \E i \in DOMAIN node.items :
              LET v == node.items[i][2]
              IN  IF node.items[i][1] = "schedule" THEN parseScheduleBad(v) ELSE parsePushBad(v)

parseOn(node, on) ==
  IF node.kind = "scalar"
  THEN IF node.value = "push" THEN [on EXCEPT !.push = EmptyTrigger]
                              ELSE [on EXCEPT !.pr = EmptyTrigger]
  ELSE [push     |-> IF Has(node, "push") THEN parsePush(Field(node, "push")) ELSE on.push,
        pr       |-> IF Has(node, "pull_request") THEN parsePush(Field(node, "pull_request")) ELSE on.pr,
        schedule |-> IF Has(node, "schedule") THEN parseSchedule(Field(node, "schedule")) ELSE on.schedule]

-----------------------------------------------------------------------------
StepFields == {"name", "if", "run", "uses", "with", "continue-on-error", "env"}

stepBad_AnyField(node) ==
  \/ node.kind # "map"
  \/ Has(node, "run") <=> Has(node, "uses")

stepBad(node) ==
  \/ mappingBad(node, StepFields)
  \/ \E i \in DOMAIN node.items :
       LET k == node.items[i][1]
           v == node.items[i][2]
       IN  CASE k = "if"                -> conditionBad(v)
             [] k \in {"with", "env"}   -> envMapBad(v)
             [] k = "continue-on-error" -> v.tag # "bool"
             [] OTHER                   -> scalarBad(v)
  \/ Has(node, "run") <=> Has(node, "uses")

parseStep(node) ==
  [name  |-> scalarString(Field(node, "name")),
   cond  |-> scalarString(Field(node, "if")),
   run   |-> scalarString(Field(node, "run")),
   uses  |-> scalarString(Field(node, "uses")),
   with  |-> envMap(Field(node, "with")),
   coe   |-> scalarString(Field(node, "continue-on-error")) = "true",
   env   |-> envMap(Field(node, "env"))]

parseStepsBad(node) == node.kind # "seq" \/ \E i \in DOMAIN node.items : stepBad(node.items[i])

parseSteps(node) == [i \in DOMAIN node.items |-> parseStep(node.items[i])]

parseNeedsBad(node) == IF node.kind = "scalar" THEN scalarBad(node) ELSE stringSeqBad(node)

parseNeeds(node) == IF node.kind = "scalar" THEN <<node.value>> ELSE stringSeq(node)

matrixBad(node) ==
  node.kind # "map" \/ \E i \in DOMAIN node.items :
                         node.items[i][1] \notin Identifiers \/ stringSeqBad(node.items[i][2])

parseMatrix(node) ==
  [a \in {node.items[i][1] : i \in DOMAIN node.items} |-> stringSeq(Field(node, a))]

parseStrategyBad(node) ==
  mappingBad(node, {"matrix"}) \/ \E i \in DOMAIN node.items : matrixBad(node.items[i][2])

parseStrategy(node) == parseMatrix(Field(node, "matrix"))

JobFields == {"name", "runs-on", "if", "needs", "strategy", "env", "steps"}

parseJobBad(node) ==
  \/ mappingBad(node, JobFields)
  \/ \E i \in DOMAIN node.items :
       LET k == node.items[i][1]
           v == node.items[i][2]
       IN  CASE k = "if"       -> conditionBad(v)
             [] k = "needs"    -> parseNeedsBad(v)
             [] k = "strategy" -> parseStrategyBad(v)
             [] k = "env"      -> envMapBad(v)
             [] k = "steps"    -> parseStepsBad(v)
             [] OTHER          -> scalarBad(v)

parseJob(id, node) ==
  [id     |-> id,
   runsOn |-> scalarString(Field(node, "runs-on")),
   cond   |-> scalarString(Field(node, "if")),
   needs  |-> parseNeeds(Field(node, "needs")),
   matrix |-> parseStrategy(Field(node, "strategy")),
   env    |-> envMap(Field(node, "env")),
   steps  |-> parseSteps(Field(node, "steps"))]

parseJobsBad(node) ==
  node.kind # "map" \/ \E i \in DOMAIN node.items :
                         node.items[i][1] \notin Identifiers \/ parseJobBad(node.items[i][2])

parseJobs(node) ==
  [i \in DOMAIN node.items |-> parseJob(node.items[i][1], node.items[i][2])]

(***************************************************************************)
(* Parse.  Neither `on` nor `jobs` is required here, and a repeated one    *)
(* adds to what is there.                                                  *)
(***************************************************************************)
workflowBad(root) ==
  \/ mappingBad(root, {"name", "on", "jobs"})
  \/ \E i \in DOMAIN root.items :
       LET k == root.items[i][1]
           v == root.items[i][2]
       IN  CASE k = "on"   -> parseOnBad(v)
             [] k = "jobs" -> parseJobsBad(v)
             [] OTHER      -> scalarBad(v)

NoTriggers == [push |-> NoTrigger, pr |-> NoTrigger, schedule |-> <<>>]

Triggers(root) ==
  LET on[n \in 0 .. Len(root.items)] ==
        IF n = 0 THEN NoTriggers
        ELSE IF root.items[n][1] = "on" THEN parseOn(root.items[n][2], on[n - 1]) ELSE on[n - 1]
  IN  on[Len(root.items)]

parseWorkflow(root) ==
  [on   |-> Triggers(root),
   jobs |-> FlattenSeq([i \in DOMAIN root.items |->
              IF root.items[i][1] = "jobs" THEN parseJobs(root.items[i][2]) ELSE <<>>])]

Parse(root) == IF workflowBad(root) THEN Failed ELSE <<TRUE, parseWorkflow(root)>>

=============================================================================
