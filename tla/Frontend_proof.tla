--------------------------- MODULE Frontend_proof ---------------------------
(***************************************************************************)
(* Proofs about the way from a workflow file to a run, for every set of    *)
(* repositories, files and webhooks and any number of faults: what Parse   *)
(* refuses, which schedules List returns, which slots get a run and in     *)
(* which order, and what a run's jobs and plans are.  What the compiler    *)
(* makes of a parsed workflow is proved in Compiler_proof.                 *)
(***************************************************************************)
EXTENDS Frontend, Compiler_proof

-----------------------------------------------------------------------------
(***************************************************************************)
(* The schedules of the files: what List returns.                          *)
(***************************************************************************)
Values == {v.value : v \in Nodes}

Schedule == Range(Repos) \X Nat \X Values

(* The expressions of a schedule are values of nodes.                      *)
LEMMA ScheduleParsed ==
  ASSUME NEW x, x = Absent \/ (x \in Nodes /\ ~parseScheduleBad(x))
  PROVE  parseSchedule(x) \in Seq(Values)
<1> DEFINE seqs == [i \in DOMAIN x.items |-> [c \in DOMAIN x.items[i].items |-> x.items[i].items[c][2].value]]
<1>1. PICK N \in Nat : DOMAIN x.items = 1 .. N
  BY Zenon, NodeFacts DEF Read
<1>2. ASSUME NEW i \in 1 .. N PROVE seqs[i] \in Seq(Values)
  <2>1. x \in Nodes /\ ~parseScheduleBad(x)
    BY Zenon, <1>1, EmptyFacts
  <2>2. x.kind = "seq" /\ x.items[i].kind = "map"
    BY Zenon, <1>1, <2>1 DEF parseScheduleBad, mappingBad
  <2>3. PICK v \in Nodes : v = x.items[i]
    BY Zenon, <1>1, <2>1, <2>2, NodeFacts DEF Read
  <2>4. PICK M \in Nat : DOMAIN v.items = 1 .. M
    BY Zenon, NodeFacts DEF Read
  <2>5. \A c \in 1 .. M : v.items[c][2] \in Nodes
    BY Zenon, <2>2, <2>3, <2>4, NodeFacts DEF Read
  <2>6. PICK g : g = seqs[i]
    BY Zenon
  <2>7. g = [c \in 1 .. M |-> v.items[c][2].value]
    BY Zenon, <1>1, <2>3, <2>4, <2>6
  <2>8. \A c \in 1 .. M : v.items[c][2].value \in Values
    BY Zenon, <2>5 DEF Values
  <2>9. g \in [1 .. M -> Values]
    BY Zenon, <2>7, <2>8
  <2> HIDE DEF seqs
  <2> QED
    BY <2>6, <2>9
<1>3. PICK R : R = Seq(Values)
  BY Zenon
<1>4. seqs \in Seq(Seq(Values))
  <2>1. seqs = [i \in 1 .. N |-> seqs[i]]
    BY Zenon, <1>1
  <2> HIDE DEF seqs
  <2>2. seqs \in [1 .. N -> R]
    BY Zenon, <1>2, <1>3, <2>1
  <2>3. seqs \in Seq(R)
    BY <2>2
  <2> QED
    BY Zenon, <1>3, <2>3
<1>5. parseSchedule(x) = FlattenSeq(seqs)
  BY Zenon DEF parseSchedule
<1> HIDE DEF seqs
<1> QED
  BY Zenon, <1>4, <1>5, Flatten

(* Triggers, and what one `on` adds to them.                               *)
OnePush == {NoTrigger, EmptyTrigger} \cup {parsePush(v) : v \in Nodes \cup {Absent}}

Ons == [push : OnePush, pr : OnePush, schedule : Seq(Values)]

LEMMA OnParsed ==
  ASSUME NEW n \in Nodes, ~parseOnBad(n), NEW on \in Ons
  PROVE  parseOn(n, on) \in Ons
<1>1. NoTrigger \in OnePush /\ EmptyTrigger \in OnePush /\ \A v : Read(v) => parsePush(v) \in OnePush
  BY Zenon DEF OnePush, Read
<1>2. on.push \in OnePush /\ on.pr \in OnePush /\ on.schedule \in Seq(Values)
  BY Zenon DEF Ons
<1>3. CASE n.kind = "scalar"
  <2>1. [on EXCEPT !.push = EmptyTrigger] \in Ons /\ [on EXCEPT !.pr = EmptyTrigger] \in Ons
    BY Zenon, <1>1 DEF Ons
  <2> QED
    BY Zenon, <1>3, <2>1 DEF parseOn
<1>4. CASE n.kind # "scalar"
  <2>1. n.kind = "map" /\ Read(n)
    BY Zenon, <1>4 DEF parseOnBad, mappingBad, Read
  <2>2. \A key : Read(Field(n, key))
    BY Zenon, <2>1, FieldFacts
  <2>3. PICK x : x = Field(n, "schedule")
    BY Zenon
  <2>4. x = Absent \/ (x \in Nodes /\ ~parseScheduleBad(x))
    <3>1. CASE x = Absent
      BY Zenon, <3>1
    <3>2. CASE x # Absent
      <4>1. PICK i \in DOMAIN n.items : n.items[i][1] = "schedule" /\ x = n.items[i][2]
        BY <2>1, <2>3, <3>2, FieldFacts
      <4>2. ~parseScheduleBad(x)
        BY Zenon, <1>4, <4>1 DEF parseOnBad
      <4> QED
        BY Zenon, <2>2, <2>3, <3>2, <4>2 DEF Read
    <3> QED
      BY Zenon, <3>1, <3>2
  <2>5. parseSchedule(x) \in Seq(Values)
    BY Zenon, <2>4, ScheduleParsed
  <2>6. PICK a, b, c : /\ a = IF Has(n, "push") THEN parsePush(Field(n, "push")) ELSE on.push
                       /\ b = IF Has(n, "pull_request") THEN parsePush(Field(n, "pull_request")) ELSE on.pr
                       /\ c = IF Has(n, "schedule") THEN parseSchedule(x) ELSE on.schedule
    BY Zenon
  <2>7. a \in OnePush /\ b \in OnePush /\ c \in Seq(Values)
    BY Zenon, <1>1, <1>2, <2>2, <2>5, <2>6
  <2>8. parseOn(n, on) = [push |-> a, pr |-> b, schedule |-> c]
    BY Zenon, <1>4, <2>3, <2>6 DEF parseOn
  <2> QED
    BY <2>7, <2>8 DEF Ons
<1> QED
  BY Zenon, <1>3, <1>4

LEMMA TriggersParsed ==
  ASSUME NEW root \in Nodes, ~workflowBad(root)
  PROVE  Triggers(root) \in Ons
<1> DEFINE items == root.items
           N == Len(items)
           Step(k, on) == IF items[k][1] = "on" THEN parseOn(items[k][2], on) ELSE on
           G == [c \in Nat \X Ons |-> IF c[1] \in 1 .. N THEN Step(c[1], c[2]) ELSE c[2]]
           Eq(f) == f = [k \in 0 .. N |-> IF k = 0 THEN NoTriggers
                                          ELSE IF items[k][1] = "on" THEN parseOn(items[k][2], f[k - 1])
                                            ELSE f[k - 1]]
<1>1. N \in Nat /\ DOMAIN items = 1 .. N /\ root.kind = "map"
  BY Zenon, NodeFacts DEF Read, workflowBad, mappingBad
<1>2. ASSUME NEW k \in 1 .. N, NEW on \in Ons PROVE Step(k, on) \in Ons
  <2>1. CASE items[k][1] = "on"
    <3>1. items[k][2] \in Nodes
      BY Zenon, <1>1, NodeFacts DEF Read
    <3>2. ~parseOnBad(items[k][2])
      BY Zenon, <1>1, <2>1 DEF workflowBad
    <3> QED
      BY Zenon, <2>1, <3>1, <3>2, OnParsed
  <2>2. CASE items[k][1] # "on"
    BY Zenon, <2>2
  <2> QED
    BY Zenon, <2>1, <2>2
<1>3. NoTriggers \in Ons
  <2>1. <<>> \in Seq(Values) /\ NoTrigger \in OnePush
    BY DEF OnePush
  <2> QED
    BY Zenon, <2>1 DEF Ons, NoTriggers
<1>4. Stepper(G, Ons)
  <2>1. ASSUME NEW c \in Nat \X Ons PROVE G[c] \in Ons
    <3>1. c[2] \in Ons
      BY Zenon
    <3> HIDE DEF N, Step
    <3>2. CASE c[1] \notin 1 .. N
      BY Zenon, <3>1, <3>2
    <3>3. CASE c[1] \in 1 .. N
      BY Zenon, <1>2, <3>1, <3>3
    <3> QED
      BY Zenon, <3>2, <3>3
  <2> HIDE DEF N, Step
  <2> QED
    BY Zenon, <2>1 DEF Stepper
<1>5. PICK g : Iterates(g, NoTriggers, G, Ons)
  <2> HIDE DEF G
  <2> QED
    BY Zenon, <1>3, <1>4, Iteration
<1>6. ASSUME NEW k \in 1 .. N PROVE g[k] = Step(k, g[k - 1])
  <2>1. k - 1 \in Nat /\ (k - 1) + 1 = k /\ k \in Nat
    BY <1>1
  <2>2. g[k] = G[<<k, g[k - 1]>>] /\ g[k - 1] \in Ons
    <3> HIDE DEF G
    <3> QED
      BY Zenon, <1>5, <2>1 DEF Iterates
  <2>3. <<k, g[k - 1]>> \in Nat \X Ons
    BY Zenon, <2>1, <2>2
  <2>4. G[<<k, g[k - 1]>>] = Step(k, g[k - 1])
    <3> HIDE DEF N, Step
    <3> QED
      BY Zenon, <2>3
  <2> HIDE DEF G, Step
  <2> QED
    BY Zenon, <2>2, <2>4
<1>7. g[0] = NoTriggers
  <2> HIDE DEF G
  <2> QED
    BY Zenon, <1>5 DEF Iterates
<1> DEFINE f == [k \in 0 .. N |-> g[k]]
<1>8. Eq(f)
  <2>1. ASSUME NEW k \in 0 .. N, k # 0 PROVE k \in 1 .. N /\ k - 1 \in 0 .. N
    BY <1>1, <2>1
  <2>2. \A k \in 0 .. N : f[k] = IF k = 0 THEN NoTriggers
                                 ELSE IF items[k][1] = "on" THEN parseOn(items[k][2], f[k - 1]) ELSE f[k - 1]
    <3> HIDE DEF N, items
    <3> QED
      BY Zenon, <1>6, <1>7, <2>1
  <2> HIDE DEF N, items
  <2> QED
    BY Zenon, <2>2
<1> DEFINE h == CHOOSE h : Eq(h)
<1>9. Eq(h)
  <2>1. \E x : Eq(x)
    BY Zenon, <1>8
  <2> HIDE DEF Eq
  <2> QED
    BY Zenon, <2>1
<1>10. Triggers(root) = h[N]
  BY Zenon DEF Triggers
<1>11. 0 \in 0 .. N => h[0] = NoTriggers
  <2> HIDE DEF N, items, h
  <2> QED
    BY Zenon, <1>9
<1>12. ASSUME NEW k \in 1 .. N PROVE h[k] = Step(k, h[k - 1])
  <2>1. k \in 0 .. N /\ k # 0
    BY <1>1
  <2> HIDE DEF N, items, h
  <2> QED
    BY Zenon, <1>9, <2>1
<1> DEFINE T == {k \in Nat : k \in 0 .. N => h[k] \in Ons}
<1> HIDE DEF h, Step
<1>13. 0 \in T
  BY Zenon, <1>3, <1>11
<1>14. ASSUME NEW k \in Nat, k \in T PROVE k + 1 \in T
  <2> SUFFICES ASSUME k + 1 \in 0 .. N PROVE h[k + 1] \in Ons
    OBVIOUS
  <2>1. k + 1 \in 1 .. N /\ k \in 0 .. N /\ (k + 1) - 1 = k
    BY <1>1
  <2>2. h[k] \in Ons
    BY Zenon, <1>14, <2>1
  <2> HIDE DEF N
  <2> QED
    BY Zenon, <1>2, <1>12, <2>1, <2>2
<1>15. Nat \subseteq T
  <2> HIDE DEF T
  <2> QED
    BY Zenon, <1>13, <1>14, NatSet
<1>16. N \in T /\ N \in 0 .. N
  BY <1>1, <1>15
<1> QED
  BY Zenon, <1>10, <1>16

LEMMA CronsType ==
  ASSUME NEW doc \in Nodes
  PROVE  Crons(doc) \in Seq(Values)
<1>1. CASE Parse(doc)[1]
  <2>1. ~workflowBad(doc)
    BY Zenon, <1>1 DEF Parse, Failed
  <2>2. Parse(doc)[2].on = Triggers(doc)
    BY Zenon, <2>1 DEF Parse, parseWorkflow
  <2>3. Triggers(doc).schedule \in Seq(Values)
    BY Zenon, <2>1, TriggersParsed DEF Ons
  <2> QED
    BY Zenon, <1>1, <2>2, <2>3 DEF Crons
<1>2. CASE ~Parse(doc)[1]
  BY <1>2 DEF Crons
<1> QED
  BY Zenon, <1>1, <1>2

LEMMA ListRepoType ==
  ASSUME NEW repo \in Range(Repos), NEW f, IsSeq(f), Range(f) \subseteq Nodes
  PROVE  ListRepo(repo, f) \in Seq(Schedule)
<1> DEFINE seqs == [i \in DOMAIN f |-> [c \in DOMAIN Crons(f[i]) |-> <<repo, i, Crons(f[i])[c]>>]]
<1>1. PICK N \in Nat : DOMAIN f = 1 .. N
  BY Zenon, SeqFacts
<1>2. ASSUME NEW i \in 1 .. N PROVE seqs[i] \in Seq(Schedule)
  <2>1. f[i] \in Nodes
    BY Zenon, <1>1 DEF Range
  <2>2. PICK cs \in Seq(Values) : cs = Crons(f[i])
    BY Zenon, <2>1, CronsType
  <2>3. PICK M \in Nat : M = Len(cs) /\ DOMAIN cs = 1 .. M
    BY <2>2
  <2>4. \A c \in 1 .. M : cs[c] \in Values
    BY <2>2, <2>3
  <2>5. \A c \in 1 .. M : <<repo, i, cs[c]>> \in Schedule
    <3>1. i \in Nat
      BY <1>1
    <3> QED
      BY Zenon, <2>4, <3>1 DEF Schedule
  <2>6. PICK g : g = seqs[i]
    BY Zenon
  <2>7. g = [c \in 1 .. M |-> <<repo, i, cs[c]>>]
    BY Zenon, <1>1, <2>2, <2>3, <2>6
  <2>8. g \in [1 .. M -> Schedule]
    BY Zenon, <2>5, <2>7
  <2> HIDE DEF seqs
  <2> QED
    BY <2>6, <2>8
<1>3. PICK R : R = Seq(Schedule)
  BY Zenon
<1>4. seqs \in Seq(Seq(Schedule))
  <2>1. seqs = [i \in 1 .. N |-> seqs[i]]
    BY Zenon, <1>1
  <2> HIDE DEF seqs
  <2>2. seqs \in [1 .. N -> R]
    BY Zenon, <1>2, <1>3, <2>1
  <2>3. seqs \in Seq(R)
    BY <2>2
  <2> QED
    BY Zenon, <1>3, <2>3
<1>5. ListRepo(repo, f) = FlattenSeq(seqs)
  BY Zenon DEF ListRepo
<1> HIDE DEF seqs
<1> QED
  BY Zenon, <1>4, <1>5, Flatten

LEMMA RepositoryFacts ==
  ASSUME NEW f \in Repositories
  PROVE  /\ \A r \in DOMAIN f : IsSeq(f[r]) /\ Range(f[r]) \subseteq Nodes
         /\ \A r \in Range(Repos) : r \in DOMAIN f
         /\ FilesOf(f) \subseteq Nodes
<1>1. FilesOf(f) \subseteq Nodes
  BY Zenon, FrontendAssumption
<1>2. \A r \in DOMAIN f : IsSeq(f[r])
  BY Zenon, FrontendAssumption DEF IsSeq
<1>3. ASSUME NEW r \in Range(Repos) PROVE r \in DOMAIN f
  <2>1. ScheduleEvent(r) \in Events /\ ScheduleEvent(r).repo = r
    BY Zenon DEF Events, ScheduleEvent
  <2> QED
    BY Zenon, <2>1, FrontendAssumption
<1> QED
  BY Zenon, <1>1, <1>2, <1>3 DEF FilesOf

LEMMA ListType ==
  ASSUME NEW f \in Repositories
  PROVE  List(Repos, f) \in Seq(Schedule)
<1> DEFINE seqs == [r \in DOMAIN Repos |-> ListRepo(Repos[r], f[Repos[r]])]
<1>1. PICK N \in Nat : DOMAIN Repos = 1 .. N /\ \A r \in 1 .. N : Repos[r] \in Range(Repos)
  <2>1. IsSeq(Repos)
    BY Zenon, FrontendAssumption DEF IsSeq
  <2> QED
    BY Zenon, <2>1, SeqFacts
<1>2. ASSUME NEW r \in 1 .. N PROVE seqs[r] \in Seq(Schedule)
  <2>1. IsSeq(f[Repos[r]]) /\ Range(f[Repos[r]]) \subseteq Nodes
    BY Zenon, <1>1, RepositoryFacts
  <2>2. seqs[r] = ListRepo(Repos[r], f[Repos[r]])
    BY Zenon, <1>1
  <2> QED
    BY Zenon, <1>1, <2>1, <2>2, ListRepoType
<1>3. PICK R : R = Seq(Schedule)
  BY Zenon
<1>4. seqs \in Seq(Seq(Schedule))
  <2>1. seqs = [r \in 1 .. N |-> seqs[r]]
    BY Zenon, <1>1
  <2> HIDE DEF seqs
  <2>2. seqs \in [1 .. N -> R]
    BY Zenon, <1>2, <1>3, <2>1
  <2>3. seqs \in Seq(R)
    BY <2>2
  <2> QED
    BY Zenon, <1>3, <2>3
<1>5. List(Repos, f) = FlattenSeq(seqs)
  BY Zenon DEF List
<1> HIDE DEF seqs
<1> QED
  BY Zenon, <1>4, <1>5, Flatten

-----------------------------------------------------------------------------
(***************************************************************************)
(* An unexpected entry makes the mapping it is in bad, whatever the        *)
(* mapping is read as, and what is bad inside a node makes the node bad.   *)
(***************************************************************************)
InMap(d, k, c) == d.kind = "map" /\ d.tag = "" /\ \E i \in DOMAIN d.items : d.items[i] = <<k, c>>

InList(d, c) == d.kind = "seq" /\ d.tag = "" /\ \E i \in DOMAIN d.items : d.items[i] = c

Around(d, k, c) == InMap(d, k, c) \/ (k = "" /\ InList(d, c))

Compound(d) == d.kind \in {"map", "seq"} /\ d.tag = ""

cronBad(d) == mappingBad(d, {"cron"}) \/ \E i \in DOMAIN d.items : scalarBad(d.items[i][2])

ValueBad(key, d) == Compound(d) /\ stringSeqBad(d) /\ (key \in {"env", "with"} => envMapBad(d))

StepLevel(key, d) == ValueBad(key, d) /\ stepBad(d) /\ matrixBad(d) /\ cronBad(d)

FieldLevel(key, d) ==
  ValueBad(key, d) /\ cronBad(d) /\ parseStepsBad(d) /\ parseStrategyBad(d) /\ parseNeedsBad(d)

JobLevel(key, d) == Compound(d) /\ parseJobBad(d) /\ parsePushBad(d) /\ parseScheduleBad(d)

TopLevel(key, d) == Compound(d) /\ parseJobsBad(d) /\ parseOnBad(d)

LEMMA CompoundFacts ==
  ASSUME NEW c, Compound(c)
  PROVE  scalarBad(c) /\ conditionBad(c) /\ c.kind # "scalar" /\ c.tag # "bool"
BY Zenon DEF Compound, scalarBad, conditionBad

LEMMA MapItem ==
  ASSUME NEW d, NEW k, NEW c, InMap(d, k, c)
  PROVE  /\ d.kind = "map" /\ Compound(d)
         /\ \E i \in DOMAIN d.items : d.items[i][1] = k /\ d.items[i][2] = c
<1>1. PICK i \in DOMAIN d.items : d.items[i] = <<k, c>>
  BY Zenon DEF InMap
<1>2. <<k, c>>[1] = k /\ <<k, c>>[2] = c
  BY Zenon
<1>3. d.items[i][1] = k /\ d.items[i][2] = c
  BY Zenon, <1>1, <1>2
<1>4. d.kind = "map" /\ Compound(d)
  BY Zenon DEF InMap, Compound
<1> QED
  BY Zenon, <1>3, <1>4

LEMMA EntryBad ==
  ASSUME NEW key, NEW n \in Nodes, NEW d \in Entry(key, n)
  PROVE  StepLevel(key, d) /\ FieldLevel(key, d) /\ JobLevel(key, d) /\ TopLevel(key, d) /\ workflowBad(d)
<1>1. n.kind = "map" /\ \E e \in Unexpected(key) : d = Mapping(Append(n.items, e))
  BY Zenon DEF Entry
<1>2. PICK e \in Unexpected(key) : d = Mapping(Append(n.items, e))
  BY Zenon, <1>1
<1>3. PICK k, v : k \in Misspelt /\ e = <<k, v>>
        /\ (v = Scalar("int", "1") \/ (key \notin {"env", "with"} /\ v = Scalar("str", "text")))
  BY <1>2 DEF Unexpected
<1>4. PICK s, S : s = n.items /\ s \in Seq(S)
  BY Zenon, SyntaxAssumption
<1>5. PICK t, i : t = Append(s, e) /\ i \in DOMAIN t /\ t[i] = e
  <2>1. Append(s, e)[Len(s) + 1] = e /\ Len(s) + 1 \in DOMAIN Append(s, e)
    BY <1>4
  <2> QED
    BY Zenon, <2>1
<1>6. d.kind = "map" /\ d.tag = "" /\ d.items = t
  BY Zenon, <1>2, <1>4, <1>5 DEF Mapping
<1>7. i \in DOMAIN d.items /\ d.items[i][1] = k /\ d.items[i][2] = v
  <2>1. <<k, v>>[1] = k /\ <<k, v>>[2] = v
    BY Zenon
  <2>2. i \in DOMAIN d.items /\ d.items[i] = <<k, v>>
    BY Zenon, <1>3, <1>5, <1>6
  <2> QED
    BY Zenon, <2>1, <2>2
<1>8. k \notin Fields
  BY Zenon, <1>3, FrontendAssumption
<1>9. \A A : A \subseteq Fields => mappingBad(d, A)
  BY Zenon, <1>7, <1>8 DEF mappingBad
<1>10. /\ StepFields \subseteq Fields /\ JobFields \subseteq Fields /\ {"name", "on", "jobs"} \subseteq Fields
       /\ {"push", "pull_request", "schedule"} \subseteq Fields
          /\ {"branches", "branches-ignore"} \subseteq Fields
       /\ {"matrix"} \subseteq Fields /\ {"cron"} \subseteq Fields
  BY Zenon DEF Fields
<1>11. v.kind = "scalar" /\ (key \in {"env", "with"} => v.tag = "int")
  BY <1>3 DEF Scalar
<1>12. Compound(d) /\ stringSeqBad(d)
  BY Zenon, <1>6 DEF Compound, stringSeqBad
<1>13. key \in {"env", "with"} => envMapBad(d)
  BY Zenon, <1>7, <1>11 DEF envMapBad, scalarBad
<1>14. ValueBad(key, d)
  BY Zenon, <1>12, <1>13 DEF ValueBad
<1>15. stepBad(d) /\ cronBad(d) /\ parseStrategyBad(d) /\ parseJobBad(d) /\ workflowBad(d)
  BY Zenon, <1>9, <1>10 DEF stepBad, cronBad, parseStrategyBad, parseJobBad, workflowBad
<1>16. matrixBad(d)
  <2>1. stringSeqBad(d.items[i][2])
    BY Zenon, <1>7, <1>11 DEF stringSeqBad
  <2> QED
    BY Zenon, <1>7, <2>1 DEF matrixBad
<1>17. parseStepsBad(d) /\ parseNeedsBad(d) /\ parseScheduleBad(d)
  BY Zenon, <1>6, <1>12 DEF parseStepsBad, parseNeedsBad, parseScheduleBad
<1>18. parsePushBad(d) /\ parseOnBad(d)
  BY Zenon, <1>6, <1>9, <1>10 DEF parsePushBad, parseOnBad
<1>19. parseJobsBad(d)
  <2>1. parseJobBad(d.items[i][2])
    BY Zenon, <1>7, <1>11 DEF parseJobBad, mappingBad
  <2> QED
    BY Zenon, <1>7, <2>1 DEF parseJobsBad
<1> QED
  BY Zenon, <1>12, <1>14, <1>15, <1>16, <1>17, <1>18, <1>19 DEF StepLevel, FieldLevel, JobLevel, TopLevel

LEMMA AroundCompound ==
  ASSUME NEW key, NEW d, NEW k, NEW c, Around(d, k, c), Compound(c)
  PROVE  ValueBad(key, d) /\ cronBad(d)
<1>1. scalarBad(c)
  BY Zenon, CompoundFacts
<1>2. CASE InMap(d, k, c)
  <2>1. PICK i \in DOMAIN d.items : d.items[i][1] = k /\ d.items[i][2] = c
    BY <1>2, MapItem
  <2>2. d.kind = "map" /\ Compound(d)
    BY Zenon, <1>2, MapItem
  <2> QED
    BY Zenon, <1>1, <2>1, <2>2 DEF ValueBad, stringSeqBad, envMapBad, cronBad
<1>3. CASE InList(d, c)
  <2>1. PICK i \in DOMAIN d.items : d.items[i] = c
    BY Zenon, <1>3 DEF InList
  <2>2. d.kind = "seq" /\ Compound(d)
    BY Zenon, <1>3 DEF InList, Compound
  <2> QED
    BY Zenon, <1>1, <2>1, <2>2 DEF ValueBad, stringSeqBad, envMapBad, cronBad, mappingBad
<1> QED
  BY Zenon, <1>2, <1>3 DEF Around

LEMMA LiftToStep ==
  ASSUME NEW key, NEW d, NEW k, NEW c, Around(d, k, c), ValueBad(k, c)
  PROVE  StepLevel(key, d)
<1>1. Compound(c) /\ stringSeqBad(c) /\ (k \in {"env", "with"} => envMapBad(c))
  BY Zenon DEF ValueBad
<1>2. scalarBad(c) /\ conditionBad(c) /\ c.tag # "bool"
  BY Zenon, <1>1, CompoundFacts
<1>3. ValueBad(key, d) /\ cronBad(d)
  BY Zenon, <1>1, AroundCompound
<1>4. CASE InMap(d, k, c)
  <2>1. PICK i \in DOMAIN d.items : d.items[i][1] = k /\ d.items[i][2] = c
    BY <1>4, MapItem
  <2>2. stepBad(d)
    BY Zenon, <1>1, <1>2, <2>1 DEF stepBad
  <2>3. matrixBad(d)
    BY Zenon, <1>1, <2>1 DEF matrixBad
  <2> QED
    BY Zenon, <1>3, <2>2, <2>3 DEF StepLevel
<1>5. CASE InList(d, c)
  BY Zenon, <1>3, <1>5 DEF InList, stepBad, mappingBad, matrixBad, StepLevel
<1> QED
  BY Zenon, <1>4, <1>5 DEF Around

LEMMA LiftToField ==
  ASSUME NEW key, NEW d, NEW k, NEW c, Around(d, k, c), StepLevel(k, c)
  PROVE  FieldLevel(key, d)
<1>1. Compound(c) /\ stepBad(c) /\ matrixBad(c)
  BY Zenon DEF StepLevel, ValueBad
<1>2. ValueBad(key, d) /\ cronBad(d)
  BY Zenon, <1>1, AroundCompound
<1>3. parseNeedsBad(d)
  BY Zenon, <1>2, CompoundFacts DEF parseNeedsBad, ValueBad
<1>4. CASE InMap(d, k, c)
  <2>1. PICK i \in DOMAIN d.items : d.items[i][1] = k /\ d.items[i][2] = c
    BY <1>4, MapItem
  <2>2. d.kind = "map"
    BY Zenon, <1>4, MapItem
  <2> QED
    BY Zenon, <1>1, <1>2, <1>3, <2>1, <2>2 DEF parseStepsBad, parseStrategyBad, FieldLevel
<1>5. CASE InList(d, c)
  <2>1. PICK i \in DOMAIN d.items : d.items[i] = c
    BY Zenon, <1>5 DEF InList
  <2>2. d.kind = "seq"
    BY Zenon, <1>5 DEF InList
  <2> QED
    BY Zenon, <1>1, <1>2, <1>3, <2>1, <2>2 DEF parseStepsBad, parseStrategyBad, mappingBad, FieldLevel
<1> QED
  BY Zenon, <1>4, <1>5 DEF Around

LEMMA LiftToJob ==
  ASSUME NEW key, NEW d, NEW k, NEW c, Around(d, k, c), FieldLevel(k, c)
  PROVE  JobLevel(key, d)
<1>1. /\ Compound(c) /\ stringSeqBad(c) /\ (k = "env" => envMapBad(c)) /\ cronBad(c)
      /\ parseStepsBad(c) /\ parseStrategyBad(c) /\ parseNeedsBad(c)
  BY Zenon DEF FieldLevel, ValueBad
<1>2. scalarBad(c) /\ conditionBad(c)
  BY Zenon, <1>1, CompoundFacts
<1>3. CASE InMap(d, k, c)
  <2>1. PICK i \in DOMAIN d.items : d.items[i][1] = k /\ d.items[i][2] = c
    BY <1>3, MapItem
  <2>2. d.kind = "map" /\ Compound(d)
    BY Zenon, <1>3, MapItem
  <2>3. parseJobBad(d)
    BY Zenon, <1>1, <1>2, <2>1 DEF parseJobBad
  <2>4. parsePushBad(d) /\ parseScheduleBad(d)
    BY Zenon, <1>1, <2>1, <2>2 DEF parsePushBad, parseScheduleBad
  <2> QED
    BY Zenon, <2>2, <2>3, <2>4 DEF JobLevel
<1>4. CASE InList(d, c)
  <2>1. PICK i \in DOMAIN d.items : d.items[i] = c
    BY Zenon, <1>4 DEF InList
  <2>2. d.kind = "seq" /\ Compound(d)
    BY Zenon, <1>4 DEF InList, Compound
  <2>3. parseScheduleBad(d)
    BY Zenon, <1>1, <2>1 DEF parseScheduleBad, cronBad
  <2>4. parseJobBad(d) /\ parsePushBad(d)
    BY Zenon, <2>2 DEF parseJobBad, parsePushBad, mappingBad
  <2> QED
    BY Zenon, <2>2, <2>3, <2>4 DEF JobLevel
<1> QED
  BY Zenon, <1>3, <1>4 DEF Around

LEMMA LiftToTop ==
  ASSUME NEW key, NEW d, NEW k, NEW c, Around(d, k, c), JobLevel(k, c)
  PROVE  TopLevel(key, d)
<1>1. Compound(c) /\ parseJobBad(c) /\ parsePushBad(c) /\ parseScheduleBad(c)
  BY Zenon DEF JobLevel
<1>2. CASE InMap(d, k, c)
  <2>1. PICK i \in DOMAIN d.items : d.items[i][1] = k /\ d.items[i][2] = c
    BY <1>2, MapItem
  <2>2. d.kind = "map" /\ Compound(d)
    BY Zenon, <1>2, MapItem
  <2> QED
    BY Zenon, <1>1, <2>1, <2>2 DEF TopLevel, parseJobsBad, parseOnBad
<1>3. CASE InList(d, c)
  BY Zenon, <1>3 DEF InList, Compound, TopLevel, parseJobsBad, parseOnBad, mappingBad
<1> QED
  BY Zenon, <1>2, <1>3 DEF Around

LEMMA LiftToRoot ==
  ASSUME NEW d, NEW k, NEW c, Around(d, k, c), TopLevel(k, c)
  PROVE  workflowBad(d)
<1>1. Compound(c) /\ parseJobsBad(c) /\ parseOnBad(c) /\ scalarBad(c)
  BY Zenon, CompoundFacts DEF TopLevel
<1>2. CASE InMap(d, k, c)
  <2>1. PICK i \in DOMAIN d.items : d.items[i][1] = k /\ d.items[i][2] = c
    BY <1>2, MapItem
  <2> QED
    BY Zenon, <1>1, <2>1 DEF workflowBad
<1>3. CASE InList(d, c)
  BY Zenon, <1>3 DEF InList, workflowBad, mappingBad
<1> QED
  BY Zenon, <1>2, <1>3 DEF Around

LEMMA DeeperEntry ==
  ASSUME NEW n \in Nodes, NEW d \in Deeper(n, Entry)
  PROVE  \E k : \E m \in Nodes : \E c \in Entry(k, m) : Around(d, k, c)
<1>1. PICK s, S : s = n.items /\ s \in Seq(S)
  BY Zenon, SyntaxAssumption
<1>2. CASE n.kind = "map"
  <2>1. PICK i \in DOMAIN s : \E c \in Entry(s[i][1], s[i][2]) : d = Mapping([s EXCEPT ![i] = <<s[i][1], c>>])
    BY Zenon, <1>1, <1>2 DEF Deeper
  <2>2. PICK k, m : k = s[i][1] /\ m = s[i][2]
    BY Zenon
  <2>3. PICK c \in Entry(k, m) : d = Mapping([s EXCEPT ![i] = <<k, c>>])
    BY Zenon, <2>1, <2>2
  <2>4. m \in Nodes
    BY Zenon, <1>1, <1>2, <2>2, NodeFacts DEF Read
  <2>5. i \in DOMAIN d.items /\ d.items[i] = <<k, c>>
    BY Zenon, <2>3 DEF Mapping
  <2>6. Around(d, k, c)
    BY Zenon, <2>3, <2>5 DEF Around, InMap, Mapping
  <2> QED
    BY Zenon, <2>3, <2>4, <2>6
<1>3. CASE n.kind # "map"
  <2>1. PICK i \in DOMAIN s : \E c \in Entry("", s[i]) : d = Listing([s EXCEPT ![i] = c])
    BY Zenon, <1>1, <1>3 DEF Deeper
  <2>2. PICK c \in Entry("", s[i]) : d = Listing([s EXCEPT ![i] = c])
    BY Zenon, <2>1
  <2>3. s[i] \in Nodes
    BY Zenon, <1>1, <1>3, NodeFacts DEF Read
  <2>4. i \in DOMAIN d.items /\ d.items[i] = c
    BY Zenon, <2>2 DEF Listing
  <2>5. Around(d, "", c)
    BY Zenon, <2>2, <2>4 DEF Around, InList, Listing
  <2> QED
    BY Zenon, <2>2, <2>3, <2>5
<1> QED
  BY Zenon, <1>2, <1>3

LEMMA DeeperStep ==
  ASSUME NEW n \in Nodes, NEW d \in Deeper(n, Injected1)
  PROVE  \E k : \E m \in Nodes : \E c \in Injected1(k, m) : Around(d, k, c)
<1>1. PICK s, S : s = n.items /\ s \in Seq(S)
  BY Zenon, SyntaxAssumption
<1>2. CASE n.kind = "map"
  <2>1. PICK i \in DOMAIN s : \E c \in Injected1(s[i][1], s[i][2]) :
          d = Mapping([s EXCEPT ![i] = <<s[i][1], c>>])
    BY Zenon, <1>1, <1>2 DEF Deeper
  <2>2. PICK k, m : k = s[i][1] /\ m = s[i][2]
    BY Zenon
  <2>3. PICK c \in Injected1(k, m) : d = Mapping([s EXCEPT ![i] = <<k, c>>])
    BY Zenon, <2>1, <2>2
  <2>4. m \in Nodes
    BY Zenon, <1>1, <1>2, <2>2, NodeFacts DEF Read
  <2>5. i \in DOMAIN d.items /\ d.items[i] = <<k, c>>
    BY Zenon, <2>3 DEF Mapping
  <2>6. Around(d, k, c)
    BY Zenon, <2>3, <2>5 DEF Around, InMap, Mapping
  <2> QED
    BY Zenon, <2>3, <2>4, <2>6
<1>3. CASE n.kind # "map"
  <2>1. PICK i \in DOMAIN s : \E c \in Injected1("", s[i]) : d = Listing([s EXCEPT ![i] = c])
    BY Zenon, <1>1, <1>3 DEF Deeper
  <2>2. PICK c \in Injected1("", s[i]) : d = Listing([s EXCEPT ![i] = c])
    BY Zenon, <2>1
  <2>3. s[i] \in Nodes
    BY Zenon, <1>1, <1>3, NodeFacts DEF Read
  <2>4. i \in DOMAIN d.items /\ d.items[i] = c
    BY Zenon, <2>2 DEF Listing
  <2>5. Around(d, "", c)
    BY Zenon, <2>2, <2>4 DEF Around, InList, Listing
  <2> QED
    BY Zenon, <2>2, <2>3, <2>5
<1> QED
  BY Zenon, <1>2, <1>3

LEMMA DeeperField ==
  ASSUME NEW n \in Nodes, NEW d \in Deeper(n, Injected2)
  PROVE  \E k : \E m \in Nodes : \E c \in Injected2(k, m) : Around(d, k, c)
<1>1. PICK s, S : s = n.items /\ s \in Seq(S)
  BY Zenon, SyntaxAssumption
<1>2. CASE n.kind = "map"
  <2>1. PICK i \in DOMAIN s : \E c \in Injected2(s[i][1], s[i][2]) :
          d = Mapping([s EXCEPT ![i] = <<s[i][1], c>>])
    BY Zenon, <1>1, <1>2 DEF Deeper
  <2>2. PICK k, m : k = s[i][1] /\ m = s[i][2]
    BY Zenon
  <2>3. PICK c \in Injected2(k, m) : d = Mapping([s EXCEPT ![i] = <<k, c>>])
    BY Zenon, <2>1, <2>2
  <2>4. m \in Nodes
    BY Zenon, <1>1, <1>2, <2>2, NodeFacts DEF Read
  <2>5. i \in DOMAIN d.items /\ d.items[i] = <<k, c>>
    BY Zenon, <2>3 DEF Mapping
  <2>6. Around(d, k, c)
    BY Zenon, <2>3, <2>5 DEF Around, InMap, Mapping
  <2> QED
    BY Zenon, <2>3, <2>4, <2>6
<1>3. CASE n.kind # "map"
  <2>1. PICK i \in DOMAIN s : \E c \in Injected2("", s[i]) : d = Listing([s EXCEPT ![i] = c])
    BY Zenon, <1>1, <1>3 DEF Deeper
  <2>2. PICK c \in Injected2("", s[i]) : d = Listing([s EXCEPT ![i] = c])
    BY Zenon, <2>1
  <2>3. s[i] \in Nodes
    BY Zenon, <1>1, <1>3, NodeFacts DEF Read
  <2>4. i \in DOMAIN d.items /\ d.items[i] = c
    BY Zenon, <2>2 DEF Listing
  <2>5. Around(d, "", c)
    BY Zenon, <2>2, <2>4 DEF Around, InList, Listing
  <2> QED
    BY Zenon, <2>2, <2>3, <2>5
<1> QED
  BY Zenon, <1>2, <1>3

LEMMA DeeperJob ==
  ASSUME NEW n \in Nodes, NEW d \in Deeper(n, Injected3)
  PROVE  \E k : \E m \in Nodes : \E c \in Injected3(k, m) : Around(d, k, c)
<1>1. PICK s, S : s = n.items /\ s \in Seq(S)
  BY Zenon, SyntaxAssumption
<1>2. CASE n.kind = "map"
  <2>1. PICK i \in DOMAIN s : \E c \in Injected3(s[i][1], s[i][2]) :
          d = Mapping([s EXCEPT ![i] = <<s[i][1], c>>])
    BY Zenon, <1>1, <1>2 DEF Deeper
  <2>2. PICK k, m : k = s[i][1] /\ m = s[i][2]
    BY Zenon
  <2>3. PICK c \in Injected3(k, m) : d = Mapping([s EXCEPT ![i] = <<k, c>>])
    BY Zenon, <2>1, <2>2
  <2>4. m \in Nodes
    BY Zenon, <1>1, <1>2, <2>2, NodeFacts DEF Read
  <2>5. i \in DOMAIN d.items /\ d.items[i] = <<k, c>>
    BY Zenon, <2>3 DEF Mapping
  <2>6. Around(d, k, c)
    BY Zenon, <2>3, <2>5 DEF Around, InMap, Mapping
  <2> QED
    BY Zenon, <2>3, <2>4, <2>6
<1>3. CASE n.kind # "map"
  <2>1. PICK i \in DOMAIN s : \E c \in Injected3("", s[i]) : d = Listing([s EXCEPT ![i] = c])
    BY Zenon, <1>1, <1>3 DEF Deeper
  <2>2. PICK c \in Injected3("", s[i]) : d = Listing([s EXCEPT ![i] = c])
    BY Zenon, <2>1
  <2>3. s[i] \in Nodes
    BY Zenon, <1>1, <1>3, NodeFacts DEF Read
  <2>4. i \in DOMAIN d.items /\ d.items[i] = c
    BY Zenon, <2>2 DEF Listing
  <2>5. Around(d, "", c)
    BY Zenon, <2>2, <2>4 DEF Around, InList, Listing
  <2> QED
    BY Zenon, <2>2, <2>3, <2>5
<1> QED
  BY Zenon, <1>2, <1>3

LEMMA DeeperTop ==
  ASSUME NEW n \in Nodes, NEW d \in Deeper(n, Injected4)
  PROVE  \E k : \E m \in Nodes : \E c \in Injected4(k, m) : Around(d, k, c)
<1>1. PICK s, S : s = n.items /\ s \in Seq(S)
  BY Zenon, SyntaxAssumption
<1>2. CASE n.kind = "map"
  <2>1. PICK i \in DOMAIN s : \E c \in Injected4(s[i][1], s[i][2]) :
          d = Mapping([s EXCEPT ![i] = <<s[i][1], c>>])
    BY Zenon, <1>1, <1>2 DEF Deeper
  <2>2. PICK k, m : k = s[i][1] /\ m = s[i][2]
    BY Zenon
  <2>3. PICK c \in Injected4(k, m) : d = Mapping([s EXCEPT ![i] = <<k, c>>])
    BY Zenon, <2>1, <2>2
  <2>4. m \in Nodes
    BY Zenon, <1>1, <1>2, <2>2, NodeFacts DEF Read
  <2>5. i \in DOMAIN d.items /\ d.items[i] = <<k, c>>
    BY Zenon, <2>3 DEF Mapping
  <2>6. Around(d, k, c)
    BY Zenon, <2>3, <2>5 DEF Around, InMap, Mapping
  <2> QED
    BY Zenon, <2>3, <2>4, <2>6
<1>3. CASE n.kind # "map"
  <2>1. PICK i \in DOMAIN s : \E c \in Injected4("", s[i]) : d = Listing([s EXCEPT ![i] = c])
    BY Zenon, <1>1, <1>3 DEF Deeper
  <2>2. PICK c \in Injected4("", s[i]) : d = Listing([s EXCEPT ![i] = c])
    BY Zenon, <2>1
  <2>3. s[i] \in Nodes
    BY Zenon, <1>1, <1>3, NodeFacts DEF Read
  <2>4. i \in DOMAIN d.items /\ d.items[i] = c
    BY Zenon, <2>2 DEF Listing
  <2>5. Around(d, "", c)
    BY Zenon, <2>2, <2>4 DEF Around, InList, Listing
  <2> QED
    BY Zenon, <2>2, <2>3, <2>5
<1> QED
  BY Zenon, <1>2, <1>3

LEMMA InjectedStep ==
  ASSUME NEW key, NEW n \in Nodes, NEW d \in Injected1(key, n)
  PROVE  StepLevel(key, d)
<1>1. CASE d \in Entry(key, n)
  BY Zenon, <1>1, EntryBad
<1>2. CASE d \in Deeper(n, Entry)
  <2>1. PICK k : \E m \in Nodes : \E c \in Entry(k, m) : Around(d, k, c)
    BY Zenon, <1>2, DeeperEntry
  <2>2. PICK m \in Nodes : \E c \in Entry(k, m) : Around(d, k, c)
    BY Zenon, <2>1
  <2>3. PICK c \in Entry(k, m) : Around(d, k, c)
    BY Zenon, <2>2
  <2>4. ValueBad(k, c)
    BY Zenon, <2>3, EntryBad DEF StepLevel
  <2> QED
    BY Zenon, <2>3, <2>4, LiftToStep
<1> QED
  BY Zenon, <1>1, <1>2 DEF Injected1

LEMMA InjectedField ==
  ASSUME NEW key, NEW n \in Nodes, NEW d \in Injected2(key, n)
  PROVE  FieldLevel(key, d)
<1>1. CASE d \in Entry(key, n)
  BY Zenon, <1>1, EntryBad
<1>2. CASE d \in Deeper(n, Injected1)
  <2>1. PICK k : \E m \in Nodes : \E c \in Injected1(k, m) : Around(d, k, c)
    BY Zenon, <1>2, DeeperStep
  <2>2. PICK m \in Nodes : \E c \in Injected1(k, m) : Around(d, k, c)
    BY Zenon, <2>1
  <2>3. PICK c \in Injected1(k, m) : Around(d, k, c)
    BY Zenon, <2>2
  <2>4. StepLevel(k, c)
    BY Zenon, <2>3, InjectedStep
  <2> QED
    BY Zenon, <2>3, <2>4, LiftToField
<1> QED
  BY Zenon, <1>1, <1>2 DEF Injected2

LEMMA InjectedJob ==
  ASSUME NEW key, NEW n \in Nodes, NEW d \in Injected3(key, n)
  PROVE  JobLevel(key, d)
<1>1. CASE d \in Entry(key, n)
  BY Zenon, <1>1, EntryBad
<1>2. CASE d \in Deeper(n, Injected2)
  <2>1. PICK k : \E m \in Nodes : \E c \in Injected2(k, m) : Around(d, k, c)
    BY Zenon, <1>2, DeeperField
  <2>2. PICK m \in Nodes : \E c \in Injected2(k, m) : Around(d, k, c)
    BY Zenon, <2>1
  <2>3. PICK c \in Injected2(k, m) : Around(d, k, c)
    BY Zenon, <2>2
  <2>4. FieldLevel(k, c)
    BY Zenon, <2>3, InjectedField
  <2> QED
    BY Zenon, <2>3, <2>4, LiftToJob
<1> QED
  BY Zenon, <1>1, <1>2 DEF Injected3

LEMMA InjectedTop ==
  ASSUME NEW key, NEW n \in Nodes, NEW d \in Injected4(key, n)
  PROVE  TopLevel(key, d)
<1>1. CASE d \in Entry(key, n)
  BY Zenon, <1>1, EntryBad
<1>2. CASE d \in Deeper(n, Injected3)
  <2>1. PICK k : \E m \in Nodes : \E c \in Injected3(k, m) : Around(d, k, c)
    BY Zenon, <1>2, DeeperJob
  <2>2. PICK m \in Nodes : \E c \in Injected3(k, m) : Around(d, k, c)
    BY Zenon, <2>1
  <2>3. PICK c \in Injected3(k, m) : Around(d, k, c)
    BY Zenon, <2>2
  <2>4. JobLevel(k, c)
    BY Zenon, <2>3, InjectedJob
  <2> QED
    BY Zenon, <2>3, <2>4, LiftToTop
<1> QED
  BY Zenon, <1>1, <1>2 DEF Injected4

LEMMA InjectedRefused ==
  ASSUME NEW doc \in Nodes, NEW d \in Injected(doc)
  PROVE  ~Parse(d)[1]
<1>1. workflowBad(d)
  <2>1. CASE d \in Entry("", doc)
    BY Zenon, <2>1, EntryBad
  <2>2. CASE d \in Deeper(doc, Injected4)
    <3>1. PICK k : \E m \in Nodes : \E c \in Injected4(k, m) : Around(d, k, c)
      BY Zenon, <2>2, DeeperTop
    <3>2. PICK m \in Nodes : \E c \in Injected4(k, m) : Around(d, k, c)
      BY Zenon, <3>1
    <3>3. PICK c \in Injected4(k, m) : Around(d, k, c)
      BY Zenon, <3>2
    <3>4. TopLevel(k, c)
      BY Zenon, <3>3, InjectedTop
    <3> QED
      BY Zenon, <3>3, <3>4, LiftToRoot
  <2> QED
    BY Zenon, <2>1, <2>2 DEF Injected
<1>2. Parse(d) = Failed
  BY Zenon, <1>1 DEF Parse
<1> QED
  BY <1>2 DEF Failed

-----------------------------------------------------------------------------
(***************************************************************************)
(* The inductive invariant.  A run is a webhook's or a slot's; the slots   *)
(* that have a run are in the past, for the clock and for the tick that is *)
(* under way, which reads the clock once.                                  *)
(***************************************************************************)
Entries == {listed[i] : i \in DOMAIN listed}

HookKeys == {[source |-> <<d>>, slot |-> 0] : d \in DOMAIN Webhooks}

Past(key) ==
  /\ key \in [source : Schedule, slot : Nat] /\ key.slot \in FiresOf(key.source)
  /\ key.slot <= clock
  /\ tick.at # "idle" => key.slot <= tick.now

TypeInv ==
  /\ listed \in Seq(Schedule) /\ fired \in [Entries -> Nat]
  /\ clock \in Nat
  /\ tick \in [at : {"idle", "next", "emitted"}, now : Nat, list : Seq(Entries), slot : Nat]
  /\ tick.at # "idle" => tick.list # <<>> /\ tick.now <= clock
  /\ runs \in Seq({runs[i] : i \in DOMAIN runs})

KeysInv == \A i \in DOMAIN runs : runs[i].key \in HookKeys \/ Past(runs[i].key)

FrontInv == TypeInv /\ KeysInv /\ OneRunPerSlot

-----------------------------------------------------------------------------
(***************************************************************************)
(* A set of naturals with a bound has a largest element.                   *)
(***************************************************************************)
LEMMA Largest ==
  ASSUME NEW S \in SUBSET Nat, NEW n \in Nat, \A t \in S : t <= n, S # {}
  PROVE  Max(S) \in S /\ \A t \in S : t <= Max(S)
<1> DEFINE Less == {p \in Nat \X Nat : p[1] < p[2]}
           D == {n - t : t \in S}
<1>1. IsWellFoundedOn(Less, Nat)
  BY Zenon, NatLessThanWellFounded DEF OpToRel
<1>2. D \subseteq Nat /\ D # {}
  <2>1. \A t \in S : t \in Nat /\ t <= n
    BY Zenon
  <2>2. \A t \in Nat : t <= n => n - t \in Nat
    OBVIOUS
  <2>3. D \subseteq Nat
    BY Zenon, <2>1, <2>2
  <2>4. D # {}
    BY Zenon
  <2> QED
    BY Zenon, <2>3, <2>4
<1>3. PICK d \in D : \A e \in D : ~(<<e, d>> \in Less)
  <2> HIDE DEF Less, D
  <2> QED
    BY Zenon, <1>1, <1>2, WFMin
<1>4. PICK m \in S : d = n - m
  BY Zenon, <1>3
<1>5. ASSUME NEW t \in S PROVE m >= t
  <2>1. n - t \in D /\ n - t \in Nat /\ n - m \in Nat
    BY Zenon, <1>2, <1>4
  <2>2. ~(n - t < n - m)
    BY Zenon, <1>3, <1>4, <2>1
  <2>3. m \in Nat /\ t \in Nat
    BY Zenon
  <2> QED
    BY <2>2, <2>3
<1>6. Max(S) \in S /\ \A t \in S : Max(S) >= t
  BY Zenon, <1>5 DEF Max
<1> QED
  BY Zenon, <1>6

(***************************************************************************)
(* Tick picks, of all the slots up to now, the last one: the ones before   *)
(* the cursor are older still.                                             *)
(***************************************************************************)
LEMMA LatestIsLast ==
  ASSUME NEW s \in Schedule, fired[s] \in Nat, NEW now \in Nat, Due(s, now) # {}
  PROVE  /\ Latest(s, now) \in FiresOf(s) /\ Latest(s, now) \in Nat /\ Latest(s, now) <= now
         /\ \A t \in FiresOf(s) : t <= now => t <= Latest(s, now)
<1>1. FiresOf(s) \subseteq Nat
  BY FrontendAssumption DEF FiresOf
<1>2. PICK cursor \in Int : Due(s, now) = {t \in FiresOf(s) : cursor < t /\ t <= now}
  <2>1. (IF fired[s] = 0 THEN now - Window ELSE fired[s]) \in Int
    BY FrontendAssumption
  <2> QED
    BY Zenon, <2>1 DEF Due
<1>3. Due(s, now) \in SUBSET Nat /\ \A t \in Due(s, now) : t <= now
  BY Zenon, <1>1, <1>2
<1>4. /\ Latest(s, now) \in Due(s, now)
      /\ \A t \in Due(s, now) : t <= Latest(s, now)
  BY Zenon, <1>3, Largest DEF Latest
<1>5. ASSUME NEW t \in FiresOf(s), t <= now PROVE t <= Latest(s, now)
  <2>1. CASE cursor < t
    BY Zenon, <1>2, <1>4, <1>5, <2>1
  <2>2. CASE ~(cursor < t)
    BY <1>1, <1>2, <1>4, <1>5, <2>2
  <2> QED
    BY Zenon, <2>1, <2>2
<1> QED
  BY Zenon, <1>1, <1>2, <1>4, <1>5

(***************************************************************************)
(* A run is put behind the others.                                         *)
(***************************************************************************)
LEMMA Appended ==
  ASSUME NEW S, NEW rs \in Seq(S), NEW e
  PROVE  /\ Append(rs, e) \in Seq({Append(rs, e)[i] : i \in DOMAIN Append(rs, e)})
         /\ DOMAIN Append(rs, e) = DOMAIN rs \cup {Len(rs) + 1}
         /\ \A i \in DOMAIN rs : i \in Nat /\ i <= Len(rs) /\ Append(rs, e)[i] = rs[i]
         /\ Append(rs, e)[Len(rs) + 1] = e
         /\ Len(rs) \in Nat
<1> DEFINE T == S \cup {e}
           new == Append(rs, e)
<1>1. rs \in Seq(T) /\ e \in T
  OBVIOUS
<1>2. Len(rs) \in Nat /\ DOMAIN rs = 1 .. Len(rs)
  BY <1>1
<1>3. /\ new \in Seq(T) /\ Len(new) = Len(rs) + 1
      /\ \A i \in 1 .. Len(rs) : new[i] = rs[i]
      /\ new[Len(rs) + 1] = e
  <2> HIDE DEF T
  <2> QED
    BY <1>1
<1>4. DOMAIN new = 1 .. (Len(rs) + 1)
  <2> HIDE DEF T
  <2> QED
    BY <1>3
<1>5. DOMAIN new = DOMAIN rs \cup {Len(rs) + 1}
  BY <1>2, <1>4
<1>6. new \in Seq({new[i] : i \in DOMAIN new})
  <2>1. new = [i \in 1 .. (Len(rs) + 1) |-> new[i]]
    <3> HIDE DEF T, new
    <3> QED
      BY <1>3, <1>4
  <2> HIDE DEF new
  <2> QED
    BY <1>2, <1>4, <2>1
<1> QED
  BY <1>2, <1>3, <1>5, <1>6

-----------------------------------------------------------------------------
(***************************************************************************)
(* What is in the past stays there: the clock goes on, and a tick keeps    *)
(* the time it read.                                                       *)
(***************************************************************************)
LEMMA PastStays ==
  ASSUME FrontInv, clock' \in Nat, clock <= clock',
         tick'.at # "idle" => \/ tick.at # "idle" /\ tick'.now = tick.now
                              \/ tick'.now = clock,
         NEW key, Past(key)
  PROVE  Past(key)'
BY DEF Past, FrontInv, TypeInv

(***************************************************************************)
(* A run that is newer than those of its source keeps the runs in order.   *)
(***************************************************************************)
LEMMA NewestRun ==
  ASSUME FrontInv, NEW key, NEW ev, runs' = Append(runs, NewRun(key, ev)),
         \A i \in DOMAIN runs : runs[i].key.source = key.source => runs[i].key.slot < key.slot
  PROVE  /\ runs' \in Seq({runs'[i] : i \in DOMAIN runs'}) /\ OneRunPerSlot'
         /\ \A i \in DOMAIN runs' : (i \in DOMAIN runs /\ runs'[i] = runs[i]) \/ runs'[i].key = key
<1>1. runs \in Seq({runs[i] : i \in DOMAIN runs})
  BY Zenon DEF FrontInv, TypeInv
<1>2. NewRun(key, ev).key = key
  BY Zenon DEF NewRun
<1>3. PICK n \in Nat :
        /\ runs' \in Seq({runs'[i] : i \in DOMAIN runs'})
        /\ DOMAIN runs' = DOMAIN runs \cup {n + 1}
        /\ \A i \in DOMAIN runs : i \in Nat /\ i <= n /\ runs'[i] = runs[i]
        /\ runs'[n + 1].key = key
  <2>1. PICK e : e = NewRun(key, ev)
    BY Zenon
  <2>2. /\ Append(runs, e) \in Seq({Append(runs, e)[i] : i \in DOMAIN Append(runs, e)})
        /\ DOMAIN Append(runs, e) = DOMAIN runs \cup {Len(runs) + 1}
        /\ \A i \in DOMAIN runs : i \in Nat /\ i <= Len(runs) /\ Append(runs, e)[i] = runs[i]
        /\ Append(runs, e)[Len(runs) + 1] = e
        /\ Len(runs) \in Nat
    BY <1>1, Appended
  <2>3. runs' = Append(runs, e) /\ e.key = key
    BY Zenon, <1>2, <2>1
  <2> QED
    BY Zenon, <2>2, <2>3
<1>4. OneRunPerSlot'
  <2> SUFFICES ASSUME NEW i \in DOMAIN runs', NEW j \in DOMAIN runs', i < j,
                      runs'[i].key.source = runs'[j].key.source
               PROVE  runs'[i].key.slot < runs'[j].key.slot
    BY Zenon DEF OneRunPerSlot
  <2>1. i \in DOMAIN runs
    BY <1>3
  <2>2. CASE j \in DOMAIN runs
    BY Zenon, <1>3, <2>1, <2>2 DEF FrontInv, OneRunPerSlot
  <2>3. CASE j = n + 1
    BY Zenon, <1>3, <2>1, <2>3
  <2> QED
    BY Zenon, <1>3, <2>2, <2>3
<1> QED
  BY Zenon, <1>3, <1>4

(***************************************************************************)
(* A webhook's delivery has its first run when it gets one.                *)
(***************************************************************************)
LEMMA HookIsNew ==
  ASSUME FrontInv, NEW d \in DOMAIN Webhooks, NEW key, key = [source |-> <<d>>, slot |-> 0],
         ~Known(key), NEW i \in DOMAIN runs
  PROVE  runs[i].key.source # key.source
<1>1. CASE runs[i].key \in HookKeys
  <2>1. PICK c : runs[i].key = [source |-> <<c>>, slot |-> 0]
    BY Zenon, <1>1 DEF HookKeys
  <2> QED
    BY <2>1 DEF Known
<1>2. CASE Past(runs[i].key)
  <2>1. runs[i].key.source \in Schedule
    BY Zenon, <1>2 DEF Past
  <2>2. Len(runs[i].key.source) = 3 /\ Len(<<d>>) = 1
    BY Zenon, <2>1 DEF Schedule
  <2> QED
    BY <2>2
<1> QED
  BY Zenon, <1>1, <1>2 DEF FrontInv, KeysInv

(***************************************************************************)
(* The slot a tick picks is in the past, and newer than the slots of its   *)
(* schedule that have a run unless it has one.                             *)
(***************************************************************************)
LEMMA SlotIsNew ==
  ASSUME FrontInv, tick.at = "next", NEW s, s = Head(tick.list), Due(s, tick.now) # {},
         NEW key, key = SlotKey(s, Latest(s, tick.now))
  PROVE  /\ Past(key) /\ key.slot \in Nat
         /\ \A t \in FiresOf(s) : t <= tick.now => t <= key.slot
         /\ ~Known(key) => \A i \in DOMAIN runs :
              runs[i].key.source = key.source => runs[i].key.slot < key.slot
<1>1. tick.list \in Seq(Entries) /\ tick.list # <<>> /\ tick.now \in Nat /\ tick.now <= clock /\ clock \in Nat
  BY Zenon DEF FrontInv, TypeInv
<1>2. s \in Entries
  BY <1>1
<1>3. s \in Schedule /\ fired[s] \in Nat
  <2>1. s \in Schedule
    BY <1>2 DEF FrontInv, TypeInv, Entries
  <2>2. fired[s] \in Nat
    <3> HIDE DEF Entries
    <3> QED
      BY Zenon, <1>2 DEF FrontInv, TypeInv
  <2> QED
    BY Zenon, <2>1, <2>2
<1>4. PICK l \in Nat : /\ l = Latest(s, tick.now) /\ l \in FiresOf(s) /\ l <= tick.now
                       /\ \A t \in FiresOf(s) : t <= tick.now => t <= l
  BY Zenon, <1>1, <1>3, LatestIsLast
<1>5. key = [source |-> s, slot |-> l]
  BY Zenon, <1>4 DEF SlotKey
<1>6. Past(key)
  BY <1>1, <1>3, <1>4, <1>5 DEF Past
<1>7. ASSUME ~Known(key), NEW i \in DOMAIN runs, runs[i].key.source = key.source
      PROVE  runs[i].key.slot < key.slot
  <2>1. CASE runs[i].key \in HookKeys
    <3>1. PICK d : runs[i].key = [source |-> <<d>>, slot |-> 0]
      BY Zenon, <2>1 DEF HookKeys
    <3>2. Len(<<d>>) = 1 /\ Len(s) = 3
      BY Zenon, <1>3 DEF Schedule
    <3> QED
      BY <1>5, <1>7, <3>1, <3>2
  <2>2. CASE Past(runs[i].key)
    <3>1. /\ runs[i].key \in [source : Schedule, slot : Nat]
          /\ runs[i].key.slot \in FiresOf(s) /\ runs[i].key.slot <= tick.now
      BY <1>5, <1>7, <2>2 DEF Past
    <3>2. runs[i].key.slot <= l /\ runs[i].key.slot \in Nat
      BY Zenon, <1>4, <3>1
    <3>3. runs[i].key # key
      BY Zenon, <1>7 DEF Known
    <3>4. runs[i].key.slot # l
      BY <1>5, <1>7, <3>1, <3>3
    <3> QED
      BY <1>5, <3>2, <3>4
  <2> QED
    BY Zenon, <2>1, <2>2 DEF FrontInv, KeysInv
<1>8. key.source = s /\ key.slot = l
  BY <1>5
<1> QED
  BY Zenon, <1>4, <1>6, <1>7, <1>8

-----------------------------------------------------------------------------
(***************************************************************************)
(* Each action.                                                            *)
(***************************************************************************)
LEMMA InitInv == Init => FrontInv
<1> SUFFICES ASSUME Init PROVE FrontInv
  BY Zenon
<1>1. listed \in Seq(Schedule)
  BY Zenon, ListType DEF Init
<1>2. fired = [s \in Entries |-> 0]
  BY Zenon DEF Init, Entries
<1>3. runs = <<>> /\ clock = 1 /\ tick = [at |-> "idle", now |-> 0, list |-> <<>>, slot |-> 0]
  BY Zenon DEF Init, Idle
<1> HIDE DEF Entries
<1>4. fired \in [Entries -> Nat] /\ clock \in Nat
  BY Zenon, <1>2, <1>3
<1>5. /\ tick \in [at : {"idle", "next", "emitted"}, now : Nat, list : Seq(Entries), slot : Nat]
      /\ tick.at = "idle"
  BY <1>3
<1>6. runs \in Seq({runs[i] : i \in DOMAIN runs}) /\ DOMAIN runs = {}
  BY <1>3
<1> QED
  BY Zenon, <1>1, <1>4, <1>5, <1>6 DEF FrontInv, TypeInv, KeysInv, OneRunPerSlot

(***************************************************************************)
(* The tick under way, as a step leaves it.                                *)
(***************************************************************************)
TickInv ==
  /\ tick \in [at : {"idle", "next", "emitted"}, now : Nat, list : Seq(Entries), slot : Nat]
  /\ tick.at # "idle" => tick.list # <<>> /\ tick.now <= clock

LEMMA IdleTick ==
  ASSUME tick' = Idle PROVE TickInv'
BY DEF TickInv, Idle

LEMMA OnwardsTick ==
  ASSUME FrontInv, tick.at # "idle", tick' = Onwards, UNCHANGED <<listed, clock>>
  PROVE  TickInv' /\ (tick'.at # "idle" => tick'.now = tick.now)
<1>1. /\ tick \in [at : {"idle", "next", "emitted"}, now : Nat, list : Seq(Entries), slot : Nat]
      /\ tick.list # <<>> /\ tick.now <= clock /\ Entries' = Entries
  BY Zenon DEF FrontInv, TypeInv, Entries
<1> HIDE DEF Entries
<1>2. CASE Len(tick.list) = 1
  BY Zenon, <1>2, IdleTick DEF Onwards, Idle
<1>3. CASE Len(tick.list) # 1
  <2>1. tick' = [at |-> "next", now |-> tick.now, list |-> Tail(tick.list), slot |-> 0]
    BY Zenon, <1>1, <1>3 DEF Onwards
  <2>2. Tail(tick.list) \in Seq(Entries) /\ Tail(tick.list) # <<>>
    <3>1. PICK l \in Seq(Entries) : l = tick.list /\ l # <<>> /\ Len(l) # 1
      BY Zenon, <1>1, <1>3
    <3>2. Len(l) \in Nat /\ Len(l) # 0
      BY <3>1
    <3>3. Tail(l) \in Seq(Entries) /\ Len(Tail(l)) = Len(l) - 1
      BY <3>1
    <3>4. Len(Tail(l)) # 0
      BY <3>1, <3>2, <3>3
    <3> QED
      BY Zenon, <3>1, <3>3, <3>4
  <2> QED
    BY <1>1, <2>1, <2>2 DEF TickInv
<1> QED
  BY Zenon, <1>2, <1>3

(***************************************************************************)
(* A step that makes no run keeps the invariant if it keeps the clock and  *)
(* the tick as PastStays asks.                                             *)
(***************************************************************************)
LEMMA NoRun ==
  ASSUME FrontInv, UNCHANGED <<listed, runs>>, clock' \in Nat, clock <= clock',
         fired' \in [Entries -> Nat], TickInv',
         tick'.at # "idle" => \/ tick.at # "idle" /\ tick'.now = tick.now
                              \/ tick'.now = clock
  PROVE  FrontInv'
<1>1. KeysInv'
  BY Zenon, PastStays DEF FrontInv, KeysInv, HookKeys
<1>2. TypeInv'
  <2>1. TypeInv /\ Entries' = Entries
    BY Zenon DEF FrontInv, Entries
  <2> HIDE DEF Entries
  <2>2. listed' \in Seq(Schedule) /\ fired' \in [Entries' -> Nat] /\ clock' \in Nat
    BY Zenon, <2>1 DEF TypeInv
  <2>3. runs' \in Seq({runs'[i] : i \in DOMAIN runs'})
    BY Zenon, <2>1 DEF TypeInv
  <2> QED
    BY Zenon, <2>2, <2>3 DEF TypeInv, TickInv
<1> QED
  BY Zenon, <1>1, <1>2 DEF FrontInv, OneRunPerSlot

(***************************************************************************)
(* A step that ingests a delivery: its key is a webhook's or in the past,  *)
(* and new to its source unless it is known.                               *)
(***************************************************************************)
LEMMA IngestStep ==
  ASSUME FrontInv, UNCHANGED <<listed, clock, fired>>, TickInv',
         tick'.at # "idle" => tick.at # "idle" /\ tick'.now = tick.now,
         NEW key, NEW ev, key \in HookKeys \/ Past(key),
         runs' = runs \/ (~Known(key) /\ runs' = Append(runs, NewRun(key, ev))),
         ~Known(key) => \A i \in DOMAIN runs :
           runs[i].key.source = key.source => runs[i].key.slot < key.slot
  PROVE  FrontInv'
<1>1. fired \in [Entries -> Nat] /\ clock \in Nat /\ clock <= clock /\ Entries' = Entries
  BY DEF FrontInv, TypeInv, Entries
<1>2. CASE runs' = runs
  BY Zenon, <1>1, <1>2, NoRun
<1>3. CASE ~Known(key) /\ runs' = Append(runs, NewRun(key, ev))
  <2>1. /\ runs' \in Seq({runs'[i] : i \in DOMAIN runs'}) /\ OneRunPerSlot'
        /\ \A i \in DOMAIN runs' : (i \in DOMAIN runs /\ runs'[i] = runs[i]) \/ runs'[i].key = key
    BY Zenon, <1>3, NewestRun
  <2>2. \A k : Past(k) => Past(k)'
    BY Zenon, <1>1, PastStays
  <2>3. KeysInv'
    BY Zenon, <2>1, <2>2 DEF FrontInv, KeysInv, HookKeys
  <2>4. TypeInv'
    <3> HIDE DEF Entries
    <3> QED
      BY Zenon, <1>1, <2>1 DEF FrontInv, TypeInv, TickInv
  <2> QED
    BY Zenon, <2>1, <2>3, <2>4 DEF FrontInv
<1> QED
  BY Zenon, <1>2, <1>3

LEMMA TickKept ==
  ASSUME FrontInv, UNCHANGED <<listed, tick>>, clock' \in Nat, clock <= clock' PROVE TickInv'
BY DEF FrontInv, TypeInv, TickInv, Entries

LEMMA WebhookStep ==
  ASSUME FrontInv, NEW d \in DOMAIN Webhooks, Webhook(d)
  PROVE  FrontInv'
<1>1. PICK key : key = [source |-> <<d>>, slot |-> 0]
  BY Zenon
<1>2. /\ UNCHANGED <<listed, clock, fired, tick>>
      /\ runs' = runs \/ (~Known(key) /\ runs' = Append(runs, NewRun(key, Webhooks[d])))
  BY Zenon, <1>1 DEF Webhook, Ingest, contents
<1>3. clock \in Nat /\ clock <= clock
  BY DEF FrontInv, TypeInv
<1>4. TickInv'
  BY Zenon, <1>2, <1>3, TickKept
<1>5. key \in HookKeys
  BY Zenon, <1>1 DEF HookKeys
<1>6. ~Known(key) => \A i \in DOMAIN runs : runs[i].key.source # key.source
  BY Zenon, <1>1, HookIsNew
<1> QED
  BY Zenon, <1>2, <1>4, <1>5, <1>6, IngestStep

LEMMA BeginTickStep ==
  ASSUME FrontInv, BeginTick
  PROVE  FrontInv'
<1>1. /\ UNCHANGED <<listed, runs, clock, fired>> /\ listed # <<>>
      /\ tick' = [at |-> "next", now |-> clock, list |-> listed, slot |-> 0]
  BY Zenon DEF BeginTick, contents
<1>2. listed \in Seq(Schedule) /\ clock \in Nat /\ clock <= clock /\ fired \in [Entries -> Nat]
  BY DEF FrontInv, TypeInv
<1>3. listed \in Seq(Entries) /\ Entries' = Entries
  <2>1. PICK l \in Seq(Schedule) : l = listed
    BY Zenon, <1>2
  <2>2. l \in Seq({l[i] : i \in DOMAIN l})
    OBVIOUS
  <2> QED
    BY Zenon, <1>1, <2>1, <2>2 DEF Entries
<1>4. TickInv'
  <2> HIDE DEF Entries
  <2> QED
    BY Zenon, <1>1, <1>2, <1>3 DEF TickInv
<1> QED
  BY Zenon, <1>1, <1>2, <1>4, NoRun

LEMMA SkipStep ==
  ASSUME FrontInv, Skip
  PROVE  FrontInv'
<1>1. /\ UNCHANGED <<listed, runs, clock, fired>> /\ tick.at # "idle" /\ tick' = Onwards
  BY Zenon DEF Skip, contents
<1>2. clock \in Nat /\ clock <= clock /\ fired \in [Entries -> Nat]
  BY DEF FrontInv, TypeInv
<1>3. TickInv' /\ (tick'.at # "idle" => tick'.now = tick.now)
  BY Zenon, <1>1, OnwardsTick
<1> QED
  BY Zenon, <1>1, <1>2, <1>3, NoRun

LEMMA EmitStep ==
  ASSUME FrontInv, Emit
  PROVE  FrontInv'
<1>1. PICK s, key : s = Head(tick.list) /\ key = SlotKey(s, Latest(s, tick.now))
  BY Zenon
<1>2. /\ UNCHANGED <<listed, clock, fired>> /\ tick.at = "next" /\ Due(s, tick.now) # {}
      /\ Ingest(key, ScheduleEvent(s[1]))
      /\ tick' = IF ~Known(key) /\ IngestFails(ScheduleEvent(s[1])) THEN Idle
                 ELSE [tick EXCEPT !.at = "emitted", !.slot = key.slot]
  BY Zenon, <1>1 DEF Emit, contents
<1>3. runs' = runs \/ (~Known(key) /\ runs' = Append(runs, NewRun(key, ScheduleEvent(s[1]))))
  BY Zenon, <1>2 DEF Ingest
<1>4. /\ Past(key) /\ key.slot \in Nat
      /\ ~Known(key) => \A i \in DOMAIN runs :
           runs[i].key.source = key.source => runs[i].key.slot < key.slot
  BY Zenon, <1>1, <1>2, SlotIsNew
<1>5. TickInv' /\ (tick'.at # "idle" => tick'.now = tick.now)
  <2>1. CASE tick' = Idle
    BY Zenon, <2>1, IdleTick DEF Idle
  <2>2. CASE tick' = [tick EXCEPT !.at = "emitted", !.slot = key.slot]
    <3>1. Entries' = Entries
      BY Zenon, <1>2 DEF Entries
    <3> HIDE DEF Entries
    <3> QED
      BY Zenon, <1>2, <1>4, <2>2, <3>1 DEF FrontInv, TypeInv, TickInv
  <2> QED
    BY Zenon, <1>2, <2>1, <2>2
<1> QED
  BY Zenon, <1>2, <1>3, <1>4, <1>5, IngestStep

LEMMA RecordFiredStep ==
  ASSUME FrontInv, RecordFired
  PROVE  FrontInv'
<1>1. /\ UNCHANGED <<listed, runs, clock>> /\ tick.at # "idle" /\ tick' = Onwards
      /\ fired' = [fired EXCEPT ![Head(tick.list)] = tick.slot]
  BY Zenon DEF RecordFired, contents
<1>2. clock \in Nat /\ clock <= clock /\ fired \in [Entries -> Nat] /\ tick.slot \in Nat
  BY DEF FrontInv, TypeInv
<1>3. TickInv' /\ (tick'.at # "idle" => tick'.now = tick.now)
  BY Zenon, <1>1, OnwardsTick
<1>4. fired' \in [Entries -> Nat]
  BY Zenon, <1>1, <1>2
<1> QED
  BY Zenon, <1>1, <1>2, <1>3, <1>4, NoRun

LEMMA EmitFailsStep ==
  ASSUME FrontInv, EmitFails
  PROVE  FrontInv'
<1>1. PICK s, key : s = Head(tick.list) /\ key = SlotKey(s, Latest(s, tick.now))
  BY Zenon
<1>2. /\ UNCHANGED <<listed, clock, fired>> /\ tick.at = "next" /\ Due(s, tick.now) # {}
      /\ runs' = runs \/ (~Known(key) /\ Ingest(key, ScheduleEvent(s[1])))
      /\ tick' = Idle
  BY Zenon, <1>1 DEF EmitFails, contents
<1>3. runs' = runs \/ (~Known(key) /\ runs' = Append(runs, NewRun(key, ScheduleEvent(s[1]))))
  BY Zenon, <1>2 DEF Ingest
<1>4. /\ Past(key)
      /\ ~Known(key) => \A i \in DOMAIN runs :
           runs[i].key.source = key.source => runs[i].key.slot < key.slot
  BY Zenon, <1>1, <1>2, SlotIsNew
<1>5. TickInv' /\ tick'.at = "idle"
  BY Zenon, <1>2, IdleTick DEF Idle
<1> QED
  BY Zenon, <1>2, <1>3, <1>4, <1>5, IngestStep

LEMMA RestartStep ==
  ASSUME FrontInv, Restart
  PROVE  FrontInv'
<1>1. /\ UNCHANGED <<listed, runs, clock>> /\ tick' = Idle /\ fired' = [s \in DOMAIN fired |-> 0]
  BY Zenon DEF Restart, contents
<1>2. clock \in Nat /\ clock <= clock /\ fired \in [Entries -> Nat]
  BY DEF FrontInv, TypeInv
<1>3. TickInv' /\ tick'.at = "idle"
  BY Zenon, <1>1, IdleTick DEF Idle
<1>4. fired' \in [Entries -> Nat]
  BY Zenon, <1>1, <1>2
<1> QED
  BY Zenon, <1>1, <1>2, <1>3, <1>4, NoRun

LEMMA TimeStep ==
  ASSUME FrontInv, TimePasses
  PROVE  FrontInv'
<1>1. /\ UNCHANGED <<listed, runs, fired, tick>> /\ clock' = clock + 1
  BY Zenon DEF TimePasses, contents
<1>2. clock \in Nat /\ fired \in [Entries -> Nat]
  BY Zenon DEF FrontInv, TypeInv
<1>3. clock' \in Nat /\ clock <= clock'
  BY <1>1, <1>2
<1>4. TickInv'
  BY Zenon, <1>1, <1>3, TickKept
<1> QED
  BY Zenon, <1>1, <1>2, <1>3, <1>4, NoRun

LEMMA StepInv == FrontInv /\ [Next]_vars => FrontInv'
<1> SUFFICES ASSUME FrontInv, [Next]_vars PROVE FrontInv'
  BY Zenon
<1>1. CASE UNCHANGED vars
  <2>1. clock \in Nat /\ clock <= clock /\ fired \in [Entries -> Nat]
    BY DEF FrontInv, TypeInv
  <2>2. UNCHANGED <<listed, runs, clock, fired, tick>>
    BY Zenon, <1>1 DEF vars
  <2>3. TickInv'
    BY Zenon, <2>1, <2>2, TickKept
  <2> QED
    BY Zenon, <2>1, <2>2, <2>3, NoRun
<1>2. CASE Next
  BY Zenon, <1>2, BeginTickStep, SkipStep, EmitStep, RecordFiredStep, WebhookStep, EmitFailsStep, RestartStep,
     TimeStep DEF Next, Program
<1> QED
  BY Zenon, <1>1, <1>2

-----------------------------------------------------------------------------
(***************************************************************************)
(* FrontInv holds in every reachable state, for all files, webhooks,       *)
(* schedules and faults.                                                   *)
(***************************************************************************)
THEOREM FrontendInvariant == Spec => []FrontInv
BY InitInv, StepInv, PTL DEF Spec

(***************************************************************************)
(* A delivery has at most one run, and the runs of a schedule come in the  *)
(* order of their slots: the tick's choice and the delivery's key make up  *)
(* for a history that restarts and failed ticks lose (schedule.go, Tick).  *)
(***************************************************************************)
THEOREM SlotsRunOnce == Spec => []OneRunPerSlot
BY FrontendInvariant, PTL DEF FrontInv

(***************************************************************************)
(* Whenever a schedule gets a run, it is for the last slot at the time the *)
(* tick read: missed slots are passed over (schedule.go, Tick).            *)
(***************************************************************************)
THEOREM MostRecentSlotRuns == Spec => OnlyMostRecent
<1> DEFINE Recent ==
      \A i \in DOMAIN runs' \ DOMAIN runs :
        LET key == runs'[i].key
        IN  Len(key.source) = 3 =>
              /\ key.slot <= tick.now
              /\ ~\E t \in FiresOf(key.source) : key.slot < t /\ t <= tick.now
<1>1. ASSUME FrontInv, Next PROVE Recent
  <2>1. CASE runs' = runs
    BY Zenon, <2>1
  <2>2. ASSUME NEW d \in DOMAIN Webhooks, Webhook(d) PROVE Recent
    <3>1. PICK key : key = [source |-> <<d>>, slot |-> 0]
      BY Zenon
    <3>2. runs' = runs \/ (~Known(key) /\ runs' = Append(runs, NewRun(key, Webhooks[d])))
      BY Zenon, <2>2, <3>1 DEF Webhook, Ingest
    <3>3. ~Known(key) => \A i \in DOMAIN runs : runs[i].key.source # key.source
      BY Zenon, <1>1, <3>1, HookIsNew
    <3>4. \A i \in DOMAIN runs' \ DOMAIN runs : runs'[i].key = key
      BY Zenon, <1>1, <3>2, <3>3, NewestRun
    <3> QED
      BY <3>1, <3>4
  <2>3. ASSUME Emit \/ EmitFails PROVE Recent
    <3>1. PICK s, key : s = Head(tick.list) /\ key = SlotKey(s, Latest(s, tick.now))
      BY Zenon
    <3>2. /\ tick.at = "next" /\ Due(s, tick.now) # {}
          /\ runs' = runs \/ Ingest(key, ScheduleEvent(s[1]))
      BY Zenon, <2>3, <3>1 DEF Emit, EmitFails
    <3>3. runs' = runs \/ (~Known(key) /\ runs' = Append(runs, NewRun(key, ScheduleEvent(s[1]))))
      BY Zenon, <3>2 DEF Ingest
    <3>4. /\ Past(key) /\ key.slot \in Nat
          /\ \A t \in FiresOf(s) : t <= tick.now => t <= key.slot
          /\ ~Known(key) => \A i \in DOMAIN runs :
               runs[i].key.source = key.source => runs[i].key.slot < key.slot
      BY Zenon, <1>1, <3>1, <3>2, SlotIsNew
    <3>5. \A i \in DOMAIN runs' \ DOMAIN runs : runs'[i].key = key
      BY Zenon, <1>1, <3>3, <3>4, NewestRun
    <3>6. key.source = s /\ key.slot <= tick.now
      BY Zenon, <3>1, <3>2, <3>4 DEF SlotKey, Past
    <3>7. FiresOf(s) \subseteq Nat /\ tick.now \in Nat
      BY <1>1, FrontendAssumption DEF FiresOf, FrontInv, TypeInv
    <3>8. ~\E t \in FiresOf(s) : key.slot < t /\ t <= tick.now
      BY <3>4, <3>7
    <3> QED
      BY Zenon, <3>5, <3>6, <3>8
  <2>4. runs' = runs \/ Emit \/ EmitFails \/ \E d \in DOMAIN Webhooks : Webhook(d)
    BY Zenon, <1>1 DEF Next, Program, BeginTick, Skip, RecordFired, Restart, TimePasses
  <2> QED
    BY Zenon, <2>1, <2>2, <2>3, <2>4
<1>2. FrontInv /\ [Next]_vars => [Recent]_vars
  BY Zenon, <1>1
<1> QED
  BY <1>2, FrontendInvariant, PTL DEF Spec, OnlyMostRecent

-----------------------------------------------------------------------------
(***************************************************************************)
(* What List and the compiler returned stays what the files mean, and a    *)
(* run has the jobs the compiler returned for an event, with their plans.  *)
(***************************************************************************)
ContentsInv ==
  /\ files \in Repositories
  /\ matched = [ev \in Events |-> matchedJobs(files[ev.repo], ev)]

Ingested(run, ev) ==
  /\ Jobs(ev)[1] /\ run.jobs = Jobs(ev)[2]
  /\ run.plans = [i \in DOMAIN Jobs(ev)[2] |-> buildPlan(Jobs(ev)[2][i])]

PlansInv == \A r \in DOMAIN runs : \E ev \in Events : Ingested(runs[r], ev)

LEMMA ContentsStay == ContentsInv /\ [Next]_vars => ContentsInv' /\ matched' = matched
<1> SUFFICES ASSUME ContentsInv, [Next]_vars PROVE ContentsInv' /\ matched' = matched
  BY Zenon
<1>1. UNCHANGED contents
  BY Zenon DEF Next, Program, BeginTick, Skip, Emit, RecordFired, Webhook, EmitFails, Restart, TimePasses,
     vars, contents
<1>2. UNCHANGED <<files, matched>>
  BY Zenon, <1>1 DEF contents
<1> QED
  BY Zenon, <1>2 DEF ContentsInv

(***************************************************************************)
(* A run is made by Ingest, for a webhook's event or a schedule's.         *)
(***************************************************************************)
LEMMA MadeByIngest ==
  ASSUME FrontInv, [Next]_vars
  PROVE  \/ runs' = runs
         \/ \E ev \in Events : \E key : Jobs(ev)[1] /\ runs' = Append(runs, NewRun(key, ev))
<1>1. ASSUME NEW key, NEW ev, Ingest(key, ev)
      PROVE  runs' = runs \/ (Jobs(ev)[1] /\ runs' = Append(runs, NewRun(key, ev)))
  BY Zenon, <1>1 DEF Ingest, IngestFails
<1>2. ASSUME NEW d \in DOMAIN Webhooks, Webhook(d)
      PROVE  runs' = runs \/ \E ev \in Events : \E key : Jobs(ev)[1] /\ runs' = Append(runs, NewRun(key, ev))
  <2>1. Webhooks[d] \in Events
    BY Zenon DEF Events
  <2>2. \E key : Ingest(key, Webhooks[d])
    BY Zenon, <1>2 DEF Webhook
  <2> QED
    BY Zenon, <1>1, <2>1, <2>2
<1>3. ASSUME Emit \/ EmitFails
      PROVE  runs' = runs \/ \E ev \in Events : \E key : Jobs(ev)[1] /\ runs' = Append(runs, NewRun(key, ev))
  <2>1. PICK s : s = Head(tick.list)
    BY Zenon
  <2>2. tick.at = "next" /\ (runs' = runs \/ \E key : Ingest(key, ScheduleEvent(s[1])))
    BY Zenon, <1>3, <2>1 DEF Emit, EmitFails
  <2>3. s \in Entries
    <3>1. tick.list \in Seq(Entries) /\ tick.list # <<>>
      BY Zenon, <2>2 DEF FrontInv, TypeInv
    <3> HIDE DEF Entries
    <3> QED
      BY <2>1, <3>1
  <2>4. s \in Schedule
    BY <2>3 DEF FrontInv, TypeInv, Entries
  <2>5. s[1] \in Range(Repos)
    BY Zenon, <2>4 DEF Schedule
  <2>6. ScheduleEvent(s[1]) \in Events
    BY Zenon, <2>5 DEF Events
  <2> QED
    BY Zenon, <1>1, <2>2, <2>6
<1>4. \/ runs' = runs \/ Emit \/ EmitFails
      \/ \E d \in DOMAIN Webhooks : Webhook(d)
  BY Zenon DEF Next, Program, BeginTick, Skip, RecordFired, Restart, TimePasses, vars
<1> QED
  BY Zenon, <1>2, <1>3, <1>4

LEMMA PlansStep ==
  ASSUME FrontInv, ContentsInv, PlansInv, [Next]_vars
  PROVE  ContentsInv' /\ PlansInv'
<1>1. ContentsInv' /\ matched' = matched
  BY Zenon, ContentsStay
<1>2. ASSUME NEW run, NEW ev, Ingested(run, ev) PROVE Ingested(run, ev)'
  BY Zenon, <1>1, <1>2 DEF Ingested, Jobs
<1>3. CASE runs' = runs
  <2>1. \A r \in DOMAIN runs' : r \in DOMAIN runs /\ runs'[r] = runs[r]
    BY Zenon, <1>3
  <2> QED
    BY Zenon, <1>1, <1>2, <2>1 DEF PlansInv
<1>4. ASSUME NEW ev \in Events, NEW key, Jobs(ev)[1], runs' = Append(runs, NewRun(key, ev))
      PROVE  PlansInv'
  <2>1. PICK e : e = NewRun(key, ev)
    BY Zenon
  <2>2. Ingested(e, ev)
    BY Zenon, <1>4, <2>1 DEF Ingested, NewRun
  <2>3. runs \in Seq({runs[i] : i \in DOMAIN runs})
    BY Zenon DEF FrontInv, TypeInv
  <2>4. /\ DOMAIN Append(runs, e) = DOMAIN runs \cup {Len(runs) + 1}
        /\ \A i \in DOMAIN runs : Append(runs, e)[i] = runs[i]
        /\ Append(runs, e)[Len(runs) + 1] = e
    BY <2>3, Appended
  <2>5. ASSUME NEW r \in DOMAIN runs' PROVE runs'[r] = e \/ (r \in DOMAIN runs /\ runs'[r] = runs[r])
    BY Zenon, <1>4, <2>1, <2>4, <2>5
  <2> QED
    BY Zenon, <1>2, <2>2, <2>5 DEF PlansInv
<1> QED
  BY Zenon, <1>1, <1>3, <1>4, MadeByIngest

LEMMA PlansInit == Init => ContentsInv /\ PlansInv
<1> SUFFICES ASSUME Init PROVE ContentsInv /\ PlansInv
  BY Zenon
<1>1. ContentsInv
  BY Zenon DEF Init, ContentsInv
<1>2. DOMAIN runs = {}
  BY DEF Init
<1> QED
  BY Zenon, <1>1, <1>2 DEF PlansInv

(***************************************************************************)
(* Every run has the jobs and the plans that the compiler makes of the     *)
(* files for one of the events (server.go, Ingest).                        *)
(***************************************************************************)
THEOREM RunsAreCompiled == Spec => [](ContentsInv /\ PlansInv)
<1>1. FrontInv /\ ContentsInv /\ PlansInv /\ [Next]_vars => ContentsInv' /\ PlansInv'
  BY Zenon, PlansStep
<1> QED
  BY <1>1, PlansInit, FrontendInvariant, PTL DEF Spec

-----------------------------------------------------------------------------
LEMMA DocumentsAreNodes ==
  ASSUME ContentsInv, NEW doc \in Documents
  PROVE  doc \in Nodes
<1>1. FilesOf(files) \subseteq Nodes
  BY Zenon, RepositoryFacts DEF ContentsInv
<1>2. doc \in FilesOf(files)
  BY Zenon DEF Documents
<1> QED
  BY Zenon, <1>1, <1>2

(***************************************************************************)
(* For every workflow file, every number of jobs and every matrix: Compile *)
(* succeeds exactly when the jobs can be ordered and each is fine, and     *)
(* its result has every instance and a job after those it needs (Compile,  *)
(* topoSort, expandMatrix).                                                *)
(***************************************************************************)
THEOREM CompilerIsSound == Spec => []CompileSound
<1>1. ContentsInv => CompileSound
  BY Zenon, DocumentsAreNodes, Compiling DEF CompileSound
<1> QED
  BY <1>1, RunsAreCompiled, PTL

(***************************************************************************)
(* Every document with an entry outside the supported subset, in whichever *)
(* of its mappings, is refused by Parse (parser.go: "never silently        *)
(* ignored").                                                              *)
(***************************************************************************)
THEOREM ParserIgnoresNothing == Spec => []NothingIgnored
<1>1. ContentsInv => NothingIgnored
  BY Zenon, DocumentsAreNodes, InjectedRefused DEF NothingIgnored
<1> QED
  BY <1>1, RunsAreCompiled, PTL

(***************************************************************************)
(* The plan of every job of every run stands for the job's steps, in their *)
(* order: a step that uses no composite action keeps its condition, its    *)
(* continue-on-error and its inputs, secret references among the plan's    *)
(* references instead; one that does is replaced by the action's steps     *)
(* with its plain inputs, and nothing is claimed of its condition          *)
(* (buildPlan, expandComposite).                                           *)
(***************************************************************************)
THEOREM PlansKeepSteps == Spec => []PlanKeepsSteps
<1>1. ASSUME ContentsInv, PlansInv, NEW r \in DOMAIN runs, NEW i \in DOMAIN runs[r].jobs
      PROVE  Faithful(runs[r].jobs[i].steps, runs[r].plans[i])
  <2>1. PICK ev \in Events : Ingested(runs[r], ev)
    BY Zenon, <1>1 DEF PlansInv
  <2>2. PICK out : out = matchedJobs(files[ev.repo], ev) /\ matched[ev] = out
    BY Zenon, <1>1 DEF ContentsInv
  <2>3. /\ out[1] /\ runs[r].jobs = out[2]
        /\ runs[r].plans = [h \in DOMAIN out[2] |-> buildPlan(out[2][h])]
    BY Zenon, <2>1, <2>2 DEF Ingested, Jobs
  <2>4. ev.repo \in DOMAIN files
    BY Zenon, <1>1, FrontendAssumption DEF ContentsInv
  <2>5. IsSeq(files[ev.repo]) /\ Range(files[ev.repo]) \subseteq Nodes
    BY Zenon, <1>1, <2>4, RepositoryFacts DEF ContentsInv
  <2>6. i \in DOMAIN out[2] /\ runs[r].jobs[i] = out[2][i] /\ runs[r].plans[i] = buildPlan(out[2][i])
    BY Zenon, <1>1, <2>3
  <2>7. IsSeq(out[2][i].steps)
    <3>1. PICK f : f = files[ev.repo] /\ IsSeq(f) /\ Range(f) \subseteq Nodes /\ out = matchedJobs(f, ev)
      BY Zenon, <2>2, <2>5
    <3>2. \A p \in DOMAIN out[2] : IsSeq(out[2][p].steps)
      BY Zenon, <2>3, <3>1, MatchedFacts
    <3> QED
      BY Zenon, <2>6, <3>2
  <2>8. Faithful(out[2][i].steps, buildPlan(out[2][i]))
    BY Zenon, <2>7, BuildPlan
  <2> QED
    BY Zenon, <2>6, <2>8
<1>2. ContentsInv /\ PlansInv => PlanKeepsSteps
  BY Zenon, <1>1 DEF PlanKeepsSteps
<1> QED
  BY <1>2, RunsAreCompiled, PTL

=============================================================================
