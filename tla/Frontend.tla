------------------------------ MODULE Frontend ------------------------------
(***************************************************************************)
(* From an event to a run: webhook deliveries and the internal cron        *)
(* scheduler (internal/run/schedule) go through Ingest to the workflow     *)
(* source and the compiler.  The scheduler remembers the last slot it      *)
(* emitted for each schedule in memory only; a restart forgets it, and     *)
(* what keeps a slot from running twice is the delivery's key.             *)
(*                                                                         *)
(* Server has the concurrency of deliveries and the runs' later life; here *)
(* Ingest is one step, with the places where it may fail.                  *)
(***************************************************************************)
EXTENDS Compiler, Integers, FiniteSetsExt

CONSTANTS
  Repos,         \* the scheduled repositories, in the order of the configuration
  Repositories,  \* the contents considered: a set of [repository -> files]
  Fires,         \* [valid cron expression -> the times it fires at]
  Webhooks,      \* [delivery GUID -> event]
  Misspelt,      \* some keys that are no field's name
  Horizon,       \* the last time considered
  Window,        \* how far back a scheduler without history looks
  MaxFaults      \* failed calls and restarts considered

ScheduleEvent(repo) == [name |-> "schedule", repo |-> repo, branch |-> ""]

Events == {Webhooks[d] : d \in DOMAIN Webhooks} \cup {ScheduleEvent(r) : r \in Range(Repos)}

(* The names of fields, and keys that are none of them. *)
Fields ==
  {"name", "on", "jobs", "push", "pull_request", "schedule", "cron", "branches", "branches-ignore", "matrix"}
  \cup StepFields \cup JobFields

FilesOf(f) == UNION {Range(f[r]) : r \in DOMAIN f}

ASSUME FrontendAssumption ==
  /\ Horizon \in Nat /\ Window \in Nat /\ MaxFaults \in Nat
  /\ \A cron \in DOMAIN Fires : Fires[cron] \subseteq 1 .. Horizon
  /\ Misspelt \cap Fields = {}
  /\ Repos \in Seq(Range(Repos))
  /\ UNION {FilesOf(f) : f \in Repositories} \subseteq Nodes
  /\ \A f \in Repositories :
       /\ \A r \in DOMAIN f : f[r] \in Seq(Range(f[r]))
       /\ \A ev \in Events : ev.repo \in DOMAIN f

VARIABLES
  files,     \* [repository -> the files of its workflow directory]
  listed,    \* the schedules in them, as List returns them
  matched,   \* [event -> its jobs, as the compiler returns them]
  clock,
  fired,     \* [schedule -> the last slot emitted], 0 when unknown
  receipts,  \* the keys of recorded deliveries
  runs,      \* runs in the order of their creation
  tick,      \* the scheduler's place in Tick
  faults

(* What List and the compiler return depends on the files alone: it is     *)
(* worked out once, for a listing and a compilation that happen each time. *)
contents == <<files, listed, matched>>

vars == <<files, listed, matched, clock, fired, receipts, runs, tick, faults>>

-----------------------------------------------------------------------------
Idle == [at |-> "idle", now |-> 0, list |-> <<>>, slot |-> 0]

Init ==
  /\ files \in Repositories
  /\ listed = List(Repos, files)
  /\ matched = [ev \in Events |-> matchedJobs(files[ev.repo], ev)]
  /\ clock = 1 /\ faults = 0
  /\ fired = [s \in {listed[i] : i \in DOMAIN listed} |-> 0]
  /\ receipts = {} /\ runs = <<>> /\ tick = Idle

-----------------------------------------------------------------------------
(***************************************************************************)
(* Server.Ingest: the receipt, the run the delivery already has, the       *)
(* compiler, CreateRun, which refuses two jobs of one key, and the plans.  *)
(***************************************************************************)
Known(key) == \E i \in DOMAIN runs : runs[i].key = key

Jobs(ev) == matched[ev]

DistinctKeys(jobs) == Cardinality({jobs[i].key : i \in DOMAIN jobs}) = Len(jobs)

IngestFails(ev) == ~Jobs(ev)[1] \/ ~DistinctKeys(Jobs(ev)[2])

NewRun(key, ev) ==
  [key |-> key, jobs |-> Jobs(ev)[2], plans |-> [i \in DOMAIN Jobs(ev)[2] |-> buildPlan(Jobs(ev)[2][i])]]

Ingest_NoDedupe(key, ev) ==
  /\ receipts' = receipts \cup {key}
  /\ runs' = IF IngestFails(ev) \/ Jobs(ev)[2] = <<>> THEN runs ELSE Append(runs, NewRun(key, ev))

Ingest(key, ev) ==
  /\ receipts' = receipts \cup {key}
  /\ runs' = IF Known(key) \/ IngestFails(ev) \/ Jobs(ev)[2] = <<>> THEN runs
             ELSE Append(runs, NewRun(key, ev))

(* A webhook delivery, the first or a repeated one. *)
Webhook(d) ==
  /\ Ingest([source |-> <<d>>, slot |-> 0], Webhooks[d])
  /\ UNCHANGED <<contents, clock, fired, tick, faults>>

-----------------------------------------------------------------------------
(***************************************************************************)
(* Tick.  It reads the clock once, after the listing, and stops at the     *)
(* first schedule whose delivery fails.                                    *)
(***************************************************************************)
BeginTick ==
  /\ tick.at = "idle" /\ listed # <<>>
  /\ tick' = [at |-> "next", now |-> clock, list |-> listed, slot |-> 0]
  /\ UNCHANGED <<contents, clock, fired, receipts, runs, faults>>

(* An expression that does not parse is passed over. *)
FiresOf(s) == IF s[3] \in DOMAIN Fires THEN Fires[s[3]] ELSE {}

Due_NoWindow(s, now) ==
  {t \in FiresOf(s) : (IF fired[s] = 0 THEN now ELSE fired[s]) < t /\ t <= now}

Due(s, now) ==
  LET cursor == IF fired[s] = 0 THEN now - Window ELSE fired[s]
  IN  {t \in FiresOf(s) : cursor < t /\ t <= now}

Latest_Earliest(s, now) == Min(Due(s, now))

Latest(s, now) == Max(Due(s, now))

Onwards == IF Len(tick.list) = 1 THEN Idle ELSE [tick EXCEPT !.at = "next", !.list = Tail(@), !.slot = 0]

Skip ==
  /\ tick.at = "next" /\ Due(Head(tick.list), tick.now) = {}
  /\ tick' = Onwards
  /\ UNCHANGED <<contents, clock, fired, receipts, runs, faults>>

SlotKey(s, t) == [source |-> s, slot |-> t]

Emit ==
  /\ tick.at = "next" /\ Due(Head(tick.list), tick.now) # {}
  /\ LET s   == Head(tick.list)
         key == SlotKey(s, Latest(s, tick.now))
     IN  /\ Ingest(key, ScheduleEvent(s[1]))
         /\ tick' = IF ~Known(key) /\ IngestFails(ScheduleEvent(s[1])) THEN Idle
                    ELSE [tick EXCEPT !.at = "emitted", !.slot = key.slot]
  /\ UNCHANGED <<contents, clock, fired, faults>>

RecordFired ==
  /\ tick.at = "emitted"
  /\ fired' = [fired EXCEPT ![Head(tick.list)] = tick.slot]
  /\ tick' = Onwards
  /\ UNCHANGED <<contents, clock, receipts, runs, faults>>

-----------------------------------------------------------------------------
(***************************************************************************)
(* Faults: the server restarts; a call to the store or to GitHub fails     *)
(* before the run exists, or building its plans fails afterwards.  Either  *)
(* failure ends the tick.  Restarts and time matter only to schedules.     *)
(***************************************************************************)
EmitFails ==
  /\ tick.at = "next" /\ faults < MaxFaults
  /\ LET s   == Head(tick.list)
         due == Due(s, tick.now)
         key == SlotKey(s, Latest(s, tick.now))
     IN  /\ due # {}
         /\ \/ receipts' \in {receipts, receipts \cup {key}} /\ UNCHANGED runs
            \/ /\ ~Known(key) /\ Ingest(key, ScheduleEvent(s[1])) /\ runs' # runs
  /\ faults' = faults + 1
  /\ tick' = Idle
  /\ UNCHANGED <<contents, clock, fired>>

Restart ==
  /\ listed # <<>> /\ faults < MaxFaults
  /\ faults' = faults + 1
  /\ fired' = [s \in DOMAIN fired |-> 0]
  /\ tick' = Idle
  /\ UNCHANGED <<contents, clock, receipts, runs>>

TimePasses ==
  /\ listed # <<>> /\ clock < Horizon
  /\ clock' = clock + 1
  /\ UNCHANGED <<contents, fired, receipts, runs, tick, faults>>

Program == BeginTick \/ Skip \/ Emit \/ RecordFired

Next ==
  \/ Program
  \/ \E d \in DOMAIN Webhooks : Webhook(d)
  \/ EmitFails \/ Restart \/ TimePasses

Spec == Init /\ [][Next]_vars /\ WF_vars(Program) /\ WF_vars(TimePasses)

-----------------------------------------------------------------------------
(* A delivery, and so a slot of a schedule, has one run, and the runs of a *)
(* schedule come in the order of their slots: neither a restart that lost  *)
(* `fired`, nor a failed tick that is tried again, repeats a slot or goes  *)
(* back to an older one (schedule.go: replays dedupe).                     *)
OneRunPerSlot ==
  \A i, j \in DOMAIN runs :
    i < j /\ runs[i].key.source = runs[j].key.source => runs[i].key.slot < runs[j].key.slot

(* A scheduled run is for the most recent slot at the time its tick read   *)
(* the clock: of the slots missed while the server was down, or while      *)
(* ticks failed, only the last one runs (schedule.go, Tick).               *)
OnlyMostRecent ==
  [][\A i \in DOMAIN runs' \ DOMAIN runs :
       LET key == runs'[i].key
       IN  Len(key.source) = 3 =>
             /\ key.slot <= tick.now
             /\ ~\E t \in FiresOf(key.source) : key.slot < t /\ t <= tick.now]_vars

(* Whether the schedules listed up to s can all be ingested.               *)
Unobstructed(s) ==
  \A i \in DOMAIN listed :
    listed[i] = s => \A h \in 1 .. i : ~IngestFails(ScheduleEvent(listed[h][1]))

(* Every schedule gets its last slot run, when the slot is within the      *)
(* window of the horizon and no repository listed before it, nor its own,  *)
(* fails to compile: lost history, failed calls and restarts between the   *)
(* run and its record in `fired` only delay it (schedule.go, Tick, and     *)
(* the loop that calls it every 30 seconds).                               *)
SchedulesCatchUp ==
  <>[](\A s \in DOMAIN fired : \A t \in {x \in FiresOf(s) : x = Max(FiresOf(s))} :
         t > Horizon - Window /\ ~Known(SlotKey(s, t)) => ~Unobstructed(s))

-----------------------------------------------------------------------------
(* The files never change: what is said of them is said in the beginning.  *)
Documents == IF clock > 1 \/ tick # Idle \/ receipts # {} THEN {} ELSE FilesOf(files)

(* A workflow compiles exactly when its jobs can be ordered and each is    *)
(* fine by itself; the result has the instances of every job for every     *)
(* choice of matrix values and no others, and a job after all instances of *)
(* the jobs it needs (Compile, topoSort, expandMatrix).                    *)
CompileSound ==
  \A doc \in Documents : Parse(doc)[1] => Compiled(Parse(doc)[2].jobs, Compile(Parse(doc)[2]))

(* The document with an unexpected entry in one mapping: in the node       *)
(* itself, or in a node inside it, down to the mappings of a step.  An     *)
(* entry of text is expected in `env` and `with`, a number nowhere.        *)
Unexpected(key) ==
  Misspelt \X ({Scalar("int", "1")} \cup IF key \in {"env", "with"} THEN {} ELSE {Scalar("str", "text")})

Entry(key, node) ==
  IF node.kind = "map" THEN {Mapping(Append(node.items, e)) : e \in Unexpected(key)} ELSE {}

Deeper(node, Of(_, _)) ==
  IF node.kind = "map"
  THEN UNION {{Mapping([node.items EXCEPT ![i] = <<node.items[i][1], d>>]) :
                 d \in Of(node.items[i][1], node.items[i][2])} : i \in DOMAIN node.items}
  ELSE UNION {{Listing([node.items EXCEPT ![i] = d]) : d \in Of("", node.items[i])} : i \in DOMAIN node.items}

Injected1(key, node) == Entry(key, node) \cup Deeper(node, Entry)
Injected2(key, node) == Entry(key, node) \cup Deeper(node, Injected1)
Injected3(key, node) == Entry(key, node) \cup Deeper(node, Injected2)
Injected4(key, node) == Entry(key, node) \cup Deeper(node, Injected3)
Injected(doc) == Entry("", doc) \cup Deeper(doc, Injected4)

(* The parser ignores nothing: an entry outside the supported subset, in   *)
(* whichever mapping of the document, makes Parse refuse the document      *)
(* (syntax/diagnostic.go: "never silently ignored").                       *)
NothingIgnored == \A doc \in Documents : \A d \in Injected(doc) : ~Parse(d)[1]

(* The plan of a job runs the job's steps and nothing else, in their       *)
(* order: each with its condition, its continue-on-error and, if it is a   *)
(* script, its environment.  Instead of a step that uses a composite       *)
(* action it runs the action's steps, filled in with the plain inputs; the *)
(* property claims nothing of that step's condition, environment and       *)
(* continue-on-error, which buildPlan drops.  An input of a step that      *)
(* stands by itself is in the plan or, if it is a secret reference, among  *)
(* the plan's references only (plan.go: "secret references only, never     *)
(* resolved values").                                                      *)
PlanKeepsSteps ==
  \A r \in DOMAIN runs : \A i \in DOMAIN runs[r].jobs :
    Faithful(runs[r].jobs[i].steps, runs[r].plans[i])

(* Every job a job waits for is a job of its run (postgres/store.go:       *)
(* "missing sibling: compile guarantees presence").                        *)
NeedsPresent ==
  \A r \in DOMAIN runs : \A i \in DOMAIN runs[r].jobs :
    Range(runs[r].jobs[i].needs) \subseteq {runs[r].jobs[h].key : h \in DOMAIN runs[r].jobs}

=============================================================================
