------------------------------ MODULE PgStore -------------------------------
(***************************************************************************)
(* The PostgreSQL DurableStore (internal/storage/postgres), statement by   *)
(* statement.  Transactions run at the default level, READ COMMITTED: each *)
(* statement reads what is committed when it starts, plus the writes of    *)
(* its own transaction; row locks are held until commit.  Where nothing    *)
(* can come between two statements (the row is locked, or the transaction  *)
(* ends) they are one step.                                                *)
(*                                                                         *)
(* A session is one caller: a dispatcher (claim, create the object,        *)
(* acknowledge or release) or a request handler (create a run, apply an    *)
(* observation, cancel, re-request).  The rows of job_runs are numbered in *)
(* the order of their IDs.                                                 *)
(***************************************************************************)
EXTENDS RunModel, FiniteSets

CONSTANTS
  RunID, Delivery,
  DeliveryOf,   \* [RunID -> Delivery]
  JobKey,
  RunOf,        \* [JobKey -> RunID]
  Position,     \* [JobKey -> Nat]: place in the run's intents
  DependsOn,    \* [JobKey -> SUBSET JobKey]
  Condition,    \* [JobKey -> STRING]
  MaxRows,      \* bound: rows of job_runs
  MaxLapses,    \* bound: claims that outlive their lease
  MaxLoad,      \* bound: calls under way at one time, a handler's counts twice
  Dispatcher, Handler,
  NoKey, NoRun  \* stand for no key and no run

Session == Dispatcher \cup Handler
Row == 1 .. MaxRows

ASSUME PgAssumption ==
  /\ DeliveryOf \in [RunID -> Delivery] /\ RunOf \in [JobKey -> RunID]
  /\ DependsOn \in [JobKey -> SUBSET JobKey]
  /\ MaxRows \in Nat /\ MaxLapses \in Nat /\ MaxLoad \in Nat
  /\ Dispatcher \cap Handler = {} /\ IsFiniteSet(Dispatcher)
  /\ NoKey \notin JobKey /\ NoRun \notin RunID
  \* locks on different tables are different locks
  /\ Row \cap RunID = {} /\ Row \cap Delivery = {} /\ RunID \cap Delivery = {}
  \* the intents of a run are finitely many and numbered from one
  /\ \A r \in RunID : Cardinality({l \in JobKey : RunOf[l] = r}) \in Nat
  /\ \A k \in JobKey : Position[k] \in 1 .. Cardinality({l \in JobKey : RunOf[l] = RunOf[k]})

VARIABLES
  status, key, attempt, claim,  \* job_runs: the committed columns
  runStatus,                    \* workflow_runs
  nextRow,                      \* rows used so far
  pod,                          \* phase of the row's pod, "none" before
  lapses,                       \* per row: leases that ran out
  op, at,                       \* per session: its call and next statement
  row, run,                     \* per session: the row or run it works on
  read,                         \* per session: the status or phase it goes by
  todo,                         \* per session: candidate rows not scanned yet
  writes,                       \* per session: rows it wrote, with the status
  runWrite,                     \* per session: run statuses it wrote
  holds,                        \* per session: rows and runs it has locked
  shares                        \* per session: runs it has a key-share lock on

tables == <<status, key, attempt, claim, runStatus, nextRow>>
txVars == <<op, at, row, run, read, todo, writes, runWrite, holds, shares>>
vars == <<tables, pod, lapses, txVars>>

Empty == [x \in {} |-> "absent"]

Init ==
  /\ status = [i \in Row |-> "absent"] /\ key = [i \in Row |-> NoKey]
  /\ attempt = [i \in Row |-> 0] /\ claim = [i \in Row |-> "none"]
  /\ runStatus = [r \in RunID |-> "absent"] /\ nextRow = 0
  /\ pod = [i \in Row |-> "none"] /\ lapses = [i \in Row |-> 0]
  /\ op = [s \in Session |-> "none"] /\ at = [s \in Session |-> "idle"]
  /\ row = [s \in Session |-> 0] /\ run = [s \in Session |-> NoRun]
  /\ read = [s \in Session |-> "none"] /\ todo = [s \in Session |-> {}]
  /\ writes = [s \in Session |-> Empty] /\ runWrite = [s \in Session |-> Empty]
  /\ holds = [s \in Session |-> {}] /\ shares = [s \in Session |-> {}]

-----------------------------------------------------------------------------
(***************************************************************************)
(* What a statement of s reads, and which locks it has to wait for.        *)
(***************************************************************************)
Reads(s, i) == IF i \in DOMAIN writes[s] THEN writes[s][i] ELSE status[i]

ReadsRun(s, r) == IF r \in DOMAIN runWrite[s] THEN runWrite[s][r] ELSE runStatus[r]

RowsOf(r) == {i \in Row : status[i] # "absent" /\ RunOf[key[i]] = r}

Blockers(s, x) == {t \in Session \ {s} : x \in holds[t]}
KeyBlockers(s, r) == Blockers(s, r) \cup {t \in Session \ {s} : r \in shares[t]}

Write(f, i, v) == [x \in DOMAIN f \cup {i} |-> IF x = i THEN v ELSE f[x]]

Goto(s, place) == at' = [at EXCEPT ![s] = place]

Load(S) == Cardinality(S) + Cardinality(S \cap Handler)

Start(s, name, place) ==
  /\ at[s] = "idle" /\ Load({s} \cup {t \in Session : at[t] # "idle"}) <= MaxLoad
  /\ op' = [op EXCEPT ![s] = name] /\ Goto(s, place)

(***************************************************************************)
(* The transaction ends: its locals are gone and its locks are free.       *)
(***************************************************************************)
End(s, place) ==
  /\ Goto(s, place)
  /\ op' = [op EXCEPT ![s] = IF place = "idle" THEN "none" ELSE @]
  /\ row' = [row EXCEPT ![s] = IF place = "idle" THEN 0 ELSE @]
  /\ run' = [run EXCEPT ![s] = NoRun]
  /\ read' = [read EXCEPT ![s] = "none"] /\ todo' = [todo EXCEPT ![s] = {}]
  /\ writes' = [writes EXCEPT ![s] = Empty] /\ runWrite' = [runWrite EXCEPT ![s] = Empty]
  /\ holds' = [holds EXCEPT ![s] = {}] /\ shares' = [shares EXCEPT ![s] = {}]

Publish(s) ==
  /\ status' = [i \in Row |-> Reads(s, i)]
  /\ runStatus' = [r \in RunID |-> ReadsRun(s, r)]

-----------------------------------------------------------------------------
(***************************************************************************)
(* CreateRun: look the delivery up, insert the run (a unique index on the  *)
(* delivery makes a second insert wait, then fail), its jobs, commit.      *)
(***************************************************************************)
DeliveryRuns(d) == {r \in RunID : DeliveryOf[r] = d /\ runStatus[r] # "absent"}

CreateRun(s, d) ==
  /\ s \in Handler /\ DeliveryRuns(d) = {}
  /\ Start(s, "create", "insert")
  /\ \E r \in RunID : /\ DeliveryOf[r] = d /\ \A t \in Session : run[t] # r
                      /\ run' = [run EXCEPT ![s] = r]
  /\ UNCHANGED <<tables, pod, lapses, row, read, todo, writes, runWrite, holds, shares>>

InsertRun_NotUnique(s) ==
  /\ at[s] = "insert"
  /\ Goto(s, "commit")
  /\ UNCHANGED <<tables, pod, lapses, op, row, run, read, todo, writes, runWrite, holds, shares>>

InsertRun(s) ==
  LET d == DeliveryOf[run[s]]
  IN  /\ at[s] = "insert" /\ Blockers(s, d) = {}
      /\ IF DeliveryRuns(d) # {}
         THEN End(s, "idle")
         ELSE /\ Goto(s, "commit") /\ holds' = [holds EXCEPT ![s] = {d}]
              /\ UNCHANGED <<op, row, run, read, todo, writes, runWrite, shares>>
      /\ UNCHANGED <<tables, pod, lapses>>

CommitRun(s) ==
  LET keys    == {k \in JobKey : RunOf[k] = run[s]}
      rowOf(k) == nextRow + Position[k]
      new      == {rowOf(k) : k \in keys}
  IN  /\ at[s] = "commit" /\ op[s] = "create"
      /\ runStatus' = [runStatus EXCEPT ![run[s]] = "queued"]
      /\ status' = [i \in Row |-> IF i \in new THEN "queued" ELSE status[i]]
      /\ key' = [i \in Row |-> IF i \in new THEN CHOOSE k \in keys : rowOf(k) = i ELSE key[i]]
      /\ attempt' = [i \in Row |-> IF i \in new THEN 1 ELSE attempt[i]]
      /\ nextRow' = nextRow + Cardinality(keys)
      /\ End(s, "idle")
      /\ UNCHANGED <<claim, pod, lapses>>

-----------------------------------------------------------------------------
(***************************************************************************)
(* ClaimNextQueuedJob: lock the unlocked candidates, then scan them in     *)
(* order.  depState takes the latest attempt of each needed key.           *)
(***************************************************************************)
depState(s, i) ==
  LET deps    == DependsOn[key[i]]
      all(k)  == {x \in RowsOf(RunOf[key[i]]) : key[x] = k}
      latest  == {x \in UNION {all(k) : k \in deps} :
                    \A y \in all(key[x]) : attempt[y] <= attempt[x]}
      results == {Reads(s, x) : x \in latest}
  IN  IF Cardinality(latest) # Cardinality(deps) THEN "blocked"
      ELSE IF results \cap {"failed", "cancelled", "skipped"} # {} THEN "failed"
      ELSE IF results \subseteq {"succeeded"} THEN "ready" ELSE "blocked"

ClaimSelect_NoSkip(s) ==
  /\ s \in Dispatcher /\ Start(s, "claim", "scan")
  /\ todo' = [todo EXCEPT ![s] = {i \in Row : status[i] = "queued" /\ claim[i] # "live"}]
  /\ holds' = [holds EXCEPT ![s] = todo'[s]]
  /\ UNCHANGED <<tables, pod, lapses, row, run, read, writes, runWrite, shares>>

ClaimSelect_AnyStatus(s) ==
  /\ s \in Dispatcher /\ Start(s, "claim", "scan")
  /\ todo' = [todo EXCEPT ![s] = {i \in Row : /\ status[i] # "absent" /\ claim[i] # "live"
                                              /\ Blockers(s, i) = {}}]
  /\ holds' = [holds EXCEPT ![s] = todo'[s]]
  /\ UNCHANGED <<tables, pod, lapses, row, run, read, writes, runWrite, shares>>

ClaimSelect(s) ==
  /\ s \in Dispatcher /\ Start(s, "claim", "scan")
  /\ todo' = [todo EXCEPT ![s] = {i \in Row : /\ status[i] = "queued" /\ claim[i] # "live"
                                              /\ Blockers(s, i) = {}}]
  /\ holds' = [holds EXCEPT ![s] = todo'[s]]
  /\ UNCHANGED <<tables, pod, lapses, row, run, read, writes, runWrite, shares>>

LeaveBlocked(s, i) ==
  /\ depState(s, i) = "blocked"
  /\ todo' = [todo EXCEPT ![s] = @ \ {i}]
  /\ UNCHANGED <<tables, op, at, row, run, read, writes, runWrite, holds, shares>>

SkipFailed(s, i) ==
  /\ depState(s, i) = "failed" /\ Condition[key[i]] = ""
  /\ todo' = [todo EXCEPT ![s] = @ \ {i}]
  /\ writes' = [writes EXCEPT ![s] = Write(@, i, "skipped")]
  /\ run' = [run EXCEPT ![s] = RunOf[key[i]]]
  /\ Goto(s, "aggregate")
  /\ UNCHANGED <<tables, op, row, read, runWrite, holds, shares>>

ClaimJob(s, i) ==
  /\ depState(s, i) # "blocked" /\ (depState(s, i) = "failed" => Condition[key[i]] # "")
  /\ Publish(s)
  /\ claim' = [claim EXCEPT ![i] = "live"]
  /\ Goto(s, "claimed") /\ row' = [row EXCEPT ![s] = i]
  /\ todo' = [todo EXCEPT ![s] = {}]
  /\ writes' = [writes EXCEPT ![s] = Empty] /\ runWrite' = [runWrite EXCEPT ![s] = Empty]
  /\ holds' = [holds EXCEPT ![s] = {}]
  /\ UNCHANGED <<key, attempt, nextRow, op, run, read, shares>>

ClaimScan(s) ==
  /\ at[s] = "scan"
  /\ \E i \in todo[s] : /\ \A y \in todo[s] : i <= y
                        /\ LeaveBlocked(s, i) \/ SkipFailed(s, i) \/ ClaimJob(s, i)
  /\ UNCHANGED <<pod, lapses>>

ClaimEmpty(s) ==
  /\ at[s] = "scan" /\ todo[s] = {}
  /\ Publish(s) /\ End(s, "idle")
  /\ UNCHANGED <<key, attempt, claim, nextRow, pod, lapses>>

(***************************************************************************)
(* refreshRun inside a claim or an observation: read the statuses, then    *)
(* lock the run and advance it.                                            *)
(***************************************************************************)
Aggregate(s) ==
  /\ at[s] = "aggregate"
  /\ read' = [read EXCEPT ![s] = AggregateRunStatus({Reads(s, i) : i \in RowsOf(run[s])})]
  /\ Goto(s, "lockrun")
  /\ UNCHANGED <<tables, pod, lapses, op, row, run, todo, writes, runWrite, holds, shares>>

Advanced(s) ==
  LET cur == ReadsRun(s, run[s])
  IN  IF CanAdvanceRun(cur, read[s]) THEN Write(runWrite[s], run[s], read[s]) ELSE runWrite[s]

LockRun(s) ==
  /\ at[s] = "lockrun" /\ KeyBlockers(s, run[s]) = {}
  /\ runWrite' = [runWrite EXCEPT ![s] = Advanced(s)]
  /\ holds' = [holds EXCEPT ![s] = @ \cup {run[s]}]
  /\ Goto(s, IF op[s] = "claim" THEN "scan" ELSE "commit")
  /\ UNCHANGED <<tables, pod, lapses, op, row, run, read, todo, writes, shares>>

(***************************************************************************)
(* The dispatcher after a claim: check the job, ensure its object,         *)
(* acknowledge: a plain read, then an UPDATE by id.  A job that may not be *)
(* dispatched, a failed create and a refused ack release the claim,        *)
(* whoever holds it by then.                                               *)
(***************************************************************************)
CheckJob(s) ==
  /\ at[s] = "claimed"
  /\ Goto(s, IF status[row[s]] \in {"queued", "dispatched"} THEN "object" ELSE "release")
  /\ UNCHANGED <<tables, pod, lapses, op, row, run, read, todo, writes, runWrite, holds, shares>>

CreateObject(s) ==
  /\ at[s] = "object"
  /\ \/ /\ pod' = [pod EXCEPT ![row[s]] = IF @ = "none" THEN "running" ELSE @]
        /\ Goto(s, "ack")
     \/ Goto(s, "release") /\ UNCHANGED pod
  /\ UNCHANGED <<tables, lapses, op, row, run, read, todo, writes, runWrite, holds, shares>>

AckRead(s) ==
  /\ at[s] = "ack"
  /\ Goto(s, IF status[row[s]] \in {"queued", "dispatched"} THEN "ackwrite" ELSE "release")
  /\ UNCHANGED <<tables, pod, lapses, op, row, run, read, todo, writes, runWrite, holds, shares>>

AckWrite(s) ==
  /\ at[s] = "ackwrite" /\ Blockers(s, row[s]) = {}
  /\ status' = [status EXCEPT ![row[s]] = "dispatched"]
  /\ claim' = [claim EXCEPT ![row[s]] = "none"]
  /\ End(s, "idle")
  /\ UNCHANGED <<key, attempt, runStatus, nextRow, pod, lapses>>

ReleaseClaim(s) ==
  /\ at[s] = "release" /\ Blockers(s, row[s]) = {}
  /\ claim' = [claim EXCEPT ![row[s]] = "none"]
  /\ End(s, "idle")
  /\ UNCHANGED <<status, key, attempt, runStatus, nextRow, pod, lapses>>

-----------------------------------------------------------------------------
(***************************************************************************)
(* ApplyObserved: a plain read, an UPDATE by id if the phase advances what *)
(* was read, refreshRun, commit.                                           *)
(***************************************************************************)
Shown(i) == CASE pod[i] = "none" -> {} [] OTHER -> {"running", pod[i]}

ApplyRead(s, i, phase) ==
  /\ s \in Handler /\ phase \in Shown(i) /\ Start(s, "apply",
       IF status[i] \notin JobTerminal /\ CanAdvanceJob(status[i], phase)
       THEN "update" ELSE "aggregate")
  /\ row' = [row EXCEPT ![s] = i] /\ run' = [run EXCEPT ![s] = RunOf[key[i]]]
  /\ read' = [read EXCEPT ![s] = phase]
  /\ UNCHANGED <<tables, pod, lapses, todo, writes, runWrite, holds, shares>>

ApplyWrite_RunFirst(s) ==
  /\ at[s] = "update"
  /\ IF run[s] \notin holds[s]
     THEN /\ KeyBlockers(s, run[s]) = {} /\ holds' = [holds EXCEPT ![s] = {run[s]}]
          /\ UNCHANGED <<at, writes>>
     ELSE /\ Blockers(s, row[s]) = {} /\ holds' = [holds EXCEPT ![s] = @ \cup {row[s]}]
          /\ writes' = [writes EXCEPT ![s] = Write(@, row[s], read[s])]
          /\ Goto(s, "aggregate")
  /\ UNCHANGED <<tables, pod, lapses, op, row, run, read, todo, runWrite, shares>>

ApplyWrite(s) ==
  /\ at[s] = "update" /\ Blockers(s, row[s]) = {}
  /\ writes' = [writes EXCEPT ![s] = Write(@, row[s], read[s])]
  /\ holds' = [holds EXCEPT ![s] = {row[s]}]
  /\ Goto(s, "aggregate")
  /\ UNCHANGED <<tables, pod, lapses, op, row, run, read, todo, runWrite, shares>>

ApplyCommit(s) ==
  /\ at[s] = "commit" /\ op[s] = "apply"
  /\ Publish(s) /\ End(s, "idle")
  /\ UNCHANGED <<key, attempt, claim, nextRow, pod, lapses>>

(***************************************************************************)
(* CancelRun: a plain read of the run, SELECT ... FOR UPDATE over its jobs *)
(* (one lock after the other, in an order the statement leaves open: row   *)
(* is the next one), the updates, commit.                                  *)
(***************************************************************************)
CancelRead(s, r) ==
  /\ s \in Handler /\ runStatus[r] \notin RunTerminal \cup {"absent"}
  /\ Start(s, "cancel", "lockrows")
  /\ run' = [run EXCEPT ![s] = r] /\ todo' = [todo EXCEPT ![s] = RowsOf(r)]
  /\ \E i \in RowsOf(r) : row' = [row EXCEPT ![s] = i]
  /\ UNCHANGED <<tables, pod, lapses, read, writes, runWrite, holds, shares>>

CancelLock(s) ==
  LET rest == todo[s] \ {row[s]}
  IN  /\ at[s] = "lockrows" /\ todo[s] # {} /\ Blockers(s, row[s]) = {}
      /\ holds' = [holds EXCEPT ![s] = @ \cup {row[s]}]
      /\ todo' = [todo EXCEPT ![s] = rest]
      /\ \E i \in IF rest = {} THEN {0} ELSE rest : row' = [row EXCEPT ![s] = i]
      /\ UNCHANGED <<tables, pod, lapses, op, at, run, read, writes, runWrite, shares>>

CancelWrite_LeaksTx(s) ==
  /\ at[s] = "lockrows" /\ todo[s] = {} /\ Blockers(s, run[s]) = {}
  /\ holds' = [holds EXCEPT ![s] = @ \cup {run[s]}]
  /\ Goto(s, "idle")
  /\ UNCHANGED <<tables, pod, lapses, op, row, run, read, todo, writes, runWrite, shares>>

CancelWrite(s) ==
  /\ at[s] = "lockrows" /\ todo[s] = {} /\ Blockers(s, run[s]) = {}
  /\ status' = [i \in Row |-> IF i \in holds[s] THEN TransitionJob(status[i], "cancelled")
                              ELSE status[i]]
  /\ claim' = [i \in Row |-> IF i \in holds[s] /\ status[i] \notin JobTerminal THEN "none"
                             ELSE claim[i]]
  /\ runStatus' = [runStatus EXCEPT ![run[s]] = "cancelled"]
  /\ End(s, "idle")
  /\ UNCHANGED <<key, attempt, nextRow, pod, lapses>>

(***************************************************************************)
(* RerequestJob: look for the next attempt, insert it (the foreign key     *)
(* takes a key-share lock on the run), lock the run, reopen it, commit.    *)
(***************************************************************************)
RerequestRead(s, i) ==
  /\ s \in Handler /\ status[i] # "absent"
  /\ nextRow + Cardinality({t \in Handler : op[t] = "rerequest"}) < MaxRows
  /\ ~\E x \in RowsOf(RunOf[key[i]]) : key[x] = key[i] /\ attempt[x] = attempt[i] + 1
  /\ Start(s, "rerequest", "insertrow")
  /\ row' = [row EXCEPT ![s] = i] /\ run' = [run EXCEPT ![s] = RunOf[key[i]]]
  /\ UNCHANGED <<tables, pod, lapses, read, todo, writes, runWrite, holds, shares>>

RerequestInsert(s) ==
  /\ at[s] = "insertrow" /\ Blockers(s, run[s]) = {}
  /\ shares' = [shares EXCEPT ![s] = {run[s]}]
  /\ Goto(s, "reopen")
  /\ UNCHANGED <<tables, pod, lapses, op, row, run, read, todo, writes, runWrite, holds>>

RerequestCommit(s) ==
  LET i   == row[s]
      new == nextRow + 1
  IN  /\ at[s] = "reopen" /\ KeyBlockers(s, run[s]) = {}
      /\ status' = [status EXCEPT ![new] = "queued"]
      /\ key' = [key EXCEPT ![new] = key[i]]
      /\ attempt' = [attempt EXCEPT ![new] = attempt[i] + 1]
      /\ nextRow' = new
      /\ runStatus' = [runStatus EXCEPT ![run[s]] = IF @ \in RunTerminal THEN "queued" ELSE @]
      /\ End(s, "idle")
      /\ UNCHANGED <<claim, pod, lapses>>

-----------------------------------------------------------------------------
(***************************************************************************)
(* What the world does: pods end, leases run out, the server dies (its     *)
(* transactions roll back, its claims stay), and PostgreSQL aborts a       *)
(* transaction that waits in a cycle.                                      *)
(***************************************************************************)
PodEnds(i) ==
  /\ pod[i] = "running"
  /\ \E end \in {"succeeded", "failed"} : pod' = [pod EXCEPT ![i] = end]
  /\ UNCHANGED <<tables, lapses, txVars>>

LeaseLapses(i) ==
  /\ claim[i] = "live" /\ lapses[i] < MaxLapses
  /\ claim' = [claim EXCEPT ![i] = "lapsed"]
  /\ lapses' = [lapses EXCEPT ![i] = @ + 1]
  /\ UNCHANGED <<status, key, attempt, runStatus, nextRow, pod, txVars>>

Crash(s) ==
  /\ at[s] # "idle" /\ End(s, "idle")
  /\ UNCHANGED <<tables, pod, lapses>>

Waits(s) ==
  CASE at[s] = "insert" -> Blockers(s, DeliveryOf[run[s]])
    [] at[s] \in {"ackwrite", "release", "update"} -> Blockers(s, row[s])
    [] at[s] \in {"lockrun", "reopen"} -> KeyBlockers(s, run[s])
    [] at[s] = "insertrow" -> Blockers(s, run[s])
    [] at[s] = "lockrows" ->
         Blockers(s, IF todo[s] = {} THEN run[s] ELSE row[s])
    [] OTHER -> {}

Deadlocked(S) == S # {} /\ \A s \in S : Waits(s) \cap S # {}

Abort(s) ==
  /\ \E S \in SUBSET Session : s \in S /\ Deadlocked(S)
  /\ End(s, IF at[s] = "ackwrite" THEN "release" ELSE "idle")
  /\ UNCHANGED <<tables, pod, lapses>>

Dispatch(s) ==
  \/ ClaimSelect(s) \/ ClaimScan(s) \/ ClaimEmpty(s) \/ CheckJob(s) \/ CreateObject(s)
  \/ AckRead(s) \/ AckWrite(s) \/ ReleaseClaim(s)

Serve(s) ==
  \/ \E d \in Delivery : CreateRun(s, d)
  \/ InsertRun(s) \/ CommitRun(s)
  \/ \E i \in Row, p \in ObservedPhase : ApplyRead(s, i, p)
  \/ ApplyWrite(s) \/ ApplyCommit(s)
  \/ \E r \in RunID : CancelRead(s, r)
  \/ CancelLock(s) \/ CancelWrite(s)
  \/ \E i \in Row : RerequestRead(s, i)
  \/ RerequestInsert(s) \/ RerequestCommit(s)

Next ==
  \/ \E s \in Dispatcher : Dispatch(s)
  \/ \E s \in Handler : Serve(s)
  \/ \E s \in Session : Aggregate(s) \/ LockRun(s) \/ Crash(s) \/ Abort(s)
  \/ \E i \in Row : PodEnds(i) \/ LeaseLapses(i)

Spec == Init /\ [][Next]_vars

(***************************************************************************)
(* Fairness.  A session goes on with the call it has begun; a lock that is *)
(* free again and again is granted (PostgreSQL queues the waiters); a      *)
(* deadlock is found.  Nothing makes a session begin a call.               *)
(***************************************************************************)
Continue(s) ==
  /\ at[s] # "idle"
  /\ Dispatch(s) \/ Serve(s) \/ Aggregate(s) \/ LockRun(s)

FairSpec ==
  /\ Spec
  /\ \A s \in Session : SF_vars(Continue(s)) /\ WF_vars(Abort(s))

-----------------------------------------------------------------------------
(***************************************************************************)
(* "Concurrent claims must not hand the same JobRun to two callers before  *)
(* the claim is released": on a queued job at most one dispatcher works for*)
(* the live claim and one for each lease that ran out, although            *)
(* ReleaseClaim also drops a claim that somebody else holds by then.       *)
(***************************************************************************)
ClaimsWithinLease ==
  \A i \in Row : status[i] = "queued" =>
    Cardinality({s \in Dispatcher : row[s] = i /\ at[s] # "idle"})
      <= lapses[i] + IF claim[i] = "live" THEN 1 ELSE 0

(***************************************************************************)
(* A claim decides on rows nobody changes under it: until it commits, the  *)
(* candidates it locked and has not skipped are queued.                    *)
(***************************************************************************)
LockedStaysQueued ==
  \A s \in Dispatcher : op[s] = "claim" /\ at[s] \in {"scan", "aggregate", "lockrun"} =>
    \A i \in holds[s] \cap Row : status[i] = "queued"

(***************************************************************************)
(* Claims, acknowledgements, observations and cancellations lock job rows  *)
(* before run rows, claims skip locked rows, and they lock runs in the     *)
(* order in which the runs were created.  So transactions wait for each    *)
(* other in a cycle only where two cancellations lock the jobs of a run in *)
(* different orders, where a re-request wants the run it shares with       *)
(* another, or between claims once a re-request has put a job of an older  *)
(* run behind those of a newer one.                                        *)
(***************************************************************************)
NoLockCycle ==
  \A S \in SUBSET Session : Deadlocked(S) =>
    \/ \E s, t \in S : s # t /\ op[s] = "cancel" /\ op[t] = "cancel" /\ run[s] = run[t]
    \/ \E s \in S : op[s] = "rerequest"
    \/ /\ \E i \in Row : attempt[i] > 1
       /\ \E s, t \in S : s # t /\ op[s] = "claim" /\ op[t] = "claim"

(***************************************************************************)
(* A delivery leads to one run, also when two handlers found none: the     *)
(* unique index refuses the second.                                        *)
(***************************************************************************)
OneRunPerDelivery ==
  \A d \in Delivery : Cardinality(DeliveryRuns(d)) <= 1

(***************************************************************************)
(* Every call ends: no transaction waits forever, not even two re-requests *)
(* of one run, which deadlock on its key-share locks until one is aborted. *)
(***************************************************************************)
CallsEnd == \A s \in Session : at[s] # "idle" ~> at[s] = "idle"

(***************************************************************************)
(* ApplyObserved is monotonic and "rejected for terminal or cancelled      *)
(* jobs" holds for acks: a terminal status never changes.                  *)
(***************************************************************************)
TerminalSticky ==
  [][\A i \in Row : status[i] \in JobTerminal => status'[i] = status[i]]_vars

=============================================================================
