--------------------------- MODULE PgStore_proof ----------------------------
(***************************************************************************)
(* Proofs about the PostgreSQL store, for every set of runs, deliveries,   *)
(* jobs, dispatchers and handlers and every number of rows: the invariant  *)
(* its transactions keep, its unique index included, and what its row      *)
(* locks protect.                                                          *)
(***************************************************************************)
EXTENDS PgStore, TLAPS

-----------------------------------------------------------------------------
(***************************************************************************)
(* The inductive invariant.  First the types; a write set is a partial     *)
(* function.                                                               *)
(***************************************************************************)
Partial(D, V) == UNION {[E -> V] : E \in SUBSET D}

Phase == {"running", "succeeded", "failed"}
Op == {"none", "create", "claim", "apply", "cancel", "rerequest"}

Scanning == {"scan", "aggregate", "lockrun"}
Claimed == {"claimed", "object", "ack", "ackwrite", "release"}

Place(o) ==
  CASE o = "none"      -> {"idle"}
    [] o = "create"    -> {"insert", "commit"}
    [] o = "claim"     -> Scanning \cup Claimed
    [] o = "apply"     -> {"update", "aggregate", "lockrun", "commit"}
    [] o = "cancel"    -> {"lockrows"}
    [] o = "rerequest" -> {"insertrow", "reopen"}

TableType ==
  /\ status \in [Row -> JobRunStatus \cup {"absent"}]
  /\ key \in [Row -> JobKey \cup {NoKey}]
  /\ attempt \in [Row -> Nat]
  /\ claim \in [Row -> {"none", "live", "lapsed"}]
  /\ runStatus \in [RunID -> WorkflowRunStatus \cup {"absent"}]
  /\ nextRow \in Nat
  /\ pod \in [Row -> Phase \cup {"none"}] /\ lapses \in [Row -> Nat]

SessionType ==
  /\ op \in [Session -> Op] /\ at \in [Session -> UNION {Place(o) : o \in Op}]
  /\ row \in [Session -> Row \cup {0}] /\ run \in [Session -> RunID \cup {NoRun}]
  /\ read \in [Session -> WorkflowRunStatus \cup {"none"}]
  /\ todo \in [Session -> SUBSET Row]
  /\ writes \in [Session -> Partial(Row, JobRunStatus \ {"queued"})]
  /\ runWrite \in [Session -> Partial(RunID, WorkflowRunStatus)]
  /\ holds \in [Session -> SUBSET (Row \cup RunID \cup Delivery)]
  /\ shares \in [Session -> SUBSET RunID]

(***************************************************************************)
(* Records appear together: a job row has its key and its run, a pod its   *)
(* job row.                                                                *)
(***************************************************************************)
Live(i) == i \in Row /\ status[i] # "absent"
Known(r) == r \in RunID /\ runStatus[r] # "absent"
RunOfRow(i) == RunOf[key[i]]

TableInv ==
  /\ \A i \in Row : Live(i) =>
       i <= nextRow /\ key[i] \in JobKey /\ attempt[i] >= 1 /\ Known(RunOfRow(i))
  /\ \A i \in Row : pod[i] # "none" => Live(i)

(***************************************************************************)
(* No two transactions hold the same lock.                                 *)
(***************************************************************************)
Free(s, x) == \A t \in Session : t # s => x \notin holds[t]

LockInv == \A s \in Session : \A x \in holds[s] : Free(s, x)

(***************************************************************************)
(* What each kind of call has in hand at each of its statements.           *)
(***************************************************************************)
IdleOK(s) == op[s] = "none" => row[s] = 0 /\ holds[s] = {}

CreateOK(s) ==
  op[s] = "create" =>
    /\ run[s] \in RunID
    /\ at[s] = "insert" => holds[s] = {}
    /\ at[s] = "commit" => /\ holds[s] = {DeliveryOf[run[s]]}
                           /\ DeliveryRuns(DeliveryOf[run[s]]) = {}

ScanOK(s) ==
  op[s] = "claim" /\ at[s] \in Scanning =>
    /\ row[s] = 0 /\ todo[s] \subseteq holds[s] /\ holds[s] \subseteq Row \cup RunID
    /\ \A i \in holds[s] \cap Row : status[i] = "queued" /\ claim[i] # "live"
    /\ at[s] # "scan" => Known(run[s])

ClaimedOK(s) ==
  op[s] = "claim" /\ at[s] \in Claimed => Live(row[s]) /\ holds[s] = {}

ApplyOK(s) ==
  op[s] = "apply" =>
    /\ Live(row[s]) /\ run[s] = RunOfRow(row[s])
    /\ at[s] = "update" => holds[s] = {} /\ read[s] \in Phase
    /\ holds[s] \subseteq IF at[s] = "commit" THEN {row[s], run[s]} ELSE {row[s]}

CancelOK(s) ==
  op[s] = "cancel" =>
    /\ Known(run[s]) /\ holds[s] \subseteq Row
    /\ \A i \in holds[s] \cup todo[s] : Live(i) /\ RunOfRow(i) = run[s]
    /\ todo[s] # {} => row[s] \in todo[s]

RerequestOK(s) ==
  op[s] = "rerequest" => Live(row[s]) /\ run[s] = RunOfRow(row[s]) /\ holds[s] = {}

(* A transaction writes only rows it has locked and runs that exist.       *)
WritesOK(s) ==
  DOMAIN writes[s] \subseteq holds[s] /\ \A r \in DOMAIN runWrite[s] : Known(r)

CallOK(s) ==
  /\ at[s] \in Place(op[s])
  /\ s \in Dispatcher => op[s] \in {"none", "claim"}
  /\ s \in Handler => op[s] # "claim"
  /\ at[s] = "lockrun" => read[s] \in WorkflowRunStatus

SessionOK(s) ==
  /\ CallOK(s) /\ WritesOK(s)
  /\ IdleOK(s) /\ CreateOK(s) /\ ScanOK(s) /\ ClaimedOK(s)
  /\ ApplyOK(s) /\ CancelOK(s) /\ RerequestOK(s)

PgInv ==
  /\ TableType /\ SessionType /\ TableInv /\ LockInv
  /\ \A s \in Session : SessionOK(s)

-----------------------------------------------------------------------------
(***************************************************************************)
(* Write sets.                                                             *)
(***************************************************************************)
LEMMA PartialParts ==
  ASSUME NEW D, NEW V, NEW f \in Partial(D, V)
  PROVE  DOMAIN f \subseteq D /\ \A x \in DOMAIN f : f[x] \in V
BY Zenon DEF Partial

LEMMA EmptyPartial ==
  ASSUME NEW D, NEW V
  PROVE  Empty \in Partial(D, V) /\ DOMAIN Empty = {}
BY Zenon DEF Partial, Empty

LEMMA WritePartial ==
  ASSUME NEW D, NEW V, NEW f \in Partial(D, V), NEW i \in D, NEW v \in V
  PROVE  Write(f, i, v) \in Partial(D, V)
<1>1. DOMAIN f \subseteq D /\ \A x \in DOMAIN f : f[x] \in V
  BY Zenon, PartialParts
<1>2. Write(f, i, v) \in [DOMAIN f \cup {i} -> V] /\ DOMAIN f \cup {i} \in SUBSET D
  BY Zenon, <1>1 DEF Write
<1> QED
  BY Zenon, <1>2 DEF Partial

(***************************************************************************)
(* What a step of session s does to the others: their locals stay, its new *)
(* locks are ones they do not hold, records only appear, and the rows that *)
(* they hold stay queued and unclaimed.  A run appears only where its      *)
(* creation commits, and so does the first attempt of a job.               *)
(***************************************************************************)
Apart(s) ==
  \A t \in Session : t # s =>
    /\ op'[t] = op[t] /\ at'[t] = at[t] /\ row'[t] = row[t] /\ run'[t] = run[t]
    /\ read'[t] = read[t] /\ todo'[t] = todo[t] /\ writes'[t] = writes[t]
    /\ runWrite'[t] = runWrite[t] /\ holds'[t] = holds[t] /\ shares'[t] = shares[t]

NewLocksFree(s) == \A x \in holds'[s] : x \in holds[s] \/ Free(s, x)

RecordsStay ==
  /\ \A i \in Row : Live(i) => status'[i] # "absent" /\ key'[i] = key[i] /\ attempt'[i] = attempt[i]
  /\ \A r \in RunID : Known(r) => runStatus'[r] # "absent"

HeldStayQueued(s) ==
  \A i \in Row : ~Free(s, i) /\ status[i] = "queued" /\ claim[i] # "live" =>
    status'[i] = "queued" /\ claim'[i] # "live"

RunsAppear(s) ==
  \A r \in RunID : ~Known(r) /\ runStatus'[r] # "absent" =>
    op[s] = "create" /\ at[s] = "commit" /\ run[s] = r

RowsAppear(s) ==
  \A i \in Row : ~Live(i) /\ status'[i] # "absent" =>
    /\ i > nextRow
    /\ attempt'[i] <= 1 => op[s] = "create" /\ at[s] = "commit" /\ RunOf[key'[i]] = run[s]

Effect(s) == RecordsStay /\ HeldStayQueued(s) /\ RunsAppear(s) /\ RowsAppear(s)

(***************************************************************************)
(* Then the other sessions have in hand what they had.                     *)
(***************************************************************************)
LEMMA OthersKeep ==
  ASSUME PgInv, NEW s \in Session, NEW t \in Session, t # s,
         Apart(s), Effect(s), TableType', SessionType'
  PROVE  SessionOK(t)'
<1> USE DEF Effect
<1>1. /\ op'[t] = op[t] /\ at'[t] = at[t] /\ row'[t] = row[t] /\ run'[t] = run[t]
      /\ read'[t] = read[t] /\ todo'[t] = todo[t] /\ writes'[t] = writes[t]
      /\ runWrite'[t] = runWrite[t] /\ holds'[t] = holds[t]
  BY Zenon DEF Apart
<1>2. SessionOK(t) /\ SessionOK(s)
  BY Zenon DEF PgInv
<1>3. \A i \in Row : Live(i) => Live(i)' /\ RunOfRow(i)' = RunOfRow(i)
  BY Zenon DEF RecordsStay, Live, RunOfRow
<1>4. \A r : Known(r) => Known(r)'
  BY Zenon DEF RecordsStay, Known
<1>5. CallOK(t)' /\ IdleOK(t)'
  BY Zenon, <1>1, <1>2 DEF SessionOK, CallOK, IdleOK
<1>6. WritesOK(t)'
  BY Zenon, <1>1, <1>2, <1>4 DEF SessionOK, WritesOK
<1>7. CreateOK(t)'
  <2> SUFFICES ASSUME op[t] = "create", at[t] = "commit"
               PROVE  DeliveryRuns(DeliveryOf[run[t]])' = {}
    BY Zenon, <1>1, <1>2 DEF SessionOK, CreateOK
  <2>1. /\ run[t] \in RunID /\ holds[t] = {DeliveryOf[run[t]]}
        /\ DeliveryRuns(DeliveryOf[run[t]]) = {}
    BY Zenon, <1>2 DEF SessionOK, CreateOK
  <2> SUFFICES ASSUME NEW r \in RunID, DeliveryOf[r] = DeliveryOf[run[t]], runStatus'[r] # "absent"
               PROVE  FALSE
    BY Zenon, <1>1 DEF DeliveryRuns
  <2>2. ~Known(r)
    BY Zenon, <2>1 DEF Known, DeliveryRuns
  <2>3. op[s] = "create" /\ at[s] = "commit" /\ run[s] = r
    BY Zenon, <2>2 DEF RunsAppear
  <2>4. DeliveryOf[r] \in holds[s]
    BY Zenon, <1>2, <2>3 DEF SessionOK, CreateOK
  <2> QED
    BY Zenon, <2>1, <2>4 DEF PgInv, LockInv, Free
<1>8. ScanOK(t)'
  <2> SUFFICES ASSUME op[t] = "claim", at[t] \in Scanning, NEW i \in holds[t] \cap Row
               PROVE  status'[i] = "queued" /\ claim'[i] # "live"
    BY Zenon, <1>1, <1>2, <1>4 DEF SessionOK, ScanOK
  <2>1. status[i] = "queued" /\ claim[i] # "live"
    BY Zenon, <1>2 DEF SessionOK, ScanOK
  <2>2. ~Free(s, i)
    BY Zenon DEF Free
  <2> QED
    BY Zenon, <2>1, <2>2 DEF HeldStayQueued
<1>9. ClaimedOK(t)'
  BY Zenon, <1>1, <1>2, <1>3 DEF SessionOK, ClaimedOK, Live
<1>10. ApplyOK(t)'
  BY Zenon, <1>1, <1>2, <1>3 DEF SessionOK, ApplyOK, Live
<1>11. CancelOK(t)'
  BY <1>1, <1>2, <1>3, <1>4 DEF SessionOK, CancelOK, Live
<1>12. RerequestOK(t)'
  BY Zenon, <1>1, <1>2, <1>3 DEF SessionOK, RerequestOK, Live
<1> QED
  BY Zenon, <1>5, <1>6, <1>7, <1>8, <1>9, <1>10, <1>11, <1>12 DEF SessionOK

(***************************************************************************)
(* So a step keeps the invariant if it keeps it for its own session.       *)
(***************************************************************************)
LEMMA StepKeeps ==
  ASSUME PgInv, NEW s \in Session, Apart(s), NewLocksFree(s), Effect(s),
         TableType', SessionType', TableInv', SessionOK(s)'
  PROVE  PgInv'
<1>1. \A t \in Session : SessionOK(t)'
  BY Zenon, OthersKeep
<1>2. LockInv'
  <2> SUFFICES ASSUME NEW t \in Session, NEW u \in Session, u # t,
                      NEW x \in holds'[t], x \in holds'[u]
               PROVE  FALSE
    BY Zenon DEF LockInv, Free
  <2>1. CASE t # s /\ u # s
    BY Zenon, <2>1 DEF Apart, PgInv, LockInv, Free
  <2>2. CASE t = s
    BY Zenon, <2>2 DEF Apart, NewLocksFree, PgInv, LockInv, Free
  <2>3. CASE u = s
    BY Zenon, <2>3 DEF Apart, NewLocksFree, PgInv, LockInv, Free
  <2> QED
    BY Zenon, <2>1, <2>2, <2>3
<1> QED
  BY Zenon, <1>1, <1>2 DEF PgInv

-----------------------------------------------------------------------------
(***************************************************************************)
(* The ends of a transaction, and its effects on the tables.               *)
(***************************************************************************)
LEMMA Ends ==
  ASSUME PgInv, NEW s \in Session, End(s, "idle")
  PROVE  Apart(s) /\ NewLocksFree(s) /\ SessionType' /\ SessionOK(s)'
<1> SessionType
  BY Zenon DEF PgInv
<1>1. /\ op' = [op EXCEPT ![s] = "none"] /\ at' = [at EXCEPT ![s] = "idle"]
      /\ row' = [row EXCEPT ![s] = 0] /\ run' = [run EXCEPT ![s] = NoRun]
      /\ read' = [read EXCEPT ![s] = "none"] /\ todo' = [todo EXCEPT ![s] = {}]
      /\ writes' = [writes EXCEPT ![s] = Empty] /\ runWrite' = [runWrite EXCEPT ![s] = Empty]
      /\ holds' = [holds EXCEPT ![s] = {}] /\ shares' = [shares EXCEPT ![s] = {}]
  BY Zenon DEF End, Goto
<1>2. /\ Empty \in Partial(Row, JobRunStatus \ {"queued"})
      /\ Empty \in Partial(RunID, WorkflowRunStatus) /\ DOMAIN Empty = {}
  BY Zenon, EmptyPartial
<1>3. "none" \in Op /\ "idle" \in Place("none") /\ "idle" \in UNION {Place(o) : o \in Op}
  BY Zenon DEF Op, Place
<1>4. SessionType'
  BY Zenon, <1>1, <1>2, <1>3 DEF SessionType
<1>5. Apart(s) /\ NewLocksFree(s)
  BY Zenon, <1>1 DEF SessionType, Apart, NewLocksFree
<1>6. /\ op'[s] = "none" /\ at'[s] = "idle" /\ row'[s] = 0 /\ holds'[s] = {}
      /\ writes'[s] = Empty /\ runWrite'[s] = Empty
  BY Zenon, <1>1 DEF SessionType
<1>7. SessionOK(s)'
  BY Zenon, <1>2, <1>3, <1>6 DEF SessionOK, CallOK, WritesOK, IdleOK, CreateOK, ScanOK,
     ClaimedOK,
                          ApplyOK, CancelOK, RerequestOK
<1> QED
  BY Zenon, <1>4, <1>5, <1>7

LEMMA TablesStay ==
  ASSUME PgInv, NEW s \in Session, UNCHANGED tables,
         pod' \in [Row -> Phase \cup {"none"}], lapses' \in [Row -> Nat],
         \A i \in Row : pod'[i] # "none" => Live(i)
  PROVE  Effect(s) /\ TableType' /\ TableInv'
<1>1. /\ status' = status /\ key' = key /\ attempt' = attempt /\ claim' = claim
      /\ runStatus' = runStatus /\ nextRow' = nextRow
  BY Zenon DEF tables
<1>2. TableType'
  BY Zenon, <1>1 DEF PgInv, TableType
<1>3. TableInv'
  BY Zenon, <1>1 DEF PgInv, TableInv, Live, Known, RunOfRow
<1>4. Effect(s)
  BY Zenon, <1>1 DEF Effect, RecordsStay, HeldStayQueued, RunsAppear, RowsAppear, Live, Known
<1> QED
  BY Zenon, <1>2, <1>3, <1>4

LEMMA Publishes ==
  ASSUME PgInv, NEW s \in Session, Publish(s), UNCHANGED <<key, attempt, nextRow, pod, lapses>>,
         \A i \in DOMAIN writes[s] : Live(i),
         claim' \in [Row -> {"none", "live", "lapsed"}],
         \A i \in Row : claim'[i] = "live" => claim[i] = "live" \/ i \in holds[s]
  PROVE  Effect(s) /\ TableType' /\ TableInv'
<1> /\ TableType /\ SessionType /\ TableInv /\ LockInv /\ WritesOK(s)
  BY Zenon DEF PgInv, SessionOK
<1>1. /\ DOMAIN writes[s] \subseteq Row
      /\ \A i \in DOMAIN writes[s] : writes[s][i] \in JobRunStatus \ {"queued"}
  BY PartialParts DEF SessionType
<1>2. /\ DOMAIN runWrite[s] \subseteq RunID
      /\ \A r \in DOMAIN runWrite[s] : runWrite[s][r] \in WorkflowRunStatus
  BY PartialParts DEF SessionType
<1>3. \A i \in Row : /\ Reads(s, i) \in JobRunStatus \cup {"absent"}
                     /\ Live(i) <=> Reads(s, i) # "absent"
                     /\ i \notin holds[s] => Reads(s, i) = status[i]
  BY Zenon, <1>1 DEF Reads, TableType, Live, JobRunStatus, WritesOK
<1>4. \A r \in RunID : /\ ReadsRun(s, r) \in WorkflowRunStatus \cup {"absent"}
                       /\ Known(r) <=> ReadsRun(s, r) # "absent"
  BY Zenon, <1>2 DEF ReadsRun, TableType, Known, WorkflowRunStatus, WritesOK
<1>5. /\ \A i \in Row : status'[i] = Reads(s, i) /\ (Live(i)' <=> Live(i))
      /\ \A r \in RunID : runStatus'[r] = ReadsRun(s, r)
      /\ \A r \in RunID : Known(r)' <=> Known(r)
  BY Zenon, <1>3, <1>4 DEF Publish, Live, Known
<1>6. TableType'
  BY Zenon, <1>3, <1>4 DEF TableType, Publish
<1>7. TableInv'
  <2>1. \A i \in Row : Live(i)' => /\ i <= nextRow' /\ key'[i] \in JobKey /\ attempt'[i] >= 1
                                   /\ RunOfRow(i)' = RunOfRow(i) /\ Known(RunOfRow(i))
    BY Zenon, <1>5 DEF TableInv, RunOfRow
  <2>2. \A i \in Row : Live(i)' => Known(RunOfRow(i))'
    BY Zenon, <2>1, <1>5 DEF Known
  <2> QED
    BY Zenon, <1>5, <2>1, <2>2 DEF TableInv
<1>8. RecordsStay /\ RunsAppear(s) /\ RowsAppear(s)
  BY Zenon, <1>5 DEF RecordsStay, RunsAppear, RowsAppear, Live, Known
<1>9. HeldStayQueued(s)
  BY Zenon, <1>3, <1>5 DEF HeldStayQueued, LockInv
<1> QED
  BY Zenon, <1>6, <1>7, <1>8, <1>9 DEF Effect

(***************************************************************************)
(* What a step has to show.                                                *)
(***************************************************************************)
OwnOK(s) == Apart(s) /\ NewLocksFree(s) /\ SessionType' /\ SessionOK(s)'

StepOK(s) == OwnOK(s) /\ Effect(s) /\ TableType' /\ TableInv'

LEMMA NothingWritten ==
  ASSUME PgInv, NEW s \in Session, UNCHANGED <<tables, pod, lapses>>
  PROVE  Effect(s) /\ TableType' /\ TableInv'
<1>1. /\ pod' \in [Row -> Phase \cup {"none"}] /\ lapses' \in [Row -> Nat]
      /\ \A i \in Row : pod'[i] # "none" => Live(i)
  BY Zenon DEF PgInv, TableType, TableInv
<1> QED
  BY Zenon, <1>1, TablesStay

(***************************************************************************)
(* The statement a session is at tells which call it is in.                *)
(***************************************************************************)
LEMMA CallAt ==
  ASSUME PgInv, NEW s \in Session
  PROVE  /\ at[s] = "idle" => op[s] = "none"
         /\ at[s] = "insert" => op[s] = "create"
         /\ at[s] = "commit" => op[s] \in {"create", "apply"}
         /\ at[s] = "scan" => op[s] = "claim"
         /\ at[s] \in {"aggregate", "lockrun"} => op[s] \in {"claim", "apply"}
         /\ at[s] \in Claimed => op[s] = "claim"
         /\ at[s] = "update" => op[s] = "apply"
         /\ at[s] = "lockrows" => op[s] = "cancel"
         /\ at[s] \in {"insertrow", "reopen"} => op[s] = "rerequest"
<1>1. op[s] \in Op /\ at[s] \in Place(op[s])
  BY Zenon DEF PgInv, SessionType, SessionOK, CallOK
<1>2. CASE op[s] = "none"
  BY Zenon, <1>1, <1>2 DEF Place, Claimed
<1>3. CASE op[s] = "create"
  BY Zenon, <1>1, <1>3 DEF Place, Claimed
<1>4. CASE op[s] = "claim"
  BY Zenon, <1>1, <1>4 DEF Place, Claimed, Scanning
<1>5. CASE op[s] = "apply"
  BY Zenon, <1>1, <1>5 DEF Place, Claimed
<1>6. CASE op[s] = "cancel"
  BY Zenon, <1>1, <1>6 DEF Place, Claimed
<1>7. CASE op[s] = "rerequest"
  BY Zenon, <1>1, <1>7 DEF Place, Claimed
<1> QED
  BY Zenon, <1>1, <1>2, <1>3, <1>4, <1>5, <1>6, <1>7 DEF Op

LEMMA PlaceTyped ==
  ASSUME NEW o \in Op, NEW x \in Place(o)
  PROVE  x \in UNION {Place(p) : p \in Op}
BY Zenon

(***************************************************************************)
(* An idle session begins a call: it holds nothing.                        *)
(***************************************************************************)
LEMMA IdleHolds ==
  ASSUME PgInv, NEW s \in Session, at[s] = "idle"
  PROVE  op[s] = "none" /\ row[s] = 0 /\ holds[s] = {} /\ DOMAIN writes[s] = {}
<1>1. op[s] = "none"
  BY Zenon, CallAt
<1> QED
  BY Zenon, <1>1 DEF PgInv, SessionOK, IdleOK, WritesOK

LEMMA CreateRunStep ==
  ASSUME PgInv, NEW s \in Session, NEW d \in Delivery, CreateRun(s, d)
  PROVE  StepOK(s)
<1>1. at[s] = "idle"
  BY Zenon DEF CreateRun, Start
<1>2. PICK r \in RunID : run' = [run EXCEPT ![s] = r]
  BY Zenon DEF CreateRun
<1>3. /\ op' = [op EXCEPT ![s] = "create"] /\ at' = [at EXCEPT ![s] = "insert"]
      /\ UNCHANGED <<tables, pod, lapses>> /\ s \in Handler
      /\ UNCHANGED <<row, read, todo, writes, runWrite, holds, shares>>
  BY Zenon DEF CreateRun, Start, Goto
<1>4. "create" \in Op /\ "insert" \in Place("create")
  BY Zenon DEF Op, Place
<1>5. SessionType'
  BY Zenon, <1>2, <1>3, <1>4, PlaceTyped DEF PgInv, SessionType
<1>6. Apart(s) /\ NewLocksFree(s)
  BY Zenon, <1>2, <1>3 DEF PgInv, SessionType, Apart, NewLocksFree
<1>7. /\ op'[s] = "create" /\ at'[s] = "insert" /\ run'[s] = r /\ holds'[s] = {}
      /\ writes'[s] = writes[s] /\ runWrite'[s] = runWrite[s]
  BY ZenonT(40), <1>1, <1>2, <1>3, IdleHolds DEF PgInv, SessionType
<1>8. Effect(s) /\ TableType' /\ TableInv'
  BY Zenon, <1>3, NothingWritten
<1>9. WritesOK(s)' /\ CallOK(s)'
  BY ZenonT(40), <1>1, <1>3, <1>4, <1>7, <1>8, IdleHolds, PgAssumption
     DEF PgInv, SessionOK, WritesOK, CallOK, Effect, RecordsStay, Known
<1>10. SessionOK(s)'
  BY Zenon, <1>7, <1>9 DEF SessionOK, IdleOK, CreateOK, ScanOK, ClaimedOK, ApplyOK,
     CancelOK, RerequestOK
<1> QED
  BY Zenon, <1>5, <1>6, <1>8, <1>10 DEF StepOK, OwnOK

LEMMA ClaimSelectStep ==
  ASSUME PgInv, NEW s \in Session, ClaimSelect(s)
  PROVE  StepOK(s)
<1>1. at[s] = "idle"
  BY Zenon DEF ClaimSelect, Start
<1> DEFINE T == {i \in Row : status[i] = "queued" /\ claim[i] # "live" /\ Blockers(s, i) = {}}
<1>2. /\ op' = [op EXCEPT ![s] = "claim"] /\ at' = [at EXCEPT ![s] = "scan"]
      /\ UNCHANGED <<tables, pod, lapses>> /\ s \in Dispatcher
      /\ todo' = [todo EXCEPT ![s] = T] /\ holds' = [holds EXCEPT ![s] = todo'[s]]
      /\ UNCHANGED <<row, run, read, writes, runWrite, shares>>
  BY Zenon DEF ClaimSelect, Start, Goto
<1>3. \A i \in T : i \in Row /\ status[i] = "queued" /\ claim[i] # "live" /\ Free(s, i)
  BY Zenon DEF Blockers, Free
<1> HIDE DEF T
<1>4. "claim" \in Op /\ "scan" \in Place("claim") /\ "scan" \in Scanning /\ "scan" \notin Claimed
  BY Zenon DEF Op, Place, Scanning, Claimed
<1>5. SessionType'
  BY Zenon, <1>2, <1>3, <1>4, PlaceTyped DEF PgInv, SessionType
<1>6. /\ op'[s] = "claim" /\ at'[s] = "scan" /\ todo'[s] = T /\ holds'[s] = T /\ row'[s] = 0
      /\ writes'[s] = writes[s] /\ runWrite'[s] = runWrite[s]
  BY Zenon, <1>1, <1>2, IdleHolds DEF PgInv, SessionType
<1>7. Apart(s) /\ NewLocksFree(s)
  BY Zenon, <1>2, <1>3, <1>6 DEF PgInv, SessionType, Apart, NewLocksFree
<1>8. Effect(s) /\ TableType' /\ TableInv'
  BY Zenon, <1>2, NothingWritten
<1>9. WritesOK(s)' /\ CallOK(s)'
  BY Zenon, <1>1, <1>2, <1>4, <1>6, <1>8, IdleHolds, PgAssumption
     DEF PgInv, SessionOK, WritesOK, CallOK, Effect, RecordsStay, Known
<1>10. status' = status /\ claim' = claim
  BY Zenon, <1>2 DEF tables
<1>11. ScanOK(s)'
  BY Zenon, <1>3, <1>6, <1>10 DEF ScanOK
<1>12. SessionOK(s)'
  BY Zenon, <1>4, <1>6, <1>9, <1>11 DEF SessionOK, IdleOK, CreateOK, ClaimedOK, ApplyOK,
     CancelOK, RerequestOK
<1> QED
  BY Zenon, <1>5, <1>7, <1>8, <1>12 DEF StepOK, OwnOK

LEMMA WritesKept ==
  ASSUME PgInv, NEW s \in Session, RecordsStay, writes'[s] = writes[s],
         runWrite'[s] = runWrite[s], holds[s] \subseteq holds'[s]
  PROVE  WritesOK(s)'
BY Zenon DEF PgInv, SessionOK, WritesOK, RecordsStay, Known

LEMMA ApplyReadStep ==
  ASSUME PgInv, NEW s \in Session, NEW i \in Row, NEW p \in ObservedPhase, ApplyRead(s, i, p)
  PROVE  StepOK(s)
<1> DEFINE place == IF status[i] \notin JobTerminal /\ CanAdvanceJob(status[i], p)
                    THEN "update" ELSE "aggregate"
<1>1. at[s] = "idle"
  BY Zenon DEF ApplyRead, Start
<1>2. /\ op' = [op EXCEPT ![s] = "apply"] /\ at' = [at EXCEPT ![s] = place]
      /\ UNCHANGED <<tables, pod, lapses>> /\ s \in Handler /\ p \in Shown(i)
      /\ row' = [row EXCEPT ![s] = i] /\ run' = [run EXCEPT ![s] = RunOf[key[i]]]
      /\ read' = [read EXCEPT ![s] = p]
      /\ UNCHANGED <<todo, writes, runWrite, holds, shares>>
  BY Zenon DEF ApplyRead, Start, Goto
<1>3. pod[i] # "none" /\ p \in Phase
  BY Zenon, <1>2 DEF Shown, PgInv, TableType, Phase
<1>4. Live(i) /\ RunOf[key[i]] \in RunID
  BY Zenon, <1>3 DEF PgInv, TableInv, Known, RunOfRow
<1>5. "apply" \in Op /\ place \in Place("apply") /\ place \notin {"commit", "lockrun"}
  BY Zenon DEF Op, Place
<1> HIDE DEF place
<1>6. p \in WorkflowRunStatus
  BY Zenon, <1>3 DEF Phase, WorkflowRunStatus
<1>7. SessionType'
  BY Zenon, <1>2, <1>4, <1>5, <1>6, PlaceTyped DEF PgInv, SessionType
<1>8. Apart(s) /\ NewLocksFree(s)
  BY Zenon, <1>2 DEF PgInv, SessionType, Apart, NewLocksFree
<1>9. /\ op'[s] = "apply" /\ at'[s] = place /\ row'[s] = i /\ run'[s] = RunOf[key[i]]
      /\ read'[s] = p /\ holds'[s] = {} /\ writes'[s] = writes[s] /\ runWrite'[s] = runWrite[s]
      /\ holds[s] = {}
  BY Zenon, <1>1, <1>2, IdleHolds DEF PgInv, SessionType
<1>10. Effect(s) /\ TableType' /\ TableInv'
  BY Zenon, <1>2, NothingWritten
<1>11. WritesOK(s)'
  BY Zenon, <1>9, <1>10, WritesKept DEF Effect
<1>12. CallOK(s)'
  BY Zenon, <1>2, <1>5, <1>9, PgAssumption DEF CallOK
<1>13. ApplyOK(s)'
  BY Zenon, <1>2, <1>3, <1>4, <1>5, <1>9 DEF ApplyOK, Live, RunOfRow, tables
<1>14. SessionOK(s)'
  BY Zenon, <1>9, <1>11, <1>12, <1>13 DEF SessionOK, IdleOK, CreateOK, ScanOK, ClaimedOK,
     CancelOK, RerequestOK
<1> QED
  BY Zenon, <1>7, <1>8, <1>10, <1>14 DEF StepOK, OwnOK

LEMMA CancelReadStep ==
  ASSUME PgInv, NEW s \in Session, NEW r \in RunID, CancelRead(s, r)
  PROVE  StepOK(s)
<1>1. at[s] = "idle"
  BY Zenon DEF CancelRead, Start
<1>2. PICK i \in RowsOf(r) : row' = [row EXCEPT ![s] = i]
  BY Zenon DEF CancelRead
<1>3. /\ op' = [op EXCEPT ![s] = "cancel"] /\ at' = [at EXCEPT ![s] = "lockrows"]
      /\ UNCHANGED <<tables, pod, lapses>> /\ s \in Handler /\ Known(r)
      /\ run' = [run EXCEPT ![s] = r] /\ todo' = [todo EXCEPT ![s] = RowsOf(r)]
      /\ UNCHANGED <<read, writes, runWrite, holds, shares>>
  BY Zenon DEF CancelRead, Start, Goto, Known
<1>4. \A x \in RowsOf(r) : Live(x) /\ RunOfRow(x) = r
  BY Zenon DEF RowsOf, Live, RunOfRow
<1>5. RowsOf(r) \subseteq Row
  BY Zenon DEF RowsOf
<1>6. "cancel" \in Op /\ "lockrows" \in Place("cancel")
  BY Zenon DEF Op, Place
<1>7. SessionType'
  BY Zenon, <1>2, <1>3, <1>5, <1>6, PlaceTyped DEF PgInv, SessionType
<1>8. Apart(s) /\ NewLocksFree(s)
  BY Zenon, <1>2, <1>3 DEF PgInv, SessionType, Apart, NewLocksFree
<1>9. /\ op'[s] = "cancel" /\ at'[s] = "lockrows" /\ row'[s] = i /\ run'[s] = r
      /\ todo'[s] = RowsOf(r) /\ holds'[s] = {}
      /\ writes'[s] = writes[s] /\ runWrite'[s] = runWrite[s] /\ holds[s] = {}
  BY Zenon, <1>1, <1>2, <1>3, IdleHolds DEF PgInv, SessionType
<1>10. Effect(s) /\ TableType' /\ TableInv'
  BY Zenon, <1>3, NothingWritten
<1>11. WritesOK(s)'
  BY Zenon, <1>9, <1>10, WritesKept DEF Effect
<1>12. CallOK(s)'
  BY Zenon, <1>3, <1>6, <1>9, PgAssumption DEF CallOK
<1>13. CancelOK(s)'
  <2>1. Known(r)' /\ \A x \in RowsOf(r) : Live(x)' /\ RunOfRow(x)' = r
    BY Zenon, <1>3, <1>4 DEF Live, Known, RunOfRow, tables
  <2> QED
    BY Zenon, <1>2, <1>9, <2>1 DEF CancelOK
<1>14. SessionOK(s)'
  BY Zenon, <1>9, <1>11, <1>12, <1>13 DEF SessionOK, IdleOK, CreateOK, ScanOK, ClaimedOK,
     ApplyOK, RerequestOK
<1> QED
  BY Zenon, <1>7, <1>8, <1>10, <1>14 DEF StepOK, OwnOK

LEMMA RerequestReadStep ==
  ASSUME PgInv, NEW s \in Session, NEW i \in Row, RerequestRead(s, i)
  PROVE  StepOK(s)
<1>1. at[s] = "idle"
  BY Zenon DEF RerequestRead, Start
<1>2. /\ op' = [op EXCEPT ![s] = "rerequest"] /\ at' = [at EXCEPT ![s] = "insertrow"]
      /\ UNCHANGED <<tables, pod, lapses>> /\ s \in Handler /\ Live(i)
      /\ row' = [row EXCEPT ![s] = i] /\ run' = [run EXCEPT ![s] = RunOfRow(i)]
      /\ UNCHANGED <<read, todo, writes, runWrite, holds, shares>>
  BY Zenon DEF RerequestRead, Start, Goto, Live, RunOfRow
<1>3. RunOfRow(i) \in RunID
  BY Zenon, <1>2 DEF PgInv, TableInv, Known
<1>4. "rerequest" \in Op /\ "insertrow" \in Place("rerequest")
  BY Zenon DEF Op, Place
<1>5. SessionType'
  BY Zenon, <1>2, <1>3, <1>4, PlaceTyped DEF PgInv, SessionType
<1>6. Apart(s) /\ NewLocksFree(s)
  BY Zenon, <1>2 DEF PgInv, SessionType, Apart, NewLocksFree
<1>7. /\ op'[s] = "rerequest" /\ at'[s] = "insertrow" /\ row'[s] = i /\ run'[s] = RunOfRow(i)
      /\ holds'[s] = {} /\ writes'[s] = writes[s] /\ runWrite'[s] = runWrite[s] /\ holds[s] = {}
  BY Zenon, <1>1, <1>2, IdleHolds DEF PgInv, SessionType
<1>8. Effect(s) /\ TableType' /\ TableInv'
  BY Zenon, <1>2, NothingWritten
<1>9. WritesOK(s)'
  BY Zenon, <1>7, <1>8, WritesKept DEF Effect
<1>10. CallOK(s)'
  BY Zenon, <1>2, <1>4, <1>7, PgAssumption DEF CallOK
<1>11. RerequestOK(s)'
  BY Zenon, <1>2, <1>7 DEF RerequestOK, Live, RunOfRow, tables
<1>12. SessionOK(s)'
  BY Zenon, <1>7, <1>9, <1>10, <1>11 DEF SessionOK, IdleOK, CreateOK, ScanOK, ClaimedOK,
     ApplyOK, CancelOK
<1> QED
  BY Zenon, <1>5, <1>6, <1>8, <1>12 DEF StepOK, OwnOK

(***************************************************************************)
(* The steps inside a transaction.                                         *)
(***************************************************************************)
LEMMA InsertRunStep ==
  ASSUME PgInv, NEW s \in Session, InsertRun(s)
  PROVE  StepOK(s)
<1> DEFINE d == DeliveryOf[run[s]]
<1>1. UNCHANGED <<tables, pod, lapses>> /\ at[s] = "insert" /\ Blockers(s, d) = {}
  BY Zenon DEF InsertRun
<1>2. Effect(s) /\ TableType' /\ TableInv'
  BY Zenon, <1>1, NothingWritten
<1>3. CASE DeliveryRuns(d) # {}
  <2>1. End(s, "idle")
    BY Zenon, <1>3 DEF InsertRun
  <2> QED
    BY Zenon, <1>2, <2>1, Ends DEF StepOK, OwnOK
<1>4. CASE DeliveryRuns(d) = {}
  <2>1. op[s] = "create" /\ run[s] \in RunID /\ d \in Delivery
    BY Zenon, <1>1, CallAt, PgAssumption DEF PgInv, SessionOK, CreateOK
  <2>2. /\ at' = [at EXCEPT ![s] = "commit"] /\ holds' = [holds EXCEPT ![s] = {d}]
        /\ UNCHANGED <<op, row, run, read, todo, writes, runWrite, shares>>
    BY Zenon, <1>4 DEF InsertRun, Goto
  <2>3. Free(s, d)
    BY Zenon, <1>1 DEF Blockers, Free
  <2>4. "create" \in Op /\ "commit" \in Place("create")
    BY Zenon DEF Op, Place
  <2>5. SessionType'
    BY Zenon, <2>1, <2>2, <2>4, PlaceTyped DEF PgInv, SessionType
  <2>6. /\ op'[s] = "create" /\ at'[s] = "commit" /\ run'[s] = run[s] /\ holds'[s] = {d}
        /\ writes'[s] = writes[s] /\ runWrite'[s] = runWrite[s] /\ holds[s] = {}
    BY Zenon, <1>1, <2>1, <2>2 DEF PgInv, SessionType, SessionOK, CreateOK
  <2>7. Apart(s) /\ NewLocksFree(s)
    BY Zenon, <2>2, <2>3, <2>6 DEF PgInv, SessionType, Apart, NewLocksFree
  <2>8. WritesOK(s)'
    BY Zenon, <1>2, <2>6, WritesKept DEF Effect
  <2>9. CallOK(s)'
    BY Zenon, <2>1, <2>2, <2>4, <2>6 DEF PgInv, SessionOK, CallOK
  <2>10. DeliveryRuns(d)' = {}
    BY Zenon, <1>1, <1>4, <2>6, <2>2 DEF DeliveryRuns, tables
  <2>11. CreateOK(s)'
    BY Zenon, <2>1, <2>6, <2>10 DEF CreateOK
  <2>12. SessionOK(s)'
    BY Zenon, <2>6, <2>8, <2>9, <2>11 DEF SessionOK, IdleOK, ScanOK, ClaimedOK, ApplyOK,
       CancelOK, RerequestOK
  <2> QED
    BY Zenon, <1>2, <2>5, <2>7, <2>12 DEF StepOK, OwnOK
<1> QED
  BY Zenon, <1>3, <1>4

LEMMA RecordsSame ==
  ASSUME UNCHANGED tables
  PROVE  /\ \A i : Live(i)' <=> Live(i)
         /\ \A r : Known(r)' <=> Known(r)
         /\ \A i : RunOfRow(i)' = RunOfRow(i)
BY Zenon DEF tables, Live, Known, RunOfRow

(* A dispatcher goes on with the job it claimed.                           *)
LEMMA ClaimedMoves ==
  ASSUME PgInv, NEW s \in Session, NEW x \in Claimed, at[s] \in Claimed,
         at' = [at EXCEPT ![s] = x], UNCHANGED tables,
         UNCHANGED <<op, row, run, read, todo, writes, runWrite, holds, shares>>
  PROVE  OwnOK(s)
<1>1. op[s] = "claim"
  BY Zenon, CallAt
<1>2. "claim" \in Op /\ x \in Place("claim") /\ x \notin Scanning /\ x # "lockrun"
  BY Zenon DEF Op, Place, Claimed, Scanning
<1>3. SessionType'
  BY Zenon, <1>2, PlaceTyped DEF PgInv, SessionType
<1>4. Apart(s) /\ NewLocksFree(s)
  BY Zenon DEF PgInv, SessionType, Apart, NewLocksFree
<1>5. op'[s] = "claim" /\ at'[s] = x
  BY Zenon, <1>1 DEF PgInv, SessionType
<1>6. Live(row[s]) /\ holds[s] = {}
  BY Zenon, <1>1 DEF PgInv, SessionOK, ClaimedOK
<1>7. ClaimedOK(s)'
  BY Zenon, <1>6, RecordsSame DEF ClaimedOK, Live
<1>8. WritesOK(s)'
  BY Zenon, RecordsSame DEF PgInv, SessionOK, WritesOK
<1>9. CallOK(s)'
  BY Zenon, <1>1, <1>2, <1>5 DEF PgInv, SessionOK, CallOK
<1>10. SessionOK(s)'
  BY Zenon, <1>2, <1>5, <1>7, <1>8, <1>9 DEF SessionOK, IdleOK, CreateOK, ScanOK, ApplyOK,
     CancelOK, RerequestOK
<1> QED
  BY Zenon, <1>3, <1>4, <1>10 DEF OwnOK

LEMMA CheckJobStep ==
  ASSUME PgInv, NEW s \in Session, CheckJob(s) \/ AckRead(s)
  PROVE  StepOK(s)
<1>1. /\ UNCHANGED <<tables, pod, lapses>> /\ at[s] \in Claimed
      /\ UNCHANGED <<op, row, run, read, todo, writes, runWrite, holds, shares>>
  BY Zenon DEF CheckJob, AckRead, Claimed
<1>2. PICK x : at' = [at EXCEPT ![s] = x] /\ x \in {"object", "release", "ackwrite"}
  BY Zenon DEF CheckJob, AckRead, Goto
<1>3. x \in Claimed
  BY Zenon, <1>2 DEF Claimed
<1>4. OwnOK(s)
  BY Zenon, <1>1, <1>2, <1>3, ClaimedMoves
<1> QED
  BY Zenon, <1>1, <1>4, NothingWritten DEF StepOK

LEMMA CreateObjectStep ==
  ASSUME PgInv, NEW s \in Session, CreateObject(s)
  PROVE  StepOK(s)
<1>1. /\ UNCHANGED <<tables, lapses>> /\ at[s] \in Claimed
      /\ UNCHANGED <<op, row, run, read, todo, writes, runWrite, holds, shares>>
  BY Zenon DEF CreateObject, Claimed
<1>2. PICK x : at' = [at EXCEPT ![s] = x] /\ x \in {"ack", "release"}
  BY Zenon DEF CreateObject, Goto
<1>3. x \in Claimed
  BY Zenon, <1>2 DEF Claimed
<1>4. OwnOK(s)
  BY Zenon, <1>1, <1>2, <1>3, ClaimedMoves
<1>5. op[s] = "claim" /\ Live(row[s])
  BY Zenon, <1>1, CallAt DEF PgInv, SessionOK, ClaimedOK
<1>6. pod' = pod \/ pod' = [pod EXCEPT ![row[s]] = IF @ = "none" THEN "running" ELSE @]
  BY Zenon DEF CreateObject
<1>7. /\ pod' \in [Row -> Phase \cup {"none"}] /\ lapses' \in [Row -> Nat]
      /\ \A i \in Row : pod'[i] # "none" => Live(i)
  BY <1>1, <1>5, <1>6 DEF PgInv, TableType, TableInv, Phase
<1> QED
  BY Zenon, <1>1, <1>4, <1>7, TablesStay DEF StepOK

LEMMA AggregateTyped ==
  ASSUME NEW S
  PROVE  AggregateRunStatus(S) \in WorkflowRunStatus
BY Zenon DEF AggregateRunStatus, WorkflowRunStatus

LEMMA AggregateStep ==
  ASSUME PgInv, NEW s \in Session, Aggregate(s)
  PROVE  StepOK(s)
<1>1. PICK v \in WorkflowRunStatus : read' = [read EXCEPT ![s] = v]
  BY Zenon, AggregateTyped DEF Aggregate
<1>2. /\ UNCHANGED <<tables, pod, lapses>> /\ at[s] = "aggregate"
      /\ at' = [at EXCEPT ![s] = "lockrun"]
      /\ UNCHANGED <<op, row, run, todo, writes, runWrite, holds, shares>>
  BY Zenon DEF Aggregate, Goto
<1>3. op[s] \in {"claim", "apply"}
  BY Zenon, <1>2, CallAt
<1>4. /\ "lockrun" \in Scanning /\ "aggregate" \in Scanning /\ "lockrun" \notin Claimed
      /\ op[s] \in Op /\ "lockrun" \in Place(op[s])
  BY Zenon, <1>3 DEF Op, Place, Scanning, Claimed
<1>5. SessionType'
  BY Zenon, <1>1, <1>2, <1>4, PlaceTyped DEF PgInv, SessionType
<1>6. Apart(s) /\ NewLocksFree(s)
  BY Zenon, <1>1, <1>2 DEF PgInv, SessionType, Apart, NewLocksFree
<1>7. op' = op /\ at'[s] = "lockrun" /\ read'[s] = v
  BY Zenon, <1>1, <1>2 DEF PgInv, SessionType
<1>8. Effect(s) /\ TableType' /\ TableInv'
  BY Zenon, <1>2, NothingWritten
<1>9. WritesOK(s)'
  BY Zenon, <1>2, RecordsSame DEF PgInv, SessionOK, WritesOK
<1>10. CallOK(s)'
  BY Zenon, <1>4, <1>7 DEF PgInv, SessionOK, CallOK
<1>11. ScanOK(s)'
  BY Zenon, <1>2, <1>4, <1>7, RecordsSame DEF PgInv, SessionOK, ScanOK, tables
<1>12. ApplyOK(s)'
  BY Zenon, <1>2, <1>7, RecordsSame DEF PgInv, SessionOK, ApplyOK
<1>13. SessionOK(s)'
  BY Zenon, <1>3, <1>4, <1>7, <1>9, <1>10, <1>11, <1>12
     DEF SessionOK, IdleOK, CreateOK, ClaimedOK, CancelOK, RerequestOK
<1> QED
  BY Zenon, <1>5, <1>6, <1>8, <1>13 DEF StepOK, OwnOK

LEMMA LockRunStep ==
  ASSUME PgInv, NEW s \in Session, LockRun(s)
  PROVE  StepOK(s)
<1> DEFINE place == IF op[s] = "claim" THEN "scan" ELSE "commit"
<1>1. /\ UNCHANGED <<tables, pod, lapses>> /\ at[s] = "lockrun" /\ KeyBlockers(s, run[s]) = {}
      /\ at' = [at EXCEPT ![s] = place]
      /\ runWrite' = [runWrite EXCEPT ![s] = Advanced(s)]
      /\ holds' = [holds EXCEPT ![s] = holds[s] \cup {run[s]}]
      /\ UNCHANGED <<op, row, run, read, todo, writes, shares>>
  BY Zenon DEF LockRun, Goto, PgInv, SessionType
<1>2. op[s] \in {"claim", "apply"}
  BY Zenon, <1>1, CallAt
<1>3. /\ "lockrun" \in Scanning /\ "scan" \in Scanning /\ "scan" \notin Claimed
      /\ op[s] \in Op /\ place \in Place(op[s]) /\ place # "lockrun"
      /\ op[s] = "claim" => place = "scan"
      /\ op[s] = "apply" => place = "commit"
  BY Zenon, <1>2 DEF Op, Place, Scanning, Claimed
<1> HIDE DEF place
<1>4. Known(run[s]) /\ run[s] \in RunID
  <2>1. op[s] = "claim" => Known(run[s])
    BY Zenon, <1>1, <1>3 DEF PgInv, SessionOK, ScanOK
  <2>2. op[s] = "apply" => Known(run[s])
    <3>1. op[s] = "apply" => Live(row[s]) /\ run[s] = RunOfRow(row[s])
      BY Zenon DEF PgInv, SessionOK, ApplyOK
    <3>2. \A i \in Row : Live(i) => Known(RunOfRow(i))
      BY Zenon DEF PgInv, TableInv
    <3> QED
      BY Zenon, <3>1, <3>2 DEF Live
  <2> QED
    BY Zenon, <1>2, <2>1, <2>2 DEF Known
<1>5. read[s] \in WorkflowRunStatus
  BY Zenon, <1>1 DEF PgInv, SessionOK, CallOK
<1>6. /\ Advanced(s) \in Partial(RunID, WorkflowRunStatus)
      /\ DOMAIN Advanced(s) \subseteq DOMAIN runWrite[s] \cup {run[s]}
  <2>1. runWrite[s] \in Partial(RunID, WorkflowRunStatus)
    BY Zenon DEF PgInv, SessionType
  <2>2. Write(runWrite[s], run[s], read[s]) \in Partial(RunID, WorkflowRunStatus)
    BY Zenon, <1>4, <1>5, <2>1, WritePartial
  <2>3. DOMAIN Write(runWrite[s], run[s], read[s]) = DOMAIN runWrite[s] \cup {run[s]}
    BY Zenon DEF Write
  <2>4. Advanced(s) = runWrite[s] \/ Advanced(s) = Write(runWrite[s], run[s], read[s])
    BY Zenon DEF Advanced
  <2> QED
    BY Zenon, <2>1, <2>2, <2>3, <2>4
<1>7. SessionType'
  BY Zenon, <1>1, <1>3, <1>4, <1>6, PlaceTyped DEF PgInv, SessionType
<1>8. /\ op' = op /\ at'[s] = place /\ holds'[s] = holds[s] \cup {run[s]}
      /\ runWrite'[s] = Advanced(s)
  BY Zenon, <1>1 DEF PgInv, SessionType
<1>9. Free(s, run[s])
  BY Zenon, <1>1 DEF KeyBlockers, Blockers, Free
<1>10. Apart(s) /\ NewLocksFree(s)
  BY Zenon, <1>1, <1>8, <1>9 DEF PgInv, SessionType, Apart, NewLocksFree
<1>11. Effect(s) /\ TableType' /\ TableInv'
  BY Zenon, <1>1, NothingWritten
<1>12. WritesOK(s)'
  BY Zenon, <1>1, <1>4, <1>6, <1>8, RecordsSame DEF PgInv, SessionOK, WritesOK
<1>13. CallOK(s)'
  BY Zenon, <1>3, <1>8 DEF PgInv, SessionOK, CallOK
<1>14. ScanOK(s)'
  <2> SUFFICES ASSUME op[s] = "claim" PROVE ScanOK(s)'
    BY Zenon, <1>8 DEF ScanOK
  <2>1. /\ row[s] = 0 /\ todo[s] \subseteq holds[s] /\ holds[s] \subseteq Row \cup RunID
        /\ \A i \in holds[s] \cap Row : status[i] = "queued" /\ claim[i] # "live"
    BY Zenon, <1>1, <1>3 DEF PgInv, SessionOK, ScanOK
  <2>2. run[s] \notin Row
    BY Zenon, <1>4, PgAssumption
  <2> QED
    BY Zenon, <1>1, <1>3, <1>4, <1>8, <2>1, <2>2 DEF ScanOK, tables
<1>15. ApplyOK(s)'
  <2> SUFFICES ASSUME op[s] = "apply" PROVE ApplyOK(s)'
    BY Zenon, <1>8 DEF ApplyOK
  <2>1. Live(row[s]) /\ run[s] = RunOfRow(row[s]) /\ holds[s] \subseteq {row[s]}
    BY Zenon, <1>1 DEF PgInv, SessionOK, ApplyOK
  <2> QED
    BY Zenon, <1>1, <1>3, <1>8, <2>1, RecordsSame DEF ApplyOK
<1>16. SessionOK(s)'
  BY Zenon, <1>2, <1>3, <1>8, <1>12, <1>13, <1>14, <1>15
     DEF SessionOK, IdleOK, CreateOK, ClaimedOK, CancelOK, RerequestOK
<1> QED
  BY Zenon, <1>7, <1>10, <1>11, <1>16 DEF StepOK, OwnOK

LEMMA ScanHolds ==
  ASSUME PgInv, NEW s \in Session, at[s] = "scan"
  PROVE  /\ op[s] = "claim" /\ "scan" \in Scanning /\ row[s] = 0
         /\ todo[s] \subseteq holds[s] \cap Row /\ holds[s] \subseteq Row \cup RunID
         /\ \A i \in holds[s] \cap Row : status[i] = "queued" /\ claim[i] # "live" /\ Live(i)
         /\ \A i \in DOMAIN writes[s] : Live(i)
<1>1. op[s] = "claim" /\ "scan" \in Scanning
  BY Zenon, CallAt DEF Scanning
<1>2. /\ row[s] = 0 /\ todo[s] \subseteq holds[s] /\ holds[s] \subseteq Row \cup RunID
      /\ \A i \in holds[s] \cap Row : status[i] = "queued" /\ claim[i] # "live"
  BY Zenon, <1>1 DEF PgInv, SessionOK, ScanOK
<1>3. todo[s] \subseteq Row /\ DOMAIN writes[s] \subseteq holds[s] \cap Row
  BY PartialParts DEF PgInv, SessionType, SessionOK, WritesOK
<1> QED
  BY Zenon, <1>1, <1>2, <1>3 DEF Live

LEMMA LeaveBlockedStep ==
  ASSUME PgInv, NEW s \in Session, NEW i \in todo[s], at[s] = "scan", LeaveBlocked(s, i),
         UNCHANGED <<pod, lapses>>
  PROVE  StepOK(s)
<1>1. /\ todo' = [todo EXCEPT ![s] = todo[s] \ {i}]
      /\ UNCHANGED <<tables, pod, lapses>>
      /\ UNCHANGED <<op, at, row, run, read, writes, runWrite, holds, shares>>
  BY Zenon DEF LeaveBlocked, PgInv, SessionType
<1>2. SessionType' /\ todo'[s] = todo[s] \ {i}
  BY Zenon, <1>1 DEF PgInv, SessionType
<1>3. Apart(s) /\ NewLocksFree(s)
  BY Zenon, <1>1 DEF PgInv, SessionType, Apart, NewLocksFree
<1>4. Effect(s) /\ TableType' /\ TableInv'
  BY Zenon, <1>1, NothingWritten
<1>5. WritesOK(s)' /\ CallOK(s)'
  BY Zenon, <1>1, RecordsSame DEF PgInv, SessionOK, WritesOK, CallOK
<1>6. ScanOK(s)'
  BY Zenon, <1>1, <1>2, ScanHolds DEF ScanOK, tables
<1>7. SessionOK(s)'
  <2>1. op'[s] = "claim" /\ at'[s] = "scan" /\ "scan" \notin Claimed
    BY Zenon, <1>1, ScanHolds DEF Claimed
  <2> QED
    BY Zenon, <1>5, <1>6, <2>1
       DEF SessionOK, IdleOK, CreateOK, ClaimedOK, ApplyOK, CancelOK, RerequestOK
<1> QED
  BY Zenon, <1>2, <1>3, <1>4, <1>7 DEF StepOK, OwnOK

LEMMA SkipFailedStep ==
  ASSUME PgInv, NEW s \in Session, NEW i \in todo[s], at[s] = "scan", SkipFailed(s, i),
         UNCHANGED <<pod, lapses>>
  PROVE  StepOK(s)
<1>1. /\ todo' = [todo EXCEPT ![s] = todo[s] \ {i}]
      /\ writes' = [writes EXCEPT ![s] = Write(writes[s], i, "skipped")]
      /\ run' = [run EXCEPT ![s] = RunOfRow(i)] /\ at' = [at EXCEPT ![s] = "aggregate"]
      /\ UNCHANGED <<tables, pod, lapses>>
      /\ UNCHANGED <<op, row, read, runWrite, holds, shares>>
  BY Zenon DEF SkipFailed, Goto, RunOfRow, PgInv, SessionType
<1>2. op[s] = "claim" /\ row[s] = 0 /\ i \in Row /\ i \in holds[s] /\ Live(i)
  BY Zenon, ScanHolds
<1>3. Known(RunOfRow(i)) /\ RunOfRow(i) \in RunID
  BY Zenon, <1>2 DEF PgInv, TableInv, Known
<1>4. /\ Write(writes[s], i, "skipped") \in Partial(Row, JobRunStatus \ {"queued"})
      /\ DOMAIN Write(writes[s], i, "skipped") = DOMAIN writes[s] \cup {i}
  <2>1. writes[s] \in Partial(Row, JobRunStatus \ {"queued"})
    BY Zenon DEF PgInv, SessionType
  <2>2. "skipped" \in JobRunStatus \ {"queued"}
    BY Zenon DEF JobRunStatus
  <2>3. Write(writes[s], i, "skipped") \in Partial(Row, JobRunStatus \ {"queued"})
    BY Zenon, <1>2, <2>1, <2>2, WritePartial
  <2> QED
    BY Zenon, <2>3 DEF Write
<1>5. /\ "aggregate" \in Place("claim") /\ "claim" \in Op
      /\ "aggregate" \in Scanning /\ "aggregate" \notin Claimed
  BY Zenon DEF Place, Op, Scanning, Claimed
<1>6. SessionType'
  BY Zenon, <1>1, <1>3, <1>4, <1>5, PlaceTyped DEF PgInv, SessionType
<1>7. /\ op'[s] = "claim" /\ at'[s] = "aggregate" /\ run'[s] = RunOfRow(i)
      /\ todo'[s] = todo[s] \ {i} /\ writes'[s] = Write(writes[s], i, "skipped")
  BY Zenon, <1>1, <1>2 DEF PgInv, SessionType
<1>8. Apart(s) /\ NewLocksFree(s)
  BY Zenon, <1>1 DEF PgInv, SessionType, Apart, NewLocksFree
<1>9. Effect(s) /\ TableType' /\ TableInv'
  BY Zenon, <1>1, NothingWritten
<1>10. WritesOK(s)'
  BY Zenon, <1>1, <1>2, <1>4, <1>7, RecordsSame DEF PgInv, SessionOK, WritesOK
<1>11. CallOK(s)'
  BY Zenon, <1>1, <1>2, <1>5, <1>7 DEF PgInv, SessionOK, CallOK
<1>12. ScanOK(s)'
  BY Zenon, <1>1, <1>3, <1>7, ScanHolds, RecordsSame DEF ScanOK, tables
<1>13. SessionOK(s)'
  BY Zenon, <1>5, <1>7, <1>10, <1>11, <1>12
     DEF SessionOK, IdleOK, CreateOK, ClaimedOK, ApplyOK, CancelOK, RerequestOK
<1> QED
  BY Zenon, <1>6, <1>8, <1>9, <1>13 DEF StepOK, OwnOK

LEMMA ClaimJobStep ==
  ASSUME PgInv, NEW s \in Session, NEW i \in todo[s], at[s] = "scan", ClaimJob(s, i),
         UNCHANGED <<pod, lapses>>
  PROVE  StepOK(s)
<1>1. /\ Publish(s) /\ claim' = [claim EXCEPT ![i] = "live"]
      /\ at' = [at EXCEPT ![s] = "claimed"] /\ row' = [row EXCEPT ![s] = i]
      /\ todo' = [todo EXCEPT ![s] = {}] /\ holds' = [holds EXCEPT ![s] = {}]
      /\ writes' = [writes EXCEPT ![s] = Empty] /\ runWrite' = [runWrite EXCEPT ![s] = Empty]
      /\ UNCHANGED <<key, attempt, nextRow, pod, lapses>>
      /\ UNCHANGED <<op, run, read, shares>>
  BY Zenon DEF ClaimJob, Goto
<1>2. /\ op[s] = "claim" /\ i \in Row /\ i \in holds[s] /\ Live(i)
      /\ \A x \in DOMAIN writes[s] : Live(x)
  BY Zenon, ScanHolds
<1>3. /\ claim' \in [Row -> {"none", "live", "lapsed"}]
      /\ \A x \in Row : claim'[x] = "live" => claim[x] = "live" \/ x \in holds[s]
  BY Zenon, <1>1, <1>2 DEF PgInv, TableType
<1>4. Effect(s) /\ TableType' /\ TableInv'
  BY Zenon, <1>1, <1>2, <1>3, Publishes
<1>5. /\ "claimed" \in Place("claim") /\ "claim" \in Op
      /\ "claimed" \in Claimed /\ "claimed" \notin Scanning
  BY Zenon DEF Place, Op, Claimed, Scanning
<1>6. /\ Empty \in Partial(Row, JobRunStatus \ {"queued"})
      /\ Empty \in Partial(RunID, WorkflowRunStatus) /\ DOMAIN Empty = {}
  BY Zenon, EmptyPartial
<1>7. SessionType'
  BY Zenon, <1>1, <1>2, <1>5, <1>6, PlaceTyped DEF PgInv, SessionType
<1>8. /\ op'[s] = "claim" /\ at'[s] = "claimed" /\ row'[s] = i /\ holds'[s] = {}
      /\ writes'[s] = Empty /\ runWrite'[s] = Empty
  BY Zenon, <1>1, <1>2 DEF PgInv, SessionType
<1>9. Apart(s) /\ NewLocksFree(s)
  BY Zenon, <1>1, <1>8 DEF PgInv, SessionType, Apart, NewLocksFree
<1>10. WritesOK(s)'
  BY Zenon, <1>6, <1>8 DEF WritesOK
<1>11. CallOK(s)'
  BY Zenon, <1>1, <1>2, <1>5, <1>8 DEF PgInv, SessionOK, CallOK
<1>12. ClaimedOK(s)'
  BY Zenon, <1>2, <1>4, <1>8 DEF ClaimedOK, Effect, RecordsStay, Live
<1>13. SessionOK(s)'
  BY Zenon, <1>5, <1>8, <1>10, <1>11, <1>12
     DEF SessionOK, IdleOK, CreateOK, ScanOK, ApplyOK, CancelOK, RerequestOK
<1> QED
  BY Zenon, <1>4, <1>7, <1>9, <1>13 DEF StepOK, OwnOK

LEMMA ClaimEmptyStep ==
  ASSUME PgInv, NEW s \in Session, ClaimEmpty(s)
  PROVE  StepOK(s)
<1>1. /\ at[s] = "scan" /\ Publish(s) /\ End(s, "idle")
      /\ UNCHANGED <<key, attempt, nextRow, pod, lapses>> /\ claim' = claim
  BY Zenon DEF ClaimEmpty
<1>2. \A x \in DOMAIN writes[s] : Live(x)
  BY Zenon, <1>1, ScanHolds
<1>3. Effect(s) /\ TableType' /\ TableInv'
  BY Zenon, <1>1, <1>2, Publishes DEF PgInv, TableType
<1> QED
  BY Zenon, <1>1, <1>3, Ends DEF StepOK, OwnOK

LEMMA AckWriteStep ==
  ASSUME PgInv, NEW s \in Session, AckWrite(s)
  PROVE  StepOK(s)
<1>1. /\ at[s] = "ackwrite" /\ Blockers(s, row[s]) = {} /\ End(s, "idle")
      /\ status' = [status EXCEPT ![row[s]] = "dispatched"]
      /\ claim' = [claim EXCEPT ![row[s]] = "none"]
      /\ UNCHANGED <<key, attempt, runStatus, nextRow, pod, lapses>>
  BY Zenon DEF AckWrite
<1>2. Live(row[s]) /\ Free(s, row[s])
  BY Zenon, <1>1, CallAt DEF PgInv, SessionOK, ClaimedOK, Claimed, Blockers, Free
<1>3. TableType'
  BY Zenon, <1>1, <1>2 DEF PgInv, TableType, JobRunStatus
<1>4. (\A i \in Row : Live(i)' <=> Live(i)) /\ \A r : Known(r)' <=> Known(r)
  BY Zenon, <1>1, <1>2 DEF PgInv, TableType, Live, Known
<1>5. TableInv'
  BY Zenon, <1>1, <1>4 DEF PgInv, TableInv, RunOfRow
<1>6. Effect(s)
  BY Zenon, <1>1, <1>2 DEF PgInv, TableType, Effect, RecordsStay, HeldStayQueued, RunsAppear,
                    RowsAppear, Live, Known
<1> QED
  BY Zenon, <1>1, <1>3, <1>5, <1>6, Ends DEF StepOK, OwnOK

LEMMA ReleaseClaimStep ==
  ASSUME PgInv, NEW s \in Session, ReleaseClaim(s)
  PROVE  StepOK(s)
<1>1. /\ claim' = [claim EXCEPT ![row[s]] = "none"] /\ End(s, "idle")
      /\ UNCHANGED <<status, key, attempt, runStatus, nextRow, pod, lapses>>
  BY Zenon DEF ReleaseClaim
<1>2. TableType'
  BY Zenon, <1>1 DEF PgInv, TableType
<1>3. TableInv'
  BY Zenon, <1>1 DEF PgInv, TableInv, Live, Known, RunOfRow
<1>4. Effect(s)
  BY Zenon, <1>1 DEF PgInv, TableType, Effect, RecordsStay, HeldStayQueued, RunsAppear,
              RowsAppear, Live, Known
<1> QED
  BY Zenon, <1>1, <1>2, <1>3, <1>4, Ends DEF StepOK, OwnOK

LEMMA ApplyWriteStep ==
  ASSUME PgInv, NEW s \in Session, ApplyWrite(s)
  PROVE  StepOK(s)
<1>1. /\ at[s] = "update" /\ Blockers(s, row[s]) = {}
      /\ writes' = [writes EXCEPT ![s] = Write(writes[s], row[s], read[s])]
      /\ holds' = [holds EXCEPT ![s] = {row[s]}] /\ at' = [at EXCEPT ![s] = "aggregate"]
      /\ UNCHANGED <<tables, pod, lapses>>
      /\ UNCHANGED <<op, row, run, read, todo, runWrite, shares>>
  BY Zenon DEF ApplyWrite, Goto, PgInv, SessionType
<1>2. op[s] = "apply"
  BY Zenon, <1>1, CallAt
<1>3. /\ Live(row[s]) /\ run[s] = RunOfRow(row[s]) /\ holds[s] = {} /\ read[s] \in Phase
      /\ row[s] \in Row
  BY Zenon, <1>1, <1>2 DEF PgInv, SessionOK, ApplyOK, Live
<1>4. Free(s, row[s])
  BY Zenon, <1>1 DEF Blockers, Free
<1>5. /\ Write(writes[s], row[s], read[s]) \in Partial(Row, JobRunStatus \ {"queued"})
      /\ DOMAIN Write(writes[s], row[s], read[s]) = DOMAIN writes[s] \cup {row[s]}
  <2>1. writes[s] \in Partial(Row, JobRunStatus \ {"queued"})
    BY Zenon DEF PgInv, SessionType
  <2>2. read[s] \in JobRunStatus \ {"queued"}
    BY Zenon, <1>3 DEF JobRunStatus, Phase
  <2>3. Write(writes[s], row[s], read[s]) \in Partial(Row, JobRunStatus \ {"queued"})
    BY Zenon, <1>3, <2>1, <2>2, WritePartial
  <2> QED
    BY Zenon, <2>3 DEF Write
<1>6. "aggregate" \in Place("apply") /\ "apply" \in Op
  BY Zenon DEF Place, Op
<1>7. SessionType'
  BY Zenon, <1>1, <1>3, <1>5, <1>6, PlaceTyped DEF PgInv, SessionType
<1>8. /\ op'[s] = "apply" /\ at'[s] = "aggregate" /\ holds'[s] = {row[s]}
      /\ writes'[s] = Write(writes[s], row[s], read[s])
  BY Zenon, <1>1, <1>2 DEF PgInv, SessionType
<1>9. Apart(s) /\ NewLocksFree(s)
  BY Zenon, <1>1, <1>4, <1>8 DEF PgInv, SessionType, Apart, NewLocksFree
<1>10. Effect(s) /\ TableType' /\ TableInv'
  BY Zenon, <1>1, NothingWritten
<1>11. WritesOK(s)'
  BY Zenon, <1>1, <1>3, <1>5, <1>8, RecordsSame DEF PgInv, SessionOK, WritesOK
<1>12. CallOK(s)'
  BY Zenon, <1>2, <1>6, <1>8 DEF PgInv, SessionOK, CallOK
<1>13. ApplyOK(s)'
  BY Zenon, <1>1, <1>3, <1>8, RecordsSame DEF ApplyOK
<1>14. SessionOK(s)'
  BY Zenon, <1>8, <1>11, <1>12, <1>13
     DEF SessionOK, IdleOK, CreateOK, ScanOK, ClaimedOK, CancelOK, RerequestOK
<1> QED
  BY Zenon, <1>7, <1>9, <1>10, <1>14 DEF StepOK, OwnOK

LEMMA ApplyCommitStep ==
  ASSUME PgInv, NEW s \in Session, ApplyCommit(s)
  PROVE  StepOK(s)
<1>1. /\ op[s] = "apply" /\ at[s] = "commit" /\ Publish(s) /\ End(s, "idle")
      /\ UNCHANGED <<key, attempt, nextRow, pod, lapses>> /\ claim' = claim
  BY Zenon DEF ApplyCommit
<1>2. /\ Live(row[s]) /\ run[s] = RunOfRow(row[s]) /\ holds[s] \subseteq {row[s], run[s]}
  BY Zenon, <1>1 DEF PgInv, SessionOK, ApplyOK
<1>3. run[s] \notin Row
  BY Zenon, <1>2, PgAssumption DEF PgInv, TableInv, Live, Known
<1>4. DOMAIN writes[s] \subseteq Row \cap holds[s]
  BY Zenon, PartialParts DEF PgInv, SessionType, SessionOK, WritesOK
<1>5. \A x \in DOMAIN writes[s] : Live(x)
  BY Zenon, <1>2, <1>3, <1>4
<1>6. Effect(s) /\ TableType' /\ TableInv'
  BY Zenon, <1>1, <1>5, Publishes DEF PgInv, TableType
<1> QED
  BY Zenon, <1>1, <1>6, Ends DEF StepOK, OwnOK

LEMMA CancelLockStep ==
  ASSUME PgInv, NEW s \in Session, CancelLock(s)
  PROVE  StepOK(s)
<1> DEFINE rest == todo[s] \ {row[s]}
<1>1. /\ at[s] = "lockrows" /\ todo[s] # {} /\ Blockers(s, row[s]) = {}
      /\ holds' = [holds EXCEPT ![s] = holds[s] \cup {row[s]}]
      /\ todo' = [todo EXCEPT ![s] = rest]
      /\ UNCHANGED <<tables, pod, lapses>>
      /\ UNCHANGED <<op, at, run, read, writes, runWrite, shares>>
  BY Zenon DEF CancelLock, PgInv, SessionType
<1>2. PICK i \in IF rest = {} THEN {0} ELSE rest : row' = [row EXCEPT ![s] = i]
  BY Zenon DEF CancelLock
<1>3. op[s] = "cancel" /\ row[s] \in todo[s] /\ todo[s] \subseteq Row
  BY Zenon, <1>1, CallAt DEF PgInv, SessionType, SessionOK, CancelOK
<1>4. Free(s, row[s])
  BY Zenon, <1>1 DEF Blockers, Free
<1>5. i \in Row \cup {0} /\ (rest # {} => i \in rest)
  BY Zenon, <1>2, <1>3
<1>6. SessionType'
  BY Zenon, <1>1, <1>2, <1>3, <1>5 DEF PgInv, SessionType
<1>7. /\ op'[s] = "cancel" /\ holds'[s] = holds[s] \cup {row[s]} /\ todo'[s] = rest
      /\ row'[s] = i /\ run'[s] = run[s]
  BY Zenon, <1>1, <1>2, <1>3 DEF PgInv, SessionType
<1>8. Apart(s) /\ NewLocksFree(s)
  BY Zenon, <1>1, <1>2, <1>4, <1>7 DEF PgInv, SessionType, Apart, NewLocksFree
<1>9. Effect(s) /\ TableType' /\ TableInv'
  BY Zenon, <1>1, NothingWritten
<1>10. WritesOK(s)' /\ CallOK(s)'
  BY Zenon, <1>1, <1>7, RecordsSame DEF PgInv, SessionOK, WritesOK, CallOK
<1>11. CancelOK(s)'
  <2>1. /\ Known(run[s]) /\ holds[s] \subseteq Row
        /\ \A x \in holds[s] \cup todo[s] : Live(x) /\ RunOfRow(x) = run[s]
    BY Zenon, <1>3 DEF PgInv, SessionOK, CancelOK
  <2>2. \A x \in holds'[s] \cup todo'[s] : Live(x)' /\ RunOfRow(x)' = run[s]
    BY Zenon, <1>1, <1>3, <1>7, <2>1, RecordsSame
  <2> QED
    BY Zenon, <1>1, <1>3, <1>5, <1>7, <2>1, <2>2, RecordsSame DEF CancelOK
<1>12. SessionOK(s)'
  BY Zenon, <1>7, <1>10, <1>11
     DEF SessionOK, IdleOK, CreateOK, ScanOK, ClaimedOK, ApplyOK, RerequestOK
<1> QED
  BY Zenon, <1>6, <1>8, <1>9, <1>12 DEF StepOK, OwnOK

LEMMA CancelWriteStep ==
  ASSUME PgInv, NEW s \in Session, CancelWrite(s)
  PROVE  StepOK(s)
<1>1. /\ at[s] = "lockrows" /\ End(s, "idle")
      /\ status' = [i \in Row |-> IF i \in holds[s] THEN TransitionJob(status[i], "cancelled")
                                  ELSE status[i]]
      /\ claim' = [i \in Row |-> IF i \in holds[s] /\ status[i] \notin JobTerminal THEN "none"
                                 ELSE claim[i]]
      /\ runStatus' = [runStatus EXCEPT ![run[s]] = "cancelled"]
      /\ UNCHANGED <<key, attempt, nextRow, pod, lapses>>
  BY Zenon DEF CancelWrite
<1>2. Known(run[s]) /\ \A i \in holds[s] : Live(i)
  BY Zenon, <1>1, CallAt DEF PgInv, SessionOK, CancelOK
<1>3. \A i \in Row : /\ status'[i] \in JobRunStatus \cup {"absent"}
                     /\ Live(i)' <=> Live(i)
                     /\ i \notin holds[s] => status'[i] = status[i] /\ claim'[i] = claim[i]
  BY Zenon, <1>1, <1>2 DEF PgInv, TableType, Live, TransitionJob, JobRunStatus
<1>4. \A r : Known(r)' <=> Known(r)
  BY Zenon, <1>1, <1>2 DEF PgInv, TableType, Known
<1>5. TableType'
  BY Zenon, <1>1, <1>3 DEF PgInv, TableType, WorkflowRunStatus
<1>6. TableInv'
  BY Zenon, <1>1, <1>3, <1>4 DEF PgInv, TableInv, RunOfRow
<1>7. RecordsStay /\ RunsAppear(s) /\ RowsAppear(s)
  BY Zenon, <1>1, <1>3, <1>4 DEF RecordsStay, RunsAppear, RowsAppear, Live, Known
<1>8. HeldStayQueued(s)
  BY Zenon, <1>3 DEF HeldStayQueued, PgInv, LockInv
<1> QED
  BY Zenon, <1>1, <1>5, <1>6, <1>7, <1>8, Ends DEF StepOK, OwnOK, Effect

LEMMA RerequestInsertStep ==
  ASSUME PgInv, NEW s \in Session, RerequestInsert(s)
  PROVE  StepOK(s)
<1>1. /\ at[s] = "insertrow" /\ at' = [at EXCEPT ![s] = "reopen"]
      /\ shares' = [shares EXCEPT ![s] = {run[s]}] /\ UNCHANGED <<tables, pod, lapses>>
      /\ UNCHANGED <<op, row, run, read, todo, writes, runWrite, holds>>
  BY Zenon DEF RerequestInsert, Goto
<1>2. op[s] = "rerequest"
  BY Zenon, <1>1, CallAt
<1>3. run[s] \in RunID
  BY Zenon, <1>2 DEF PgInv, SessionOK, RerequestOK, TableInv, Live, Known
<1>4. "rerequest" \in Op /\ "reopen" \in Place("rerequest")
  BY Zenon DEF Op, Place
<1>5. SessionType'
  BY Zenon, <1>1, <1>3, <1>4, PlaceTyped DEF PgInv, SessionType
<1>6. Apart(s) /\ NewLocksFree(s)
  BY Zenon, <1>1 DEF PgInv, SessionType, Apart, NewLocksFree
<1>7. op'[s] = "rerequest" /\ at'[s] = "reopen"
  BY Zenon, <1>1, <1>2 DEF PgInv, SessionType
<1>8. Effect(s) /\ TableType' /\ TableInv'
  BY Zenon, <1>1, NothingWritten
<1>9. WritesOK(s)'
  BY Zenon, <1>1, RecordsSame DEF PgInv, SessionOK, WritesOK
<1>10. CallOK(s)'
  BY Zenon, <1>2, <1>4, <1>7 DEF PgInv, SessionOK, CallOK
<1>11. RerequestOK(s)'
  BY Zenon, <1>1, RecordsSame DEF PgInv, SessionOK, RerequestOK
<1>12. SessionOK(s)'
  BY Zenon, <1>7, <1>9, <1>10, <1>11
     DEF SessionOK, IdleOK, CreateOK, ScanOK, ClaimedOK, ApplyOK, CancelOK
<1> QED
  BY Zenon, <1>5, <1>6, <1>8, <1>12 DEF StepOK, OwnOK

LEMMA RerequestCommitStep ==
  ASSUME PgInv, NEW s \in Session, RerequestCommit(s)
  PROVE  StepOK(s)
<1> DEFINE new == nextRow + 1
<1>1. /\ at[s] = "reopen" /\ End(s, "idle")
      /\ status' = [status EXCEPT ![new] = "queued"]
      /\ key' = [key EXCEPT ![new] = key[row[s]]]
      /\ attempt' = [attempt EXCEPT ![new] = attempt[row[s]] + 1]
      /\ nextRow' = new /\ UNCHANGED <<claim, pod, lapses>>
      /\ runStatus' = [runStatus EXCEPT ![run[s]] =
                         IF runStatus[run[s]] \in RunTerminal THEN "queued" ELSE runStatus[run[s]]]
  BY Zenon DEF RerequestCommit, PgInv, TableType
<1>2. /\ Live(row[s]) /\ Known(run[s]) /\ run[s] = RunOf[key[row[s]]]
      /\ row[s] \in Row /\ key[row[s]] \in JobKey
  BY Zenon, <1>1, CallAt DEF PgInv, SessionOK, RerequestOK, TableInv, RunOfRow, Live
<1>3. nextRow \in Nat /\ new \in Nat /\ \A i \in Row : Live(i) => i <= nextRow /\ i # new
  BY DEF PgInv, TableType, TableInv, Row
<1>4. TableType'
  <2>1. PICK a \in Nat : a = attempt[row[s]] + 1
    <3>1. attempt[row[s]] \in Nat
      BY Zenon, <1>2 DEF PgInv, TableType
    <3> QED
      BY <3>1
  <2>2. PICK v \in WorkflowRunStatus :
          v = IF runStatus[run[s]] \in RunTerminal THEN "queued" ELSE runStatus[run[s]]
    BY Zenon, <1>2 DEF PgInv, TableType, Known, WorkflowRunStatus
  <2>3. runStatus' \in [RunID -> WorkflowRunStatus \cup {"absent"}]
    BY Zenon, <1>1, <2>2 DEF PgInv, TableType
  <2>4. attempt' \in [Row -> Nat]
    BY Zenon, <1>1, <2>1 DEF PgInv, TableType
  <2>5. "queued" \in JobRunStatus
    BY Zenon DEF JobRunStatus
  <2>6. status' \in [Row -> JobRunStatus \cup {"absent"}] /\ key' \in [Row -> JobKey \cup {NoKey}]
    BY Zenon, <1>1, <1>2, <2>5 DEF PgInv, TableType
  <2> QED
    BY Zenon, <1>1, <1>3, <2>3, <2>4, <2>6 DEF PgInv, TableType
<1>5. \A r : Known(r)' <=> Known(r)
  BY Zenon, <1>1, <1>2 DEF PgInv, TableType, Known, RunTerminal
<1>6. \A i \in Row : /\ i # new => status'[i] = status[i] /\ key'[i] = key[i] /\ attempt'[i] = attempt[i]
                     /\ i = new => /\ status'[i] = "queued" /\ key'[i] = key[row[s]]
                                   /\ attempt'[i] = attempt[row[s]] + 1
  BY Zenon, <1>1 DEF PgInv, TableType
<1> HIDE DEF new
<1>7. TableInv'
  <2>1. ASSUME NEW i \in Row, Live(i)'
        PROVE  i <= nextRow' /\ key'[i] \in JobKey /\ attempt'[i] >= 1 /\ Known(RunOfRow(i))'
    <3>1. CASE i = new
      <4>1. i <= nextRow' /\ attempt'[i] >= 1
        <5>1. attempt[row[s]] \in Nat /\ attempt'[i] = attempt[row[s]] + 1
          BY Zenon, <1>2, <1>6, <3>1 DEF PgInv, TableType
        <5>2. attempt'[i] >= 1
          BY <5>1
        <5> QED
          BY <1>1, <1>3, <3>1, <5>2
      <4>2. key'[i] \in JobKey /\ Known(RunOfRow(i))'
        BY Zenon, <1>2, <1>5, <1>6, <3>1 DEF RunOfRow
      <4> QED
        BY Zenon, <4>1, <4>2
    <3>2. CASE i # new
      <4>1. Live(i) /\ key'[i] = key[i] /\ attempt'[i] = attempt[i]
        BY Zenon, <1>6, <2>1, <3>2 DEF Live
      <4>2. i <= nextRow /\ nextRow' = nextRow + 1
        BY Zenon, <1>1, <1>3, <4>1 DEF new
      <4>3. i <= nextRow'
        BY <1>3, <4>2 DEF Row
      <4>4. RunOfRow(i)' = RunOfRow(i)
        BY Zenon, <4>1 DEF RunOfRow
      <4> QED
        BY Zenon, <1>5, <4>1, <4>3, <4>4 DEF PgInv, TableInv
    <3> QED
      BY Zenon, <3>1, <3>2
  <2>2. \A i \in Row : pod'[i] # "none" => Live(i)'
    BY Zenon, <1>1, <1>6 DEF PgInv, TableInv, Live
  <2> QED
    BY Zenon, <2>1, <2>2 DEF TableInv
<1>8. RecordsStay /\ RunsAppear(s)
  BY Zenon, <1>3, <1>5, <1>6 DEF RecordsStay, RunsAppear, Live, Known
<1>9. HeldStayQueued(s)
  BY Zenon, <1>1, <1>6 DEF HeldStayQueued
<1>10. RowsAppear(s)
  <2> SUFFICES ASSUME NEW i \in Row, ~Live(i), status'[i] # "absent"
               PROVE  i > nextRow /\ attempt'[i] > 1 /\ attempt'[i] \in Nat
    BY DEF RowsAppear
  <2>1. i = new /\ attempt'[i] = attempt[row[s]] + 1
    BY Zenon, <1>6 DEF Live
  <2>2. attempt[row[s]] \in Nat /\ attempt[row[s]] >= 1
    BY Zenon, <1>2 DEF PgInv, TableType, TableInv
  <2>3. i > nextRow
    BY <1>3, <2>1 DEF new
  <2> QED
    BY <2>1, <2>2, <2>3
<1> QED
  BY Zenon, <1>1, <1>4, <1>7, <1>8, <1>9, <1>10, Ends DEF StepOK, OwnOK, Effect

LEMMA CommitRunStep ==
  ASSUME PgInv, NEW s \in Session, CommitRun(s)
  PROVE  StepOK(s)
<1> DEFINE keys == {k \in JobKey : RunOf[k] = run[s]}
           rowOf(k) == nextRow + Position[k]
           new == {rowOf(k) : k \in keys}
           N == Cardinality(keys)
<1>1. /\ at[s] = "commit" /\ op[s] = "create" /\ End(s, "idle")
      /\ runStatus' = [runStatus EXCEPT ![run[s]] = "queued"]
      /\ status' = [i \in Row |-> IF i \in new THEN "queued" ELSE status[i]]
      /\ key' = [i \in Row |-> IF i \in new THEN CHOOSE k \in keys : rowOf(k) = i ELSE key[i]]
      /\ attempt' = [i \in Row |-> IF i \in new THEN 1 ELSE attempt[i]]
      /\ nextRow' = nextRow + N /\ UNCHANGED <<claim, pod, lapses>>
  BY Zenon DEF CommitRun
<1>2. run[s] \in RunID /\ nextRow \in Nat
  BY Zenon, <1>1 DEF PgInv, SessionOK, CreateOK, TableType
<1>3. N \in Nat
  BY Zenon, <1>2, PgAssumption
<1>4. ASSUME NEW k \in keys PROVE Position[k] \in 1 .. N
  <2>1. k \in JobKey /\ {l \in JobKey : RunOf[l] = RunOf[k]} = keys
    BY Zenon
  <2> HIDE DEF keys
  <2> QED
    BY Zenon, <2>1, PgAssumption
<1>5. \A i \in new : \E k \in keys : rowOf(k) = i
  BY Zenon
<1>6. \A k \in keys : k \in JobKey /\ RunOf[k] = run[s]
  BY Zenon
<1> HIDE DEF keys, N
<1>7. \A i \in new : i > nextRow /\ i <= nextRow + N
  BY <1>2, <1>3, <1>4, <1>5
<1>8. \A i \in new : i \in Row => key'[i] \in keys
  BY Zenon, <1>1, <1>5
<1> HIDE DEF rowOf, new
<1>9. \A i \in Row : Live(i) => i \notin new
  BY <1>2, <1>7 DEF PgInv, TableInv, Row
<1>10. \A i \in Row : /\ i \in new => status'[i] = "queued" /\ attempt'[i] = 1
                      /\ i \notin new => /\ status'[i] = status[i] /\ key'[i] = key[i]
                                         /\ attempt'[i] = attempt[i]
  BY Zenon, <1>1
<1>11. \A r : Known(r)' <=> Known(r) \/ r = run[s]
  BY Zenon, <1>1, <1>2 DEF PgInv, TableType, Known
<1>12. TableType'
  <2>1. nextRow' \in Nat
    BY <1>1, <1>3, <1>2
  <2>2. status' \in [Row -> JobRunStatus \cup {"absent"}]
    BY Zenon, <1>1 DEF PgInv, TableType, JobRunStatus
  <2>3. key' \in [Row -> JobKey \cup {NoKey}]
    <3>1. \A i \in Row : key'[i] \in JobKey \cup {NoKey}
      BY Zenon, <1>6, <1>8, <1>10 DEF PgInv, TableType
    <3>2. key' = [i \in Row |-> key'[i]]
      BY <1>1
    <3> QED
      BY Zenon, <3>1, <3>2
  <2>4. attempt' \in [Row -> Nat]
    BY Zenon, <1>1 DEF PgInv, TableType
  <2>5. runStatus' \in [RunID -> WorkflowRunStatus \cup {"absent"}]
    BY Zenon, <1>1 DEF PgInv, TableType, WorkflowRunStatus
  <2> QED
    BY Zenon, <1>1, <2>1, <2>2, <2>3, <2>4, <2>5 DEF PgInv, TableType
<1>13. TableInv'
  <2>1. ASSUME NEW i \in Row, Live(i)'
        PROVE  i <= nextRow' /\ key'[i] \in JobKey /\ attempt'[i] >= 1 /\ Known(RunOfRow(i))'
    <3>1. CASE i \in new
      <4>1. i <= nextRow' /\ attempt'[i] >= 1
        <5>1. i <= nextRow + N /\ nextRow' = nextRow + N /\ attempt'[i] = 1
          BY Zenon, <1>1, <1>7, <1>10, <3>1
        <5> QED
          BY <5>1
      <4>2. key'[i] \in JobKey /\ RunOf[key'[i]] = run[s]
        BY Zenon, <1>6, <1>8, <3>1
      <4>3. Known(RunOfRow(i))'
        BY Zenon, <1>11, <4>2 DEF RunOfRow
      <4> QED
        BY Zenon, <4>1, <4>2, <4>3
    <3>2. CASE i \notin new
      <4>1. Live(i) /\ key'[i] = key[i] /\ attempt'[i] = attempt[i]
        BY Zenon, <1>10, <2>1, <3>2 DEF Live
      <4>2. i <= nextRow /\ nextRow' = nextRow + N
        BY Zenon, <1>1, <4>1 DEF PgInv, TableInv
      <4>3. i <= nextRow'
        BY <1>3, <1>2, <4>2 DEF Row
      <4>4. RunOfRow(i)' = RunOfRow(i)
        BY Zenon, <4>1 DEF RunOfRow
      <4> QED
        BY Zenon, <1>11, <4>1, <4>3, <4>4 DEF PgInv, TableInv
    <3> QED
      BY Zenon, <3>1, <3>2
  <2>2. \A i \in Row : pod'[i] # "none" => Live(i)'
    BY Zenon, <1>1, <1>10 DEF PgInv, TableInv, Live
  <2> QED
    BY Zenon, <2>1, <2>2 DEF TableInv
<1>14. RecordsStay /\ RunsAppear(s)
  BY Zenon, <1>1, <1>9, <1>10, <1>11 DEF RecordsStay, RunsAppear, Live, Known
<1>15. HeldStayQueued(s)
  BY Zenon, <1>1, <1>10 DEF HeldStayQueued
<1>16. RowsAppear(s)
  BY Zenon, <1>1, <1>6, <1>7, <1>8, <1>10 DEF RowsAppear, Live
<1> QED
  BY Zenon, <1>1, <1>12, <1>13, <1>14, <1>15, <1>16, Ends DEF StepOK, OwnOK, Effect

LEMMA CrashStep ==
  ASSUME PgInv, NEW s \in Session, Crash(s)
  PROVE  StepOK(s)
BY Zenon, NothingWritten, Ends DEF Crash, StepOK, OwnOK

(* An aborted acknowledgement goes on to release its claim.                *)
LEMMA AbortStep ==
  ASSUME PgInv, NEW s \in Session, Abort(s)
  PROVE  StepOK(s)
<1>1. UNCHANGED <<tables, pod, lapses>>
  BY Zenon DEF Abort
<1>2. Effect(s) /\ TableType' /\ TableInv'
  BY Zenon, <1>1, NothingWritten
<1>3. CASE at[s] # "ackwrite"
  <2>1. End(s, "idle")
    BY Zenon, <1>3 DEF Abort
  <2> QED
    BY Zenon, <1>2, <2>1, Ends DEF StepOK, OwnOK
<1>4. CASE at[s] = "ackwrite"
  <2>1. End(s, "release")
    BY Zenon, <1>4 DEF Abort
  <2>2. op[s] = "claim" /\ Live(row[s]) /\ holds[s] = {}
    BY Zenon, <1>4, CallAt DEF PgInv, SessionOK, ClaimedOK, Claimed
  <2>3. /\ at' = [at EXCEPT ![s] = "release"] /\ op' = op /\ row' = row
        /\ run' = [run EXCEPT ![s] = NoRun]
        /\ read' = [read EXCEPT ![s] = "none"] /\ todo' = [todo EXCEPT ![s] = {}]
        /\ writes' = [writes EXCEPT ![s] = Empty] /\ runWrite' = [runWrite EXCEPT ![s] = Empty]
        /\ holds' = [holds EXCEPT ![s] = {}] /\ shares' = [shares EXCEPT ![s] = {}]
    BY Zenon, <2>1 DEF End, Goto, PgInv, SessionType
  <2>4. /\ Empty \in Partial(Row, JobRunStatus \ {"queued"})
        /\ Empty \in Partial(RunID, WorkflowRunStatus) /\ DOMAIN Empty = {}
    BY Zenon, EmptyPartial
  <2>5. /\ "release" \in Place("claim") /\ "claim" \in Op
        /\ "release" \in Claimed /\ "release" \notin Scanning
    BY Zenon DEF Place, Op, Claimed, Scanning
  <2>6. SessionType'
    BY Zenon, <2>3, <2>4, <2>5, PlaceTyped DEF PgInv, SessionType
  <2>7. /\ op'[s] = "claim" /\ at'[s] = "release" /\ row'[s] = row[s] /\ holds'[s] = {}
        /\ writes'[s] = Empty /\ runWrite'[s] = Empty
    BY Zenon, <2>2, <2>3 DEF PgInv, SessionType
  <2>8. Apart(s) /\ NewLocksFree(s)
    BY Zenon, <2>3, <2>7 DEF PgInv, SessionType, Apart, NewLocksFree
  <2>9. WritesOK(s)'
    BY Zenon, <2>4, <2>7 DEF WritesOK
  <2>10. CallOK(s)'
    BY Zenon, <2>2, <2>5, <2>7 DEF PgInv, SessionOK, CallOK
  <2>11. ClaimedOK(s)'
    BY Zenon, <1>1, <2>2, <2>7, RecordsSame DEF ClaimedOK, Live, tables
  <2>12. SessionOK(s)'
    BY Zenon, <2>5, <2>7, <2>9, <2>10, <2>11
       DEF SessionOK, IdleOK, CreateOK, ScanOK, ApplyOK, CancelOK, RerequestOK
  <2> QED
    BY Zenon, <1>2, <2>6, <2>8, <2>12 DEF StepOK, OwnOK
<1> QED
  BY Zenon, <1>3, <1>4

(***************************************************************************)
(* What the world does leaves the sessions alone.                          *)
(***************************************************************************)
LEMMA WorldSteps ==
  ASSUME PgInv, (\E i \in Row : PodEnds(i) \/ LeaseLapses(i)) \/ UNCHANGED vars
  PROVE  PgInv'
<1>1. /\ UNCHANGED <<status, key, attempt, runStatus, nextRow>> /\ UNCHANGED txVars
      /\ \/ claim' = claim /\ lapses' = lapses
         \/ \E i \in Row : /\ claim' = [claim EXCEPT ![i] = "lapsed"]
                           /\ lapses' = [lapses EXCEPT ![i] = @ + 1]
      /\ \/ pod' = pod
         \/ \E i \in Row, end \in {"succeeded", "failed"} :
              pod[i] = "running" /\ pod' = [pod EXCEPT ![i] = end]
  BY Zenon DEF PodEnds, LeaseLapses, tables, vars
<1>2. TableType'
  <2>1. lapses' \in [Row -> Nat]
    BY <1>1 DEF PgInv, TableType
  <2>2. pod' \in [Row -> Phase \cup {"none"}]
    BY <1>1 DEF PgInv, TableType, Phase
  <2>3. claim' \in [Row -> {"none", "live", "lapsed"}]
    BY Zenon, <1>1 DEF PgInv, TableType
  <2> QED
    BY Zenon, <1>1, <2>1, <2>2, <2>3 DEF PgInv, TableType
<1>3. \A x \in Row : claim'[x] = "live" => claim[x] = "live"
  BY Zenon, <1>1 DEF PgInv, TableType
<1>4. \A x \in Row : pod'[x] # "none" => pod[x] # "none"
  BY Zenon, <1>1 DEF PgInv, TableType
<1>5. /\ \A x : Live(x)' <=> Live(x)
      /\ \A r : Known(r)' <=> Known(r)
      /\ \A x : RunOfRow(x)' = RunOfRow(x)
      /\ \A d : DeliveryRuns(d)' = DeliveryRuns(d)
  BY Zenon, <1>1 DEF Live, Known, RunOfRow, DeliveryRuns
<1>6. TableInv'
  BY Zenon, <1>1, <1>4, <1>5 DEF PgInv, TableInv
<1>7. SessionType' /\ LockInv'
  BY Zenon, <1>1 DEF PgInv, SessionType, LockInv, Free, txVars
<1>8. ASSUME NEW s \in Session PROVE SessionOK(s)'
  <2> SessionOK(s)
    BY Zenon DEF PgInv
  <2>1. CallOK(s)' /\ WritesOK(s)' /\ IdleOK(s)' /\ CreateOK(s)'
    BY Zenon, <1>1, <1>5 DEF SessionOK, CallOK, WritesOK, IdleOK, CreateOK, txVars
  <2>2. ScanOK(s)'
    BY Zenon, <1>1, <1>3, <1>5 DEF SessionOK, ScanOK, txVars
  <2>3. ClaimedOK(s)' /\ ApplyOK(s)' /\ CancelOK(s)' /\ RerequestOK(s)'
    BY Zenon, <1>1, <1>5 DEF SessionOK, ClaimedOK, ApplyOK, CancelOK, RerequestOK, txVars
  <2> QED
    BY Zenon, <2>1, <2>2, <2>3 DEF SessionOK
<1> QED
  BY Zenon, <1>2, <1>6, <1>7, <1>8 DEF PgInv

LEMMA InitInv == Init => PgInv
<1> SUFFICES ASSUME Init PROVE PgInv
  BY Zenon
<1>1. /\ Empty \in Partial(Row, JobRunStatus \ {"queued"})
      /\ Empty \in Partial(RunID, WorkflowRunStatus) /\ DOMAIN Empty = {}
  BY Zenon, EmptyPartial
<1>2. "none" \in Op /\ "idle" \in Place("none")
  BY Zenon DEF Op, Place
<1>3. TableType
  BY Zenon DEF Init, TableType
<1>4. SessionType
  BY Zenon, <1>1, <1>2, PlaceTyped DEF Init, SessionType
<1>5. TableInv /\ LockInv
  BY Zenon DEF Init, TableInv, Live, LockInv
<1>6. \A s \in Session : SessionOK(s)
  BY Zenon, <1>1, <1>2 DEF Init, SessionOK, CallOK, WritesOK, IdleOK, CreateOK, ScanOK,
     ClaimedOK,
                    ApplyOK, CancelOK, RerequestOK
<1> QED
  BY Zenon, <1>3, <1>4, <1>5, <1>6 DEF PgInv

(***************************************************************************)
(* Every step of a session, and the invariant.                             *)
(***************************************************************************)
Act(s) ==
  \/ s \in Dispatcher /\ Dispatch(s)
  \/ s \in Handler /\ Serve(s)
  \/ Aggregate(s) \/ LockRun(s) \/ Crash(s) \/ Abort(s)

LEMMA NextIsAct ==
  ASSUME Next
  PROVE  (\E s \in Session : Act(s)) \/ (\E i \in Row : PodEnds(i) \/ LeaseLapses(i))
BY Zenon DEF Next, Act, Session

LEMMA ActOK ==
  ASSUME PgInv, NEW s \in Session, Act(s)
  PROVE  StepOK(s)
<1>1. CASE Dispatch(s)
  <2>1. CASE ClaimScan(s)
    <3>1. PICK i \in todo[s] : LeaveBlocked(s, i) \/ SkipFailed(s, i) \/ ClaimJob(s, i)
      BY Zenon, <2>1 DEF ClaimScan
    <3>2. at[s] = "scan" /\ UNCHANGED <<pod, lapses>>
      BY Zenon, <2>1 DEF ClaimScan
    <3> QED
      BY Zenon, <3>1, <3>2, LeaveBlockedStep, SkipFailedStep, ClaimJobStep
  <2> QED
    BY Zenon, <1>1, <2>1, ClaimSelectStep, ClaimEmptyStep, CheckJobStep, CreateObjectStep,
       AckWriteStep, ReleaseClaimStep DEF Dispatch
<1>2. CASE Serve(s)
  BY Zenon, <1>2, CreateRunStep, InsertRunStep, CommitRunStep, ApplyReadStep, ApplyWriteStep,
     ApplyCommitStep, CancelReadStep, CancelLockStep, CancelWriteStep, RerequestReadStep,
     RerequestInsertStep, RerequestCommitStep DEF Serve
<1> QED
  BY Zenon, <1>1, <1>2, AggregateStep, LockRunStep, CrashStep, AbortStep DEF Act

LEMMA StepInv ==
  ASSUME PgInv, Next
  PROVE  PgInv'
<1>1. ASSUME NEW s \in Session, Act(s) PROVE PgInv'
  BY Zenon, <1>1, ActOK, StepKeeps DEF StepOK, OwnOK
<1> QED
  BY Zenon, <1>1, NextIsAct, WorldSteps

(***************************************************************************)
(* THEOREM: at every statement a transaction has in hand what its code     *)
(* takes for granted: the types, exclusive locks, and for each call the    *)
(* records and the locks it works on.                                      *)
(***************************************************************************)
THEOREM PgInvariant == Spec => []PgInv
<1>1. PgInv /\ [Next]_vars => PgInv'
  BY Zenon, StepInv, WorldSteps
<1> QED
  BY <1>1, InitInv, PTL DEF Spec

(***************************************************************************)
(* THEOREM: the candidates a claim has locked are queued until it commits, *)
(* whatever acknowledgements, observations, cancellations and other claims *)
(* do meanwhile.                                                           *)
(***************************************************************************)
THEOREM LockedRowsStayQueued == Spec => []LockedStaysQueued
<1>1. PgInv => LockedStaysQueued
  BY Zenon DEF PgInv, SessionOK, ScanOK, LockedStaysQueued, Session, Scanning
<1> QED
  BY <1>1, PgInvariant, PTL

=============================================================================
