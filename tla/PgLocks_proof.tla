--------------------------- MODULE PgLocks_proof ----------------------------
(***************************************************************************)
(* Proofs about the PostgreSQL store, continued: from the invariant of     *)
(* PgStore_proof, one run per delivery, who may work on a claimed row, and *)
(* which cycles of lock waits the transactions can form.                   *)
(***************************************************************************)
EXTENDS PgStore_proof, FiniteSetTheorems, WellFoundedInduction

-----------------------------------------------------------------------------
(***************************************************************************)
(* One run per delivery.                                                   *)
(***************************************************************************)
Unique ==
  \A r, q \in RunID : Known(r) /\ Known(q) /\ DeliveryOf[r] = DeliveryOf[q] => r = q

LEMMA UniqueStep ==
  ASSUME PgInv, Unique, Next
  PROVE  Unique'
<1>1. CASE \E i \in Row : PodEnds(i) \/ LeaseLapses(i)
  BY Zenon, <1>1 DEF PodEnds, LeaseLapses, tables, Unique, Known
<1>2. ASSUME NEW s \in Session, Act(s) PROVE Unique'
  <2>1. Effect(s)
    BY Zenon, <1>2, ActOK DEF StepOK
  <2>2. \A r \in RunID : Known(r)' /\ ~Known(r) =>
          op[s] = "create" /\ at[s] = "commit" /\ run[s] = r
    BY Zenon, <2>1 DEF Effect, RunsAppear, Known
  <2>3. op[s] = "create" /\ at[s] = "commit" =>
          \A q \in RunID : DeliveryOf[q] = DeliveryOf[run[s]] => ~Known(q)
    BY Zenon DEF PgInv, SessionOK, CreateOK, DeliveryRuns, Known
  <2> QED
    BY Zenon, <2>2, <2>3 DEF Unique
<1> QED
  BY Zenon, <1>1, <1>2, NextIsAct

(***************************************************************************)
(* THEOREM: CreateRun's lookup and its insert are two statements, and two  *)
(* handlers may both find no run; the unique index still leaves every      *)
(* delivery with at most one.                                              *)
(***************************************************************************)
THEOREM DeliveriesAreUnique == Spec => []OneRunPerDelivery
<1>1. Init => Unique
  BY DEF Init, Unique, Known
<1>2. PgInv /\ Unique /\ [Next]_vars => Unique'
  <2>1. UNCHANGED vars /\ Unique => Unique'
    BY Zenon DEF vars, tables, Unique, Known
  <2> QED
    BY Zenon, <2>1, UniqueStep
<1>3. Unique => OneRunPerDelivery
  <2> SUFFICES ASSUME Unique, NEW d \in Delivery PROVE Cardinality(DeliveryRuns(d)) <= 1
    BY Zenon DEF OneRunPerDelivery
  <2>1. CASE DeliveryRuns(d) = {}
    BY <2>1, FS_EmptySet
  <2>2. CASE DeliveryRuns(d) # {}
    <3>1. PICK r : r \in DeliveryRuns(d)
      BY Zenon, <2>2
    <3>2. DeliveryRuns(d) = {r}
      BY Zenon, <3>1 DEF Unique, DeliveryRuns, Known
    <3>3. Cardinality({r}) = 1
      BY Zenon, FS_Singleton
    <3> QED
      BY <3>2, <3>3
  <2> QED
    BY Zenon, <2>1, <2>2
<1> QED
  BY <1>1, <1>2, <1>3, PgInvariant, PTL DEF Spec

-----------------------------------------------------------------------------
(***************************************************************************)
(* Claims and leases.  A step of s makes a row count one more dispatcher   *)
(* only where it also makes the row's claim live, and drops a live claim   *)
(* of a row that stays queued only where s stops working on the row.       *)
(***************************************************************************)
Works(s, i) == s \in Dispatcher /\ row[s] = i /\ at[s] # "idle"

Same(s, i) == /\ Works(s, i)' => Works(s, i)
              /\ claim'[i] = "live" <=> claim[i] = "live"
Takes(s, i) == status[i] = "queued" /\ claim[i] # "live" /\ claim'[i] = "live"
Drops(s, i) == Works(s, i) /\ ~Works(s, i)' /\ claim'[i] # "live"

LeaseStep(s) ==
  \A i \in Row : status'[i] = "queued" =>
    /\ status[i] \in {"queued", "absent"} /\ lapses'[i] = lapses[i]
    /\ Same(s, i) \/ Takes(s, i) \/ Drops(s, i)

LEMMA NotRow == 0 \notin Row
BY DEF Row

LEMMA PublishLease ==
  ASSUME PgInv, NEW s \in Session, Publish(s), NEW i \in Row, status'[i] = "queued"
  PROVE  status[i] = "queued"
<1>1. \A x \in DOMAIN writes[s] : writes[s][x] # "queued"
  BY PartialParts DEF PgInv, SessionType
<1> QED
  BY Zenon, <1>1 DEF Publish, Reads

(* A call that ends leaves its dispatcher working on nothing.              *)
LEMMA EndLease ==
  ASSUME PgInv, NEW s \in Session, End(s, "idle"), NEW i \in Row
  PROVE  ~Works(s, i)'
BY Zenon DEF End, Goto, Works, PgInv, SessionType

LEMMA DispatchLease ==
  ASSUME PgInv, NEW s \in Dispatcher, Dispatch(s)
  PROVE  LeaseStep(s)
<1> s \in Session
  BY Zenon DEF Session
<1> SUFFICES ASSUME NEW i \in Row, status'[i] = "queued"
             PROVE  /\ status[i] \in {"queued", "absent"} /\ lapses'[i] = lapses[i]
                    /\ Same(s, i) \/ Takes(s, i) \/ Drops(s, i)
  BY Zenon DEF LeaseStep
<1>1. CASE ClaimSelect(s)
  <2>1. row[s] = 0 /\ row' = row /\ UNCHANGED <<tables, lapses>>
    BY Zenon, <1>1, IdleHolds DEF ClaimSelect, Start
  <2> QED
    BY Zenon, <2>1, NotRow DEF tables, Same, Works
<1>2. CASE ClaimScan(s)
  <2>1. PICK x \in todo[s] : LeaveBlocked(s, x) \/ SkipFailed(s, x) \/ ClaimJob(s, x)
    BY Zenon, <1>2 DEF ClaimScan
  <2>2. at[s] = "scan" /\ lapses' = lapses
    BY Zenon, <1>2 DEF ClaimScan
  <2>3. /\ row[s] = 0 /\ x \in Row /\ status[x] = "queued" /\ claim[x] # "live"
    BY Zenon, <2>1, <2>2, ScanHolds
  <2>4. CASE LeaveBlocked(s, x) \/ SkipFailed(s, x)
    BY Zenon, <2>2, <2>3, <2>4, NotRow DEF LeaveBlocked, SkipFailed, tables, Same, Works
  <2>5. CASE ClaimJob(s, x)
    <3>1. /\ Publish(s) /\ claim' = [claim EXCEPT ![x] = "live"] /\ row' = [row EXCEPT ![s] = x]
      BY Zenon, <2>5 DEF ClaimJob
    <3>2. status[i] = "queued"
      BY Zenon, <3>1, PublishLease
    <3>3. CASE i = x
      BY Zenon, <2>2, <2>3, <3>1, <3>2, <3>3 DEF Takes, PgInv, TableType
    <3>4. CASE i # x
      BY Zenon, <2>2, <3>1, <3>2, <3>4 DEF Same, Works, PgInv, TableType, SessionType
    <3> QED
      BY Zenon, <3>3, <3>4
  <2> QED
    BY Zenon, <2>1, <2>4, <2>5
<1>3. CASE ClaimEmpty(s)
  <2>1. Publish(s) /\ End(s, "idle") /\ claim' = claim /\ lapses' = lapses
    BY Zenon, <1>3 DEF ClaimEmpty
  <2> QED
    BY Zenon, <2>1, PublishLease, EndLease DEF Same
<1>4. CASE CheckJob(s) \/ CreateObject(s) \/ AckRead(s)
  BY Zenon, <1>4 DEF CheckJob, CreateObject, AckRead, tables, Same, Works
<1>5. CASE AckWrite(s)
  <2>1. /\ status' = [status EXCEPT ![row[s]] = "dispatched"]
        /\ claim' = [claim EXCEPT ![row[s]] = "none"] /\ End(s, "idle") /\ lapses' = lapses
    BY Zenon, <1>5 DEF AckWrite
  <2>2. i # row[s] /\ status[i] = "queued" /\ claim'[i] = claim[i]
    BY Zenon, <2>1 DEF PgInv, TableType
  <2> QED
    BY Zenon, <2>1, <2>2, EndLease DEF Same
<1>6. CASE ReleaseClaim(s)
  <2>1. /\ at[s] = "release" /\ status' = status
        /\ claim' = [claim EXCEPT ![row[s]] = "none"] /\ End(s, "idle") /\ lapses' = lapses
    BY Zenon, <1>6 DEF ReleaseClaim
  <2>2. CASE i = row[s]
    BY Zenon, <2>1, <2>2, EndLease DEF Drops, Works, PgInv, TableType
  <2>3. CASE i # row[s]
    BY Zenon, <2>1, <2>3, EndLease DEF Same, PgInv, TableType
  <2> QED
    BY Zenon, <2>1, <2>2, <2>3
<1> QED
  BY Zenon, <1>1, <1>2, <1>3, <1>4, <1>5, <1>6 DEF Dispatch

LEMMA CancelLease ==
  ASSUME PgInv, NEW s \in Session, CancelWrite(s), NEW i \in Row, status'[i] = "queued"
  PROVE  status[i] = "queued" /\ claim'[i] = claim[i]
<1>1. /\ status'[i] = IF i \in holds[s] THEN TransitionJob(status[i], "cancelled") ELSE status[i]
      /\ claim'[i] = IF i \in holds[s] /\ status[i] \notin JobTerminal THEN "none" ELSE claim[i]
  BY Zenon DEF CancelWrite
<1> QED
  BY Zenon, <1>1 DEF TransitionJob, CanTransitionJob, JobTerminal

LEMMA ServeLease ==
  ASSUME PgInv, NEW s \in Handler, Serve(s)
  PROVE  LeaseStep(s)
<1>1. s \in Session /\ s \notin Dispatcher
  BY Zenon, PgAssumption DEF Session
<1> SUFFICES ASSUME NEW i \in Row, status'[i] = "queued"
             PROVE  /\ status[i] \in {"queued", "absent"} /\ lapses'[i] = lapses[i]
                    /\ claim'[i] = claim[i]
  BY Zenon, <1>1 DEF LeaseStep, Same, Works
<1>2. CASE UNCHANGED <<tables, lapses>>
  BY Zenon, <1>2 DEF tables
<1>3. CASE CommitRun(s)
  <2>1. RecordsStay /\ claim' = claim /\ lapses' = lapses
    BY Zenon, <1>1, <1>3, CommitRunStep DEF StepOK, Effect, CommitRun
  <2>2. status'[i] = status[i] \/ ~Live(i)
    <3>1. status'[i] = status[i] \/ i \in {nextRow + Position[k] : k \in {l \in JobKey : RunOf[l] = run[s]}}
      BY Zenon, <1>3 DEF CommitRun
    <3>2. ASSUME NEW k \in JobKey, i = nextRow + Position[k] PROVE ~Live(i)
      <4>1. Position[k] \in Nat /\ Position[k] >= 1
        <5>1. Cardinality({l \in JobKey : RunOf[l] = RunOf[k]}) \in Nat
          BY Zenon, PgAssumption
        <5>2. Position[k] \in 1 .. Cardinality({l \in JobKey : RunOf[l] = RunOf[k]})
          BY Zenon, PgAssumption
        <5> QED
          BY <5>1, <5>2
      <4>2. nextRow \in Nat /\ (Live(i) => i <= nextRow)
        BY Zenon DEF PgInv, TableType, TableInv
      <4> QED
        BY <3>2, <4>1, <4>2
    <3> QED
      BY Zenon, <3>1, <3>2
  <2> QED
    BY Zenon, <2>1, <2>2 DEF Live
<1>4. CASE ApplyCommit(s)
  BY Zenon, <1>1, <1>4, PublishLease DEF ApplyCommit
<1>5. CASE CancelWrite(s)
  <2>1. lapses' = lapses
    BY Zenon, <1>5 DEF CancelWrite
  <2> QED
    BY Zenon, <1>1, <1>5, <2>1, CancelLease
<1>6. CASE RerequestCommit(s)
  <2>1. claim' = claim /\ lapses' = lapses /\ status' = [status EXCEPT ![nextRow + 1] = "queued"]
    BY Zenon, <1>6 DEF RerequestCommit
  <2>2. nextRow \in Nat /\ (Live(i) => i <= nextRow)
    BY Zenon DEF PgInv, TableType, TableInv
  <2>3. i # nextRow + 1 => status'[i] = status[i]
    BY Zenon, <2>1 DEF PgInv, TableType
  <2>4. i = nextRow + 1 => ~Live(i)
    BY <2>2
  <2> QED
    BY Zenon, <2>1, <2>3, <2>4 DEF Live
<1> QED
  BY Zenon, <1>2, <1>3, <1>4, <1>5, <1>6
     DEF Serve, CreateRun, InsertRun, ApplyRead, ApplyWrite, CancelRead, CancelLock,
         RerequestRead, RerequestInsert

LEMMA ActLease ==
  ASSUME PgInv, NEW s \in Session, Act(s)
  PROVE  LeaseStep(s)
<1>1. CASE Aggregate(s) \/ LockRun(s)
  <2>1. UNCHANGED <<tables, lapses, row>> /\ at[s] # "idle"
    BY Zenon, <1>1 DEF Aggregate, LockRun
  <2> QED
    BY Zenon, <2>1 DEF LeaseStep, tables, Same, Works
<1>2. CASE Crash(s)
  <2>1. UNCHANGED <<tables, lapses>> /\ End(s, "idle")
    BY Zenon, <1>2 DEF Crash
  <2> QED
    BY Zenon, <2>1, EndLease DEF LeaseStep, tables, Same
<1>3. CASE Abort(s) /\ at[s] # "ackwrite"
  <2>1. UNCHANGED <<tables, lapses>> /\ End(s, "idle")
    BY Zenon, <1>3 DEF Abort
  <2> QED
    BY Zenon, <2>1, EndLease DEF LeaseStep, tables, Same
<1>4. CASE Abort(s) /\ at[s] = "ackwrite"
  <2>1. UNCHANGED <<tables, lapses>> /\ row'[s] = row[s]
    BY Zenon, <1>4 DEF Abort, End, PgInv, SessionType
  <2> QED
    BY Zenon, <1>4, <2>1 DEF LeaseStep, tables, Same, Works
<1> QED
  BY Zenon, <1>1, <1>2, <1>3, <1>4, DispatchLease, ServeLease DEF Act

(***************************************************************************)
(* A dispatcher works only on rows that exist.                             *)
(***************************************************************************)
LEMMA WorksOnLive ==
  ASSUME PgInv, NEW s \in Dispatcher, NEW i \in Row, Works(s, i)
  PROVE  Live(i)
<1>1. s \in Session /\ op[s] \in {"none", "claim"} /\ at[s] \in Place(op[s])
  BY Zenon DEF Session, PgInv, SessionOK, CallOK
<1>2. op[s] = "claim"
  BY Zenon, <1>1 DEF Works, Place
<1>3. at[s] \in Scanning \cup Claimed
  BY Zenon, <1>1, <1>2 DEF Place
<1> QED
  BY Zenon, <1>1, <1>2, <1>3, NotRow DEF PgInv, SessionOK, ScanOK, ClaimedOK, Works

Workers(i) == {s \in Dispatcher : Works(s, i)}

LEMMA WorkersFinite ==
  ASSUME NEW S \in SUBSET Dispatcher
  PROVE  IsFiniteSet(S) /\ Cardinality(S) \in Nat
BY Zenon, PgAssumption, FS_Subset, FS_CardinalityType

Allowed(i) == lapses[i] + IF claim[i] = "live" THEN 1 ELSE 0

LeaseInv == \A i \in Row : status[i] = "queued" => Cardinality(Workers(i)) <= Allowed(i)

LEMMA LeaseActs ==
  ASSUME PgInv, LeaseInv, NEW s \in Session, Act(s), NEW i \in Row, status'[i] = "queued"
  PROVE  Cardinality(Workers(i)') <= Allowed(i)'
<1>1. \A t \in Session : t # s => (Works(t, i)' <=> Works(t, i))
  BY Zenon, ActOK DEF StepOK, OwnOK, Apart, Works
<1>2. /\ status[i] \in {"queued", "absent"} /\ lapses'[i] = lapses[i]
      /\ Same(s, i) \/ Takes(s, i) \/ Drops(s, i)
  BY Zenon, ActLease DEF LeaseStep
<1>3. lapses[i] \in Nat
  BY Zenon DEF PgInv, TableType
<1>4. /\ Workers(i) \in SUBSET Dispatcher /\ Workers(i)' \in SUBSET Dispatcher
      /\ Dispatcher \subseteq Session
  BY Zenon DEF Workers, Session
<1>5. /\ IsFiniteSet(Workers(i)) /\ Cardinality(Workers(i)) \in Nat
      /\ IsFiniteSet(Workers(i)') /\ Cardinality(Workers(i)') \in Nat
  BY Zenon, <1>4, WorkersFinite
<1>6. status[i] = "queued" => Cardinality(Workers(i)) <= Allowed(i)
  BY Zenon DEF LeaseInv
<1>7. status[i] = "absent" => Workers(i) = {}
  BY Zenon, WorksOnLive DEF Workers, Live
<1>8. CASE Same(s, i)
  <2>1. Workers(i)' \subseteq Workers(i)
    BY Zenon, <1>1, <1>4, <1>8 DEF Workers, Same
  <2>2. Allowed(i)' = Allowed(i)
    BY Zenon, <1>2, <1>8 DEF Allowed, Same
  <2>3. Cardinality(Workers(i)') <= Cardinality(Workers(i))
    BY Zenon, <1>5, <2>1, FS_Subset
  <2>4. CASE status[i] = "queued"
    BY <1>3, <1>5, <1>6, <2>2, <2>3, <2>4 DEF Allowed
  <2>5. CASE status[i] = "absent"
    <3>1. Cardinality(Workers(i)') = 0
      BY Zenon, <1>7, <2>1, <2>5, FS_EmptySet
    <3> QED
      BY <1>3, <2>2, <3>1 DEF Allowed
  <2> QED
    BY Zenon, <1>2, <2>4, <2>5
<1>9. CASE Takes(s, i)
  <2>1. status[i] = "queued" /\ Allowed(i) = lapses[i] /\ Allowed(i)' = lapses[i] + 1
    BY <1>2, <1>3, <1>9 DEF Takes, Allowed
  <2>2. Workers(i)' \subseteq Workers(i) \cup {s}
    BY Zenon, <1>1, <1>4 DEF Workers
  <2>3. /\ IsFiniteSet(Workers(i) \cup {s})
        /\ Cardinality(Workers(i) \cup {s}) = IF s \in Workers(i) THEN Cardinality(Workers(i))
                                              ELSE Cardinality(Workers(i)) + 1
    BY Zenon, <1>5, FS_AddElement
  <2>4. Cardinality(Workers(i)') <= Cardinality(Workers(i) \cup {s})
    BY Zenon, <2>2, <2>3, FS_Subset
  <2> QED
    BY <1>3, <1>5, <1>6, <2>1, <2>3, <2>4
<1>10. CASE Drops(s, i)
  <2>1. s \in Workers(i) /\ Allowed(i)' = lapses[i] /\ Allowed(i) <= lapses[i] + 1
    BY <1>2, <1>3, <1>10 DEF Drops, Allowed, Workers, Works
  <2>2. Workers(i)' \subseteq Workers(i) \ {s}
    BY Zenon, <1>1, <1>4, <1>10 DEF Workers, Drops
  <2>3. /\ IsFiniteSet(Workers(i) \ {s})
        /\ Cardinality(Workers(i) \ {s}) = Cardinality(Workers(i)) - 1
    BY Zenon, <1>5, <2>1, FS_RemoveElement
  <2>4. Cardinality(Workers(i)') <= Cardinality(Workers(i) \ {s})
    BY Zenon, <2>2, <2>3, FS_Subset
  <2>5. status[i] = "queued"
    BY Zenon, <1>2, <1>7, <2>1
  <2>6. Allowed(i) \in Nat
    BY <1>3 DEF Allowed
  <2> QED
    BY <1>3, <1>5, <1>6, <2>1, <2>3, <2>4, <2>5, <2>6
<1> QED
  BY Zenon, <1>2, <1>8, <1>9, <1>10

LEMMA LeaseWorld ==
  ASSUME PgInv, LeaseInv, (\E i \in Row : PodEnds(i) \/ LeaseLapses(i)) \/ UNCHANGED vars
  PROVE  LeaseInv'
<1> SUFFICES ASSUME NEW x \in Row, status[x] = "queued"
             PROVE  Cardinality(Workers(x)') <= Allowed(x)'
  BY Zenon DEF LeaseInv, PodEnds, LeaseLapses, vars, tables
<1>1. Workers(x)' = Workers(x)
  BY Zenon DEF Workers, Works, PodEnds, LeaseLapses, vars, txVars
<1>2. Cardinality(Workers(x)) <= Allowed(x)
  BY Zenon DEF LeaseInv
<1>3. Allowed(x)' = Allowed(x)
  <2>1. CASE claim' = claim /\ lapses' = lapses
    BY Zenon, <2>1 DEF Allowed
  <2>2. CASE \E i \in Row : LeaseLapses(i)
    <3>1. PICK i \in Row : /\ claim[i] = "live" /\ claim' = [claim EXCEPT ![i] = "lapsed"]
                           /\ lapses' = [lapses EXCEPT ![i] = lapses[i] + 1]
      BY Zenon, <2>2 DEF LeaseLapses, PgInv, TableType
    <3> QED
      BY <3>1 DEF Allowed, PgInv, TableType
  <2> QED
    BY Zenon, <2>1, <2>2 DEF PodEnds, vars, tables
<1> QED
  BY Zenon, <1>1, <1>2, <1>3

(***************************************************************************)
(* THEOREM: a job is in the hands of at most one dispatcher for its live   *)
(* claim and one for each lease that ran out while it was queued, although *)
(* ReleaseClaim drops the claim on a row whoever made it.                  *)
(***************************************************************************)
THEOREM ClaimsStayWithinLease == Spec => []ClaimsWithinLease
<1>1. Init => LeaseInv
  BY DEF Init, LeaseInv
<1>2. PgInv /\ LeaseInv /\ [Next]_vars => LeaseInv'
  BY Zenon, LeaseActs, LeaseWorld, NextIsAct DEF LeaseInv
<1>3. LeaseInv => ClaimsWithinLease
  BY Zenon DEF LeaseInv, ClaimsWithinLease, Workers, Works, Allowed
<1> QED
  BY <1>1, <1>2, <1>3, PgInvariant, PTL DEF Spec

-----------------------------------------------------------------------------
(***************************************************************************)
(* The order of locks.  A scan goes up the rows, and has locked the runs   *)
(* of rows it skipped; only a re-request has a key-share lock; while no    *)
(* job was re-requested the rows of a run are next to each other.          *)
(***************************************************************************)
UpwardOK(s) ==
  op[s] = "claim" /\ at[s] \in Scanning =>
    /\ \A j \in DOMAIN writes[s], y \in todo[s] : j < y
    /\ \A r \in holds[s] \cap RunID : \E j \in DOMAIN writes[s] : RunOfRow(j) = r
    /\ at[s] # "scan" => \E i \in DOMAIN writes[s] : /\ RunOfRow(i) = run[s]
                                                     /\ \A j \in DOMAIN writes[s] : j <= i

SharesOK(s) == op[s] # "rerequest" => shares[s] = {}

Contiguous ==
  \A i, j, k \in Row : /\ Live(i) /\ Live(j) /\ Live(k) /\ i < j /\ j < k
                       /\ RunOfRow(i) = RunOfRow(k)
                       => RunOfRow(j) = RunOfRow(i)

OrderInv ==
  /\ \A s \in Session : UpwardOK(s) /\ SharesOK(s)
  /\ (\A i \in Row : Live(i) => attempt[i] <= 1) => Contiguous

LEMMA OthersKeepOrder ==
  ASSUME PgInv, NEW s \in Session, NEW t \in Session, t # s, Apart(s), RecordsStay,
         UpwardOK(t), SharesOK(t)
  PROVE  UpwardOK(t)' /\ SharesOK(t)'
<1>1. /\ op'[t] = op[t] /\ at'[t] = at[t] /\ run'[t] = run[t] /\ todo'[t] = todo[t]
      /\ writes'[t] = writes[t] /\ holds'[t] = holds[t] /\ shares'[t] = shares[t]
  BY Zenon DEF Apart
<1>2. SharesOK(t)'
  BY Zenon, <1>1 DEF SharesOK
<1>3. UpwardOK(t)'
  <2> SUFFICES ASSUME op[t] = "claim", at[t] \in Scanning PROVE UpwardOK(t)'
    BY Zenon, <1>1 DEF UpwardOK
  <2>1. DOMAIN writes[t] \subseteq holds[t] \cap Row
    BY PartialParts DEF PgInv, SessionType, SessionOK, WritesOK
  <2>2. \A i \in holds[t] \cap Row : Live(i)
    BY Zenon DEF PgInv, SessionOK, ScanOK, Live
  <2>3. \A j \in DOMAIN writes[t] : RunOfRow(j)' = RunOfRow(j)
    BY Zenon, <2>1, <2>2 DEF RecordsStay, RunOfRow
  <2> QED
    BY Zenon, <1>1, <2>3 DEF UpwardOK
<1> QED
  BY Zenon, <1>2, <1>3

LEMMA ScanStepOrder ==
  ASSUME PgInv, NEW s \in Session, UpwardOK(s), ClaimScan(s)
  PROVE  UpwardOK(s)'
<1>1. PICK i \in todo[s] : /\ \A y \in todo[s] : i <= y
                           /\ LeaveBlocked(s, i) \/ SkipFailed(s, i) \/ ClaimJob(s, i)
  BY Zenon DEF ClaimScan
<1>2. at[s] = "scan"
  BY Zenon DEF ClaimScan
<1>3. op[s] = "claim" /\ "scan" \in Scanning /\ todo[s] \subseteq Row
  BY Zenon, <1>2, ScanHolds
<1>4. DOMAIN writes[s] \subseteq Row
  BY PartialParts DEF PgInv, SessionType
<1>5. /\ \A j \in DOMAIN writes[s], y \in todo[s] : j < y
      /\ \A r \in holds[s] \cap RunID : \E j \in DOMAIN writes[s] : RunOfRow(j) = r
  BY Zenon, <1>2, <1>3 DEF UpwardOK
<1>6. CASE LeaveBlocked(s, i)
  <2>1. /\ todo'[s] = todo[s] \ {i} /\ UNCHANGED tables
        /\ UNCHANGED <<op, at, run, writes, holds>>
    BY Zenon, <1>6 DEF LeaveBlocked, PgInv, SessionType
  <2> QED
    BY Zenon, <1>2, <1>5, <2>1, RecordsSame DEF UpwardOK
<1>7. CASE SkipFailed(s, i)
  <2>1. /\ todo'[s] = todo[s] \ {i} /\ writes'[s] = Write(writes[s], i, "skipped")
        /\ run'[s] = RunOfRow(i) /\ UNCHANGED tables /\ UNCHANGED holds
    BY Zenon, <1>7 DEF SkipFailed, RunOfRow, PgInv, SessionType
  <2>2. DOMAIN writes'[s] = DOMAIN writes[s] \cup {i}
    BY Zenon, <2>1 DEF Write
  <2>3. \A x : RunOfRow(x)' = RunOfRow(x)
    BY Zenon, <2>1, RecordsSame
  <2>4. \A j \in DOMAIN writes'[s], y \in todo'[s] : j < y
    BY <1>1, <1>3, <1>4, <1>5, <2>1, <2>2 DEF Row
  <2>5. \A j \in DOMAIN writes'[s] : j <= i
    BY <1>3, <1>4, <1>5, <2>2 DEF Row
  <2>6. \A r \in holds'[s] \cap RunID : \E j \in DOMAIN writes'[s] : RunOfRow(j)' = r
    BY Zenon, <1>5, <2>1, <2>2, <2>3
  <2>7. i \in DOMAIN writes'[s] /\ RunOfRow(i)' = run'[s]
    BY Zenon, <2>1, <2>2, <2>3
  <2> QED
    BY Zenon, <2>4, <2>5, <2>6, <2>7 DEF UpwardOK
<1>8. CASE ClaimJob(s, i)
  <2>1. at'[s] = "claimed"
    BY Zenon, <1>8 DEF ClaimJob, Goto, PgInv, SessionType
  <2> QED
    BY Zenon, <2>1 DEF UpwardOK, Scanning
<1> QED
  BY Zenon, <1>1, <1>6, <1>7, <1>8

LEMMA UpwardStep ==
  ASSUME PgInv, NEW s \in Session, UpwardOK(s), Act(s)
  PROVE  UpwardOK(s)'
<1>1. CASE ClaimSelect(s)
  <2>1. /\ todo'[s] \subseteq Row /\ holds'[s] = todo'[s] /\ writes' = writes /\ at'[s] = "scan"
    BY Zenon, <1>1 DEF ClaimSelect, Start, Goto, PgInv, SessionType
  <2>2. DOMAIN writes'[s] = {}
    BY Zenon, <1>1, <2>1, IdleHolds DEF ClaimSelect, Start
  <2>3. holds'[s] \cap RunID = {}
    BY Zenon, <2>1, PgAssumption
  <2> QED
    BY Zenon, <2>1, <2>2, <2>3 DEF UpwardOK
<1>2. CASE ClaimScan(s)
  BY Zenon, <1>2, ScanStepOrder
<1>3. CASE Aggregate(s)
  <2>1. /\ UNCHANGED <<op, run, todo, writes, holds>> /\ UNCHANGED tables
        /\ at[s] = "aggregate" /\ at'[s] = "lockrun"
    BY Zenon, <1>3 DEF Aggregate, Goto, PgInv, SessionType
  <2>2. "aggregate" \in Scanning /\ "lockrun" \in Scanning
    BY Zenon DEF Scanning
  <2> QED
    BY Zenon, <2>1, <2>2, RecordsSame DEF UpwardOK
<1>4. CASE LockRun(s)
  <2>1. /\ UNCHANGED <<op, run, todo, writes>> /\ UNCHANGED tables
        /\ at[s] = "lockrun" /\ holds'[s] = holds[s] \cup {run[s]}
        /\ at'[s] = IF op[s] = "claim" THEN "scan" ELSE "commit"
    BY Zenon, <1>4 DEF LockRun, Goto, PgInv, SessionType
  <2>2. "lockrun" \in Scanning
    BY Zenon DEF Scanning
  <2> QED
    BY Zenon, <2>1, <2>2, RecordsSame DEF UpwardOK
<1>5. CASE ClaimEmpty(s) \/ AckWrite(s) \/ ReleaseClaim(s) \/ Crash(s) \/ Abort(s)
  <2>1. at'[s] \in {"idle", "release"}
    BY Zenon, <1>5 DEF ClaimEmpty, AckWrite, ReleaseClaim, Crash, Abort, End, Goto, PgInv,
       SessionType
  <2> QED
    BY Zenon, <2>1 DEF UpwardOK, Scanning
<1>6. CASE CheckJob(s) \/ CreateObject(s) \/ AckRead(s)
  <2>1. at'[s] \in {"object", "release", "ack", "ackwrite"}
    BY Zenon, <1>6 DEF CheckJob, CreateObject, AckRead, Goto, PgInv, SessionType
  <2> QED
    BY Zenon, <2>1 DEF UpwardOK, Scanning
<1>7. CASE s \in Handler
  <2>1. SessionOK(s)'
    BY Zenon, ActOK DEF StepOK, OwnOK
  <2>2. op'[s] # "claim"
    BY Zenon, <1>7, <2>1 DEF SessionOK, CallOK
  <2> QED
    BY Zenon, <2>2 DEF UpwardOK
<1> QED
  BY Zenon, <1>1, <1>2, <1>3, <1>4, <1>5, <1>6, <1>7 DEF Act, Dispatch

LEMMA SharesStep ==
  ASSUME PgInv, NEW s \in Session, SharesOK(s), Act(s)
  PROVE  SharesOK(s)'
<1>1. CASE \E place : End(s, place)
  BY Zenon, <1>1 DEF End, SharesOK, PgInv, SessionType
<1>2. CASE op' = op /\ shares' = shares
  BY Zenon, <1>2 DEF SharesOK
<1>3. CASE at[s] = "idle" /\ shares' = shares
  BY Zenon, <1>3, IdleHolds DEF SharesOK
<1>4. CASE RerequestInsert(s)
  BY Zenon, <1>4, CallAt DEF RerequestInsert, SharesOK
<1>5. CASE Dispatch(s)
  <2>1. CASE ClaimScan(s)
    BY Zenon, <1>2, <2>1 DEF ClaimScan, LeaveBlocked, SkipFailed, ClaimJob
  <2> QED
    BY Zenon, <1>1, <1>2, <1>3, <1>5, <2>1
       DEF Dispatch, ClaimSelect, Start, ClaimEmpty, CheckJob, CreateObject, AckRead, AckWrite,
           ReleaseClaim
<1>6. CASE Serve(s)
  BY Zenon, <1>1, <1>2, <1>3, <1>4, <1>6
     DEF Serve, CreateRun, Start, InsertRun, CommitRun, ApplyRead, ApplyWrite, ApplyCommit,
         CancelRead, CancelLock, CancelWrite, RerequestRead, RerequestCommit
<1> QED
  BY Zenon, <1>1, <1>2, <1>5, <1>6 DEF Act, Aggregate, LockRun, Crash, Abort

(***************************************************************************)
(* The rows of a run stay next to each other: those of a new run come last *)
(* and no row had that run before.                                         *)
(***************************************************************************)
LEMMA ContiguousStep ==
  ASSUME PgInv, NEW s \in Session, Effect(s),
         (\A i \in Row : Live(i) => attempt[i] <= 1) => Contiguous,
         \A i \in Row : Live(i)' => attempt'[i] <= 1
  PROVE  Contiguous'
<1>1. \A i \in Row : Live(i) => Live(i)' /\ RunOfRow(i)' = RunOfRow(i) /\ attempt'[i] = attempt[i]
  BY Zenon DEF Effect, RecordsStay, Live, RunOfRow
<1>2. Contiguous
  BY Zenon, <1>1
<1>3. \A i \in Row : Live(i) => i <= nextRow /\ Known(RunOfRow(i))
  BY Zenon DEF PgInv, TableInv
<1>4. \A i \in Row : Live(i)' /\ ~Live(i) =>
        /\ i > nextRow /\ op[s] = "create" /\ at[s] = "commit" /\ RunOfRow(i)' = run[s]
  BY Zenon DEF Effect, RowsAppear, Live, RunOfRow
<1>5. op[s] = "create" /\ at[s] = "commit" => ~Known(run[s])
  BY Zenon DEF PgInv, SessionOK, CreateOK, DeliveryRuns, Known
<1>6. nextRow \in Nat
  BY Zenon DEF PgInv, TableType
<1> SUFFICES ASSUME NEW i \in Row, NEW j \in Row, NEW k \in Row,
                    Live(i)', Live(j)', Live(k)', i < j, j < k, RunOfRow(i)' = RunOfRow(k)'
             PROVE  RunOfRow(j)' = RunOfRow(i)'
  BY Zenon DEF Contiguous
<1>7. CASE Live(k)
  <2>1. ~(i > nextRow) /\ ~(j > nextRow)
    BY <1>3, <1>6, <1>7 DEF Row
  <2>2. Live(i) /\ Live(j)
    BY Zenon, <1>4, <2>1
  <2>3. RunOfRow(i) = RunOfRow(k)
    BY Zenon, <1>1, <1>7, <2>2
  <2>4. RunOfRow(j) = RunOfRow(i)
    BY Zenon, <1>2, <1>7, <2>2, <2>3 DEF Contiguous
  <2> QED
    BY Zenon, <1>1, <2>2, <2>4
<1>8. CASE ~Live(k)
  <2>1. RunOfRow(k)' = run[s] /\ ~Known(run[s])
    BY Zenon, <1>4, <1>5, <1>8
  <2>2. ~Live(i)
    BY Zenon, <1>1, <1>3, <2>1
  <2>3. ~Live(j)
    BY <1>3, <1>4, <1>6, <2>2 DEF Row
  <2> QED
    BY Zenon, <1>4, <2>2, <2>3
<1> QED
  BY Zenon, <1>7, <1>8

LEMMA OrderStep ==
  ASSUME PgInv, OrderInv, [Next]_vars
  PROVE  OrderInv'
<1>1. ASSUME NEW s \in Session, Act(s) PROVE OrderInv'
  <2>1. StepOK(s)
    BY Zenon, <1>1, ActOK
  <2>2. UpwardOK(s)' /\ SharesOK(s)'
    BY Zenon, <1>1, UpwardStep, SharesStep DEF OrderInv
  <2>3. ASSUME NEW t \in Session, t # s PROVE UpwardOK(t)' /\ SharesOK(t)'
    BY Zenon, <2>1, <2>3, OthersKeepOrder DEF OrderInv, StepOK, OwnOK, Effect
  <2>4. (\A i \in Row : Live(i)' => attempt'[i] <= 1) => Contiguous'
    BY Zenon, <2>1, ContiguousStep DEF OrderInv, StepOK
  <2> QED
    BY Zenon, <2>2, <2>3, <2>4 DEF OrderInv
<1>2. CASE (\E i \in Row : PodEnds(i) \/ LeaseLapses(i)) \/ UNCHANGED vars
  <2>1. UNCHANGED <<status, key, attempt>> /\ UNCHANGED txVars
    BY Zenon, <1>2 DEF PodEnds, LeaseLapses, vars, tables
  <2>2. (\A i : Live(i)' <=> Live(i)) /\ (\A i : RunOfRow(i)' = RunOfRow(i))
    BY Zenon, <2>1 DEF Live, RunOfRow
  <2>3. \A s \in Session : UpwardOK(s)' /\ SharesOK(s)'
    BY Zenon, <2>1, <2>2 DEF OrderInv, UpwardOK, SharesOK, txVars
  <2>4. (\A i \in Row : Live(i)' => attempt'[i] <= 1) => Contiguous'
    BY Zenon, <2>1, <2>2 DEF OrderInv, Contiguous
  <2> QED
    BY Zenon, <2>3, <2>4 DEF OrderInv
<1> QED
  BY Zenon, <1>1, <1>2, NextIsAct

LEMMA OrderInvariant == Spec => []OrderInv
<1>1. Init => OrderInv
  BY EmptyPartial DEF Init, OrderInv, UpwardOK, SharesOK, Contiguous, Live
<1>2. PgInv /\ OrderInv /\ [Next]_vars => OrderInv'
  BY Zenon, OrderStep
<1> QED
  BY <1>1, <1>2, PgInvariant, PTL DEF Spec

(***************************************************************************)
(* Who waits, and for what.                                                *)
(***************************************************************************)
WaitsForRow(s) ==
  at[s] \in {"ackwrite", "release", "update"} \/ (at[s] = "lockrows" /\ todo[s] # {})

WaitsForRun(s) == at[s] = "lockrun" \/ (at[s] = "lockrows" /\ todo[s] = {})

LEMMA WaitKinds ==
  ASSUME PgInv, NEW s \in Session, NEW t \in Waits(s)
  PROVE  /\ t \in Session /\ t # s
         /\ \/ at[s] = "insert" /\ DeliveryOf[run[s]] \in holds[t]
            \/ WaitsForRow(s) /\ row[s] \in holds[t]
            \/ WaitsForRun(s) /\ (run[s] \in holds[t] \/ run[s] \in shares[t])
            \/ op[s] = "rerequest"
<1>1. CASE at[s] = "insert"
  <2>1. t \in Blockers(s, DeliveryOf[run[s]])
    BY Zenon, <1>1 DEF Waits
  <2> QED
    BY Zenon, <1>1, <2>1 DEF Blockers
<1>2. CASE at[s] \in {"ackwrite", "release", "update"}
  <2>1. t \in Blockers(s, row[s])
    BY Zenon, <1>2 DEF Waits
  <2> QED
    BY Zenon, <1>2, <2>1 DEF Blockers, WaitsForRow
<1>3. CASE at[s] = "lockrun"
  <2>1. t \in KeyBlockers(s, run[s])
    BY Zenon, <1>3 DEF Waits
  <2> QED
    BY Zenon, <1>3, <2>1 DEF KeyBlockers, Blockers, WaitsForRun
<1>4. CASE at[s] \in {"insertrow", "reopen"}
  <2>1. t \in KeyBlockers(s, run[s])
    BY Zenon, <1>4 DEF Waits, KeyBlockers
  <2>2. op[s] = "rerequest"
    BY Zenon, <1>4, CallAt
  <2> QED
    BY Zenon, <2>1, <2>2 DEF KeyBlockers, Blockers
<1>5. CASE at[s] = "lockrows" /\ todo[s] # {}
  <2>1. t \in Blockers(s, row[s])
    BY Zenon, <1>5 DEF Waits
  <2> QED
    BY Zenon, <1>5, <2>1 DEF Blockers, WaitsForRow
<1>6. CASE at[s] = "lockrows" /\ todo[s] = {}
  <2>1. t \in Blockers(s, run[s])
    BY Zenon, <1>6 DEF Waits
  <2> QED
    BY Zenon, <1>6, <2>1 DEF Blockers, WaitsForRun
<1>7. CASE at[s] \notin {"insert", "ackwrite", "release", "update", "lockrun", "insertrow",
                         "reopen", "lockrows"}
  BY Zenon, <1>7 DEF Waits
<1> QED
  BY Zenon, <1>1, <1>2, <1>3, <1>4, <1>5, <1>6, <1>7

(***************************************************************************)
(* Who holds a lock while it waits: a claim that skipped a job and now     *)
(* wants its run, an observation that wants the run, a cancellation that   *)
(* has the first rows of its run.                                          *)
(***************************************************************************)
LEMMA HolderKinds ==
  ASSUME PgInv, NEW t \in Session, Waits(t) # {}, NEW x \in holds[t]
  PROVE  \/ op[t] = "claim" /\ at[t] = "lockrun" /\ x \in Row \cup RunID
         \/ op[t] = "apply" /\ at[t] = "lockrun" /\ x \in Row
         \/ op[t] = "cancel" /\ at[t] = "lockrows" /\ x \in Row /\ RunOfRow(x) = run[t]
<1>1. PICK u \in Waits(t) : TRUE
  BY Zenon
<1>2. \/ at[t] = "insert" \/ WaitsForRow(t) \/ WaitsForRun(t) \/ op[t] = "rerequest"
  BY Zenon, <1>1, WaitKinds
<1>3. at[t] \in Place(op[t]) /\ op[t] \in Op
  BY Zenon DEF PgInv, SessionType, SessionOK, CallOK
<1>4. SessionOK(t)
  BY Zenon DEF PgInv
<1>5. CASE op[t] = "none" \/ op[t] = "create" \/ op[t] = "rerequest"
  BY Zenon, <1>2, <1>3, <1>4, <1>5
     DEF SessionOK, IdleOK, CreateOK, RerequestOK, Place, WaitsForRow, WaitsForRun
<1>6. CASE op[t] = "claim"
  <2>1. CASE at[t] \in Claimed
    BY Zenon, <1>4, <1>6, <2>1 DEF SessionOK, ClaimedOK
  <2>2. CASE at[t] \notin Claimed
    <3>1. at[t] = "lockrun" /\ at[t] \in Scanning
      BY Zenon, <1>2, <1>3, <1>6, <2>2 DEF Place, Scanning, Claimed, WaitsForRow, WaitsForRun
    <3> QED
      BY Zenon, <1>4, <1>6, <3>1 DEF SessionOK, ScanOK
  <2> QED
    BY Zenon, <2>1, <2>2
<1>7. CASE op[t] = "apply"
  <2>1. at[t] \in {"update", "lockrun"}
    BY Zenon, <1>2, <1>3, <1>7 DEF Place, WaitsForRow, WaitsForRun
  <2> QED
    BY Zenon, <1>4, <1>7, <2>1 DEF SessionOK, ApplyOK, Live
<1>8. CASE op[t] = "cancel"
  BY Zenon, <1>3, <1>4, <1>8 DEF SessionOK, CancelOK, Place
<1> QED
  BY Zenon, <1>3, <1>5, <1>6, <1>7, <1>8 DEF Op

(***************************************************************************)
(* In a cycle without a re-request nobody waits for a delivery, who waits  *)
(* for a run waits for a claim, and who waits for a row waits for one that *)
(* wants a run or for a cancellation.                                      *)
(***************************************************************************)
LEMMA CycleKinds ==
  ASSUME PgInv, OrderInv, NEW S \in SUBSET Session, Deadlocked(S),
         \A s \in S : op[s] # "rerequest", NEW s \in S
  PROVE  \E t \in S :
           /\ t # s
           /\ \/ /\ WaitsForRun(s) /\ run[s] \in holds[t]
                 /\ op[t] = "claim" /\ at[t] = "lockrun"
              \/ /\ WaitsForRow(s) /\ row[s] \in holds[t]
                 /\ \/ at[t] = "lockrun"
                    \/ op[t] = "cancel" /\ RunOfRow(row[s]) = run[t]
<1>1. PICK t \in S : t \in Waits(s)
  BY Zenon DEF Deadlocked
<1>2. Waits(t) # {} /\ s \in Session /\ t \in Session
  BY Zenon DEF Deadlocked
<1>3. t # s /\ shares[t] = {} /\ op[s] # "rerequest"
  BY Zenon, <1>1, <1>2, WaitKinds DEF OrderInv, SharesOK
<1>4. at[s] # "insert" \/ DeliveryOf[run[s]] \notin holds[t]
  <2> SUFFICES ASSUME at[s] = "insert", DeliveryOf[run[s]] \in holds[t] PROVE FALSE
    BY Zenon
  <2>1. op[s] = "create"
    BY Zenon, <1>2, CallAt
  <2>2. DeliveryOf[run[s]] \in Delivery
    BY Zenon, <1>2, <2>1, PgAssumption DEF PgInv, SessionOK, CreateOK
  <2>3. DeliveryOf[run[s]] \in Row \cup RunID
    BY Zenon, <1>2, HolderKinds
  <2> QED
    BY Zenon, <2>2, <2>3, PgAssumption
<1>5. \/ WaitsForRow(s) /\ row[s] \in holds[t]
      \/ WaitsForRun(s) /\ run[s] \in holds[t]
  BY Zenon, <1>1, <1>2, <1>3, <1>4, WaitKinds
<1>6. CASE WaitsForRow(s) /\ row[s] \in holds[t]
  BY Zenon, <1>2, <1>3, <1>6, HolderKinds
<1>7. CASE WaitsForRun(s) /\ run[s] \in holds[t]
  <2>1. run[s] \notin Row
    <3>1. op[s] \in {"claim", "apply", "cancel"}
      BY Zenon, <1>2, <1>7, CallAt DEF WaitsForRun
    <3>2. run[s] \in RunID
      <4>1. CASE op[s] = "claim"
        <5>1. at[s] = "lockrun" /\ at[s] \in Scanning
          BY Zenon, <1>2, <1>7, <4>1, CallAt DEF WaitsForRun, Scanning
        <5> QED
          BY Zenon, <1>2, <4>1, <5>1 DEF PgInv, SessionOK, ScanOK, Known
      <4>2. CASE op[s] = "apply"
        BY <1>2, <4>2 DEF PgInv, SessionOK, ApplyOK, TableInv, Live, Known
      <4>3. CASE op[s] = "cancel"
        BY Zenon, <1>2, <4>3 DEF PgInv, SessionOK, CancelOK, Known
      <4> QED
        BY Zenon, <3>1, <4>1, <4>2, <4>3
    <3> QED
      BY Zenon, <3>2, PgAssumption
  <2> QED
    BY Zenon, <1>2, <1>3, <1>7, <2>1, HolderKinds
<1> QED
  BY Zenon, <1>5, <1>6, <1>7

(***************************************************************************)
(* The last row a scan skipped is of the run it wants.                     *)
(***************************************************************************)
Last(c, i) ==
  i \in DOMAIN writes[c] /\ RunOfRow(i) = run[c] /\ \A j \in DOMAIN writes[c] : j <= i

LEMMA LastExists ==
  ASSUME PgInv, OrderInv, NEW c \in Session, op[c] = "claim", at[c] = "lockrun"
  PROVE  \E i \in Row : Last(c, i)
<1>1. "lockrun" \in Scanning
  BY Zenon DEF Scanning
<1>2. DOMAIN writes[c] \subseteq Row
  BY PartialParts DEF PgInv, SessionType
<1> QED
  BY Zenon, <1>1, <1>2 DEF OrderInv, UpwardOK, Last

(***************************************************************************)
(* Claims waiting for claims go up: if c wants a run that d has locked and *)
(* d wants another, then the rows of the first run come before d's last.   *)
(***************************************************************************)
LEMMA WaitsGoUp ==
  ASSUME PgInv, OrderInv, Contiguous,
         NEW c \in Session, op[c] = "claim", at[c] = "lockrun", NEW i \in Row, Last(c, i),
         NEW d \in Session, op[d] = "claim", at[d] = "lockrun", NEW m \in Row, Last(d, m),
         run[c] \in holds[d], run[d] \notin holds[d]
  PROVE  i < m
<1>1. "lockrun" \in Scanning
  BY Zenon DEF Scanning
<1>2. run[c] \in RunID
  BY Zenon, <1>1 DEF PgInv, SessionOK, ScanOK, Known
<1>3. PICK j \in DOMAIN writes[d] : RunOfRow(j) = run[c]
  BY Zenon, <1>1, <1>2 DEF OrderInv, UpwardOK
<1>4. ASSUME NEW e \in Session, op[e] = "claim", at[e] = "lockrun", NEW x \in DOMAIN writes[e]
      PROVE  x \in Row /\ Live(x)
  <2>1. x \in Row /\ x \in holds[e]
    BY PartialParts DEF PgInv, SessionType, SessionOK, WritesOK
  <2> QED
    BY Zenon, <1>1, <1>4, <2>1 DEF PgInv, SessionOK, ScanOK, Live
<1>5. j \in Row /\ Live(j) /\ Live(i) /\ Live(m)
  BY Zenon, <1>3, <1>4 DEF Last
<1>6. j <= m /\ RunOfRow(m) = run[d] /\ RunOfRow(i) = run[c] /\ run[d] # run[c]
  BY Zenon, <1>3 DEF Last
<1>7. j < m /\ i # m
  BY <1>3, <1>5, <1>6 DEF Row
<1>8. ~(m < i)
  BY Zenon, <1>3, <1>5, <1>6, <1>7 DEF Contiguous
<1> QED
  BY <1>7, <1>8 DEF Row

(***************************************************************************)
(* A set of rows that is not empty has a largest member.                   *)
(***************************************************************************)
LEMMA LargestRow ==
  ASSUME NEW P \in SUBSET Row, P # {}
  PROVE  \E i \in P : \A j \in P : j <= i
<1> DEFINE Less == {p \in Nat \X Nat : p[1] < p[2]}
           D == {MaxRows - i : i \in P}
<1>1. IsWellFoundedOn(Less, Nat)
  BY Zenon, NatLessThanWellFounded DEF OpToRel
<1>2. MaxRows \in Nat
  BY Zenon, PgAssumption
<1>3. D \subseteq Nat /\ D # {}
  <2>1. ASSUME NEW i \in P PROVE MaxRows - i \in Nat
    <3>1. i \in 1 .. MaxRows
      BY Zenon DEF Row
    <3> QED
      BY <1>2, <3>1
  <2> QED
    BY Zenon, <2>1
<1>4. PICK n \in D : \A y \in D : <<y, n>> \notin Less
  BY Zenon, <1>1, <1>3, WFMin
<1>5. PICK i \in P : n = MaxRows - i
  BY Zenon, <1>4
<1>6. ASSUME NEW j \in P PROVE j <= i
  <2>1. MaxRows - j \in D /\ MaxRows - j \in Nat /\ n \in Nat
    BY Zenon, <1>3
  <2>2. ~(MaxRows - j < n)
    BY Zenon, <1>4, <2>1
  <2>3. i \in Nat /\ j \in Nat
    BY DEF Row
  <2> QED
    BY <1>2, <1>5, <2>2, <2>3
<1> QED
  BY Zenon, <1>6

(***************************************************************************)
(* THEOREM: transactions of the store wait for each other in a cycle only  *)
(* where two cancellations lock the same run's jobs, where a re-request is *)
(* among them, or between claims after a re-request has put a job of an    *)
(* older run behind those of a newer one.                                  *)
(***************************************************************************)
THEOREM LockCyclesAreKnown == Spec => []NoLockCycle
<1>1. ASSUME PgInv, OrderInv PROVE NoLockCycle
  <2> SUFFICES ASSUME NEW S \in SUBSET Session, Deadlocked(S),
                      ~\E s, t \in S : s # t /\ op[s] = "cancel" /\ op[t] = "cancel" /\ run[s] = run[t],
                      \A s \in S : op[s] # "rerequest",
                      ~(/\ \E i \in Row : attempt[i] > 1
                        /\ \E s, t \in S : s # t /\ op[s] = "claim" /\ op[t] = "claim")
               PROVE  FALSE
    BY Zenon DEF NoLockCycle
  <2> USE <1>1
  <2> DEFINE Claims == {s \in S : op[s] = "claim" /\ at[s] = "lockrun"}
  <2>1. ASSUME NEW s \in S, WaitsForRun(s)
        PROVE  \E t \in Claims : t # s /\ run[s] \in holds[t]
    <3>1. ~WaitsForRow(s)
      BY Zenon, <2>1 DEF WaitsForRow, WaitsForRun
    <3> QED
      BY Zenon, <2>1, <3>1, CycleKinds
  <2>2. \E s \in S : WaitsForRun(s)
    <3> SUFFICES ASSUME \A s \in S : ~WaitsForRun(s) PROVE FALSE
      BY Zenon
    <3>1. \A s \in S : \E t \in S : /\ t # s /\ WaitsForRow(s)
                                    /\ op[t] = "cancel" /\ RunOfRow(row[s]) = run[t]
      BY ZenonT(40), CycleKinds DEF WaitsForRun
    <3>2. PICK s \in S : TRUE
      BY Zenon DEF Deadlocked
    <3>3. PICK t \in S : op[t] = "cancel"
      BY Zenon, <3>1, <3>2
    <3>4. PICK u \in S : /\ u # t /\ WaitsForRow(t)
                         /\ op[u] = "cancel" /\ RunOfRow(row[t]) = run[u]
      BY Zenon, <3>1
    <3>5. at[t] = "lockrows"
      BY Zenon, <3>3 DEF PgInv, SessionOK, CallOK, Place
    <3>6. todo[t] # {}
      BY Zenon, <3>4, <3>5 DEF WaitsForRow
    <3>7. RunOfRow(row[t]) = run[t]
      BY Zenon, <3>3, <3>6 DEF PgInv, SessionOK, CancelOK
    <3> QED
      BY Zenon, <3>3, <3>4, <3>7
  <2>3. \A c \in Claims : WaitsForRun(c)
    BY Zenon DEF WaitsForRun
  <2>4. PICK a \in Claims : TRUE
    BY Zenon, <2>1, <2>2
  <2>5. \A i \in Row : Live(i) => attempt[i] <= 1
    <3>1. \E t \in Claims : t # a
      BY Zenon, <2>1, <2>3, <2>4
    <3>2. ~\E i \in Row : attempt[i] > 1
      BY Zenon, <2>4, <3>1
    <3> QED
      BY <3>2 DEF PgInv, TableType
  <2>6. Contiguous
    BY Zenon, <2>5 DEF OrderInv
  <2> DEFINE P == {i \in Row : \E c \in Claims : Last(c, i)}
  <2>7. P # {}
    BY Zenon, <2>4, LastExists
  <2>8. PICK i \in P : \A j \in P : j <= i
    BY Zenon, <2>7, LargestRow
  <2>9. PICK c \in Claims : Last(c, i)
    BY Zenon
  <2>10. PICK d \in Claims : d # c /\ run[c] \in holds[d]
    BY Zenon, <2>1, <2>3
  <2>11. PICK e \in Claims : e # d /\ run[d] \in holds[e]
    BY Zenon, <2>1, <2>3
  <2>12. run[d] \notin holds[d]
    BY Zenon, <2>11 DEF PgInv, LockInv, Free
  <2>13. PICK m \in Row : Last(d, m)
    BY Zenon, LastExists
  <2>14. i < m
    BY Zenon, <2>6, <2>9, <2>10, <2>12, <2>13, WaitsGoUp
  <2>15. m <= i
    BY Zenon, <2>8, <2>13
  <2> QED
    BY <2>14, <2>15 DEF Row
<1> QED
  BY <1>1, PgInvariant, OrderInvariant, PTL

=============================================================================
