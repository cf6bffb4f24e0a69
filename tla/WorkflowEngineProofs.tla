------------------------ MODULE WorkflowEngineProofs ------------------------
(***************************************************************************)
(* Theorems about WorkflowEngine, for every number of rows, keys, pods,    *)
(* attempts, outages and database errors.                                  *)
(***************************************************************************)
EXTENDS WorkflowEngine, TLAPS

USE MaxAttemptsAssumption, MaxRowsAssumption, LanesAssumption, NoValueAssumption

-----------------------------------------------------------------------------
(* The identity of a worker names one of the pods and one of the lanes.    *)
LEMMA WorkerParts ==
  ASSUME NEW w \in Worker
  PROVE  PodOf(w) \in Pods /\ LaneOf(w) \in Lanes
  BY DEF Worker, PodOf, LaneOf

(* Every statement of the store turns a row into a row.                    *)
LEMMA RowOperations ==
  ASSUME NEW r \in Row, NEW p \in Pods, NEW a \in 0..MaxAttempts
  PROVE  /\ CompletedRow(r) \in Row
         /\ FailedRow(r, a) \in Row
         /\ DeferredRow(r) \in Row
         /\ ExpiredFailedRow(r) \in Row
         /\ RecoveredRow(r, p) \in Row
         /\ r.attempts < MaxAttempts => LeasedRow(r, p) \in Row
<1>1. ASSUME NEW st \in {"queued", "completed", "failed"}
      PROVE  Released(r, st) \in Row
  BY <1>1 DEF Released, Row
<1>2. CompletedRow(r) \in Row /\ ExpiredFailedRow(r) \in Row
  BY <1>1 DEF CompletedRow, ExpiredFailedRow
<1>3. ASSUME NEW s \in Row
      PROVE  [s EXCEPT !.due = FALSE] \in Row
  BY <1>3 DEF Row
<1>4. FailedRow(r, a) \in Row
  BY <1>1, <1>3 DEF FailedRow
<1>5. ASSUME NEW s \in Row
      PROVE  [s EXCEPT !.attempts = IF @ > 0 THEN @ - 1 ELSE 0,
                       !.due = FALSE] \in Row
  <2>1. s.attempts \in 0..MaxAttempts
    BY <1>5 DEF Row
  <2>2. (IF s.attempts > 0 THEN s.attempts - 1 ELSE 0) \in 0..MaxAttempts
    BY <2>1
  <2>3. QED
    BY <2>2 DEF Row
<1>6. DeferredRow(r) \in Row
  BY <1>1, <1>5 DEF DeferredRow
<1>7. RecoveredRow(r, p) \in Row
  BY DEF RecoveredRow, Row
<1>8. ASSUME r.attempts < MaxAttempts
      PROVE  LeasedRow(r, p) \in Row
  <2>1. r.attempts + 1 \in 0..MaxAttempts
    BY <1>8 DEF Row
  <2>2. QED
    BY <2>1 DEF LeasedRow, Row
<1>9. QED
  BY <1>2, <1>4, <1>6, <1>7, <1>8

(* A freshly inserted row is a row.                                        *)
LEMMA NewRowType ==
  ASSUME NEW k \in Keys, NEW lane \in Lanes, NEW due \in BOOLEAN
  PROVE  NewRow(k, lane, due) \in Row
<1>1. AbsentRow \in Row
  BY DEF AbsentRow, Row
<1>2. lane \in {"standard", "status"}
  OBVIOUS
<1>3. ASSUME NEW r \in Row
      PROVE  [r EXCEPT !.status = "queued", !.key = k, !.lane = lane,
                       !.due = due] \in Row
  BY <1>2, <1>3 DEF Row
<1>4. QED
  BY <1>1, <1>3 DEF NewRow

(* A worker with a row in hand has a snapshot of an existing id.           *)
LEMMA SnapshotParts ==
  ASSUME TypeOK, NEW w \in Worker
  PROVE  /\ run[w].id \in Ids \cup {0}
         /\ run[w].attempts \in 0..MaxAttempts
  BY DEF TypeOK, Snapshot

(* Overwriting one row with a row keeps the table a table; an id outside   *)
(* the table changes nothing.                                              *)
LEMMA TableUpdate ==
  ASSUME NEW f \in [Ids -> Row], NEW i, NEW x, i \in Ids => x \in Row
  PROVE  [f EXCEPT ![i] = x] \in [Ids -> Row]
  OBVIOUS

(* A settling step changes one row, and the worker goes idle.              *)
LEMMA SettleType ==
  ASSUME TypeOK, NEW w \in Worker, NEW x,
         run[w].id \in Ids => x \in Row, Settle(w, x)
  PROVE  TypeOK'
<1>1. rows' \in [Ids -> Row]
  BY TableUpdate DEF TypeOK, Settle
<1>2. pc' \in [Worker -> Phase] /\ run' \in [Worker -> Snapshot]
  BY DEF TypeOK, Settle, LetGo, Goto, Phase, NoRun, Snapshot
<1>3. QED
  BY <1>1, <1>2 DEF TypeOK, Settle

(* Each statement applied to the row a worker holds yields a row.          *)
LEMMA HeldRowOperations ==
  ASSUME TypeOK, NEW w \in Worker, run[w].id \in Ids
  PROVE  LET r == rows[run[w].id] IN
         /\ CompletedRow(r) \in Row
         /\ FailedRow(r, run[w].attempts) \in Row
         /\ DeferredRow(r) \in Row
         /\ ExpiredFailedRow(r) \in Row
<1>1. rows[run[w].id] \in Row
  BY DEF TypeOK
<1>2. run[w].attempts \in 0..MaxAttempts
  BY SnapshotParts
<1>3. PodOf(w) \in Pods
  BY WorkerParts
<1>4. QED
  BY <1>1, <1>2, <1>3, RowOperations

(* The steps of a worker loop keep the types.                              *)
LEMMA WorkerStepType ==
  ASSUME TypeOK, NEW w \in Worker, WorkerStep(w)
  PROVE  TypeOK'
<1> USE WorkerParts
<1>1. CASE BeginPoll(w)
  BY <1>1 DEF BeginPoll, Goto, TypeOK, Phase
<1>2. ASSUME NEW i \in Ids, LeaseExpiredFinal(w, i) PROVE TypeOK'
  <2>1. rows' \in [Ids -> Row]
    BY <1>2, RowOperations, TableUpdate DEF LeaseExpiredFinal, TypeOK
  <2>2. [id |-> i, attempts |-> rows[i].attempts] \in Snapshot
    BY <1>2 DEF TypeOK, Row, Snapshot
  <2>3. pc' \in [Worker -> Phase] /\ run' \in [Worker -> Snapshot]
    BY <1>2, <2>2 DEF LeaseExpiredFinal, Goto, TypeOK, Phase
  <2>4. QED
    BY <1>2, <2>1, <2>3 DEF LeaseExpiredFinal, TypeOK
<1>3. CASE NoExpiredFinal(w)
  BY <1>3 DEF NoExpiredFinal, Goto, TypeOK, Phase
<1>4. ASSUME NEW i \in Ids, LeaseNext(w, i) PROVE TypeOK'
  <2>1. rows[i] \in Row /\ rows[i].attempts < MaxAttempts
    BY <1>4 DEF LeaseNext, FirstLeasable, Leasable, TypeOK
  <2>2. rows' \in [Ids -> Row]
    BY <1>4, <2>1, RowOperations, TableUpdate DEF LeaseNext, TypeOK
  <2>3. [id |-> i, attempts |-> rows[i].attempts + 1] \in Snapshot
    BY <2>1 DEF Row, Snapshot
  <2>4. pc' \in [Worker -> Phase] /\ run' \in [Worker -> Snapshot]
    BY <1>4, <2>3 DEF LeaseNext, Goto, TypeOK, Phase
  <2>5. QED
    BY <1>4, <2>2, <2>4 DEF LeaseNext, TypeOK
<1>5. CASE NothingToLease(w)
  BY <1>5 DEF NothingToLease, Goto, TypeOK, Phase
<1>6. CASE Complete(w)
  BY <1>6, HeldRowOperations, SettleType DEF Complete
<1>7. CASE Fail(w)
  BY <1>7, HeldRowOperations, SettleType DEF Fail
<1>8. CASE DeferForProviderCooldown(w)
  BY <1>8, HeldRowOperations, SettleType DEF DeferForProviderCooldown
<1>9. CASE DeferForTransientFailure(w)
  BY <1>9, HeldRowOperations, SettleType DEF DeferForTransientFailure
<1>10. CASE FailExpiredFinalAttempt(w)
  BY <1>10, HeldRowOperations, SettleType DEF FailExpiredFinalAttempt
<1>11. CASE ExitLoop(w)
  BY <1>11 DEF ExitLoop, Goto, TypeOK, Phase
<1>12. QED
  BY <1>1, <1>2, <1>3, <1>4, <1>5, <1>6, <1>7, <1>8, <1>9, <1>10, <1>11
     DEF WorkerStep

(* Database errors keep the types: a statement that was applied has the    *)
(* effect it would have had.                                               *)
LEMMA DbErrorStepType ==
  ASSUME TypeOK, NEW w \in Worker, DbErrorStep(w)
  PROVE  TypeOK'
<1> USE WorkerParts
<1>1. dbErrors' \in Nat
  BY DEF DbErrorStep, LeaseLost, CompleteThrows, SettleThrows, CountDbError,
         TypeOK
<1>2. CASE LeaseLost(w)
  <2>1. ASSUME NEW i \in Ids, FirstLeasable(i, LaneOf(w))
        PROVE  [rows EXCEPT ![i] = LeasedRow(@, PodOf(w))] \in [Ids -> Row]
    <3>1. rows[i] \in Row /\ rows[i].attempts < MaxAttempts
      BY <2>1 DEF FirstLeasable, Leasable, TypeOK
    <3>2. QED
      BY <3>1, RowOperations, TableUpdate DEF TypeOK
  <2>2. ASSUME NEW i \in Ids
        PROVE  [rows EXCEPT ![i] = RecoveredRow(@, PodOf(w))] \in [Ids -> Row]
    <3>1. rows[i] \in Row /\ 0 \in 0..MaxAttempts
      BY DEF TypeOK
    <3>2. QED
      BY <3>1, RowOperations, TableUpdate DEF TypeOK
  <2>3. rows' \in [Ids -> Row]
    BY <1>2, <2>1, <2>2 DEF LeaseLost, TypeOK
  <2>4. QED
    BY <1>1, <1>2, <2>3 DEF LeaseLost, Goto, TypeOK, Phase
<1>3. CASE CompleteThrows(w)
  <2>1. rows' \in [Ids -> Row]
    BY <1>3, HeldRowOperations, TableUpdate DEF CompleteThrows, TypeOK
  <2>2. QED
    BY <1>1, <1>3, <2>1 DEF CompleteThrows, Goto, TypeOK, Phase
<1>4. CASE SettleThrows(w)
  BY <1>1, <1>4 DEF SettleThrows, LetGo, Goto, NoRun, Snapshot, TypeOK, Phase
<1>5. QED
  BY <1>2, <1>3, <1>4 DEF DbErrorStep

(* Stopping, killing and restarting pods keeps the types.                  *)
LEMMA PodStepType ==
  ASSUME TypeOK, NEW p \in Pods, PodStep(p)
  PROVE  TypeOK'
<1>1. ASSUME PodDown(p)
      PROVE  /\ pod' \in [Pods -> {"up", "stopping", "down"}]
             /\ pc' \in [Worker -> Phase]
             /\ run' \in [Worker -> Snapshot]
             /\ rows' \in [Ids -> Row]
  BY <1>1 DEF PodDown, TypeOK, Phase, Snapshot, NoRun
<1>2. CASE Stop(p)
  BY <1>2 DEF Stop, CountOutage, TypeOK
<1>3. CASE Exit(p)
  BY <1>1, <1>3 DEF Exit, TypeOK
<1>4. CASE ForceExit(p)
  BY <1>1, <1>4 DEF ForceExit, TypeOK
<1>5. CASE Crash(p)
  BY <1>1, <1>5 DEF Crash, CountOutage, TypeOK
<1>6. CASE Restart(p)
  BY <1>6 DEF Restart, TypeOK, Phase
<1>7. QED
  BY <1>2, <1>3, <1>4, <1>5, <1>6 DEF PodStep

(* Inserting a row, or dropping the insert, keeps the types.               *)
LEMMA EnqueueType ==
  ASSUME TypeOK, NEW k \in Keys, NEW lane \in Lanes, NEW due \in BOOLEAN,
         Enqueue(k, lane, due)
  PROVE  TypeOK'
<1>1. rows' \in [Ids -> Row]
  BY NewRowType, TableUpdate DEF Enqueue, InsertIgnore, TypeOK
<1>2. QED
  BY <1>1 DEF Enqueue, TypeOK

(* The passing of time keeps the types.                                    *)
LEMMA TimeStepType ==
  ASSUME TypeOK, NEW i \in Ids, TimeStep(i)
  PROVE  TypeOK'
<1>1. ASSUME NEW r \in Row
      PROVE  /\ [r EXCEPT !.lease = "expired"] \in Row
             /\ [r EXCEPT !.due = TRUE] \in Row
             /\ [r EXCEPT !.young = FALSE] \in Row
  BY <1>1 DEF Row
<1>2. rows[i] \in Row
  BY DEF TypeOK
<1>3. PICK x \in Row : rows' = [rows EXCEPT ![i] = x]
  <2>1. CASE LeaseExpires(i)
    BY <1>1, <1>2, <2>1 DEF LeaseExpires
  <2>2. CASE BecomesDue(i)
    BY <1>1, <1>2, <2>2 DEF BecomesDue
  <2>3. CASE RetryWindowCloses(i)
    BY <1>1, <1>2, <2>3 DEF RetryWindowCloses
  <2>4. QED
    BY <2>1, <2>2, <2>3 DEF TimeStep
<1>4. QED
  BY <1>3 DEF TimeStep, LeaseExpires, BecomesDue, RetryWindowCloses, TypeOK

(* Every step, of a loop, the database, a pod or the clock, keeps types.   *)
LEMMA TypeInductive == TypeOK /\ [Next]_vars => TypeOK'
<1>1. SUFFICES ASSUME TypeOK, Next PROVE TypeOK'
  BY DEF TypeOK, vars
<1>2. QED
  BY <1>1, EnqueueType, WorkerStepType, DbErrorStepType, PodStepType,
     TimeStepType DEF Next

(* An empty table and running pods have the types.                         *)
LEMMA TypeInit == Init => TypeOK
<1>1. AbsentRow \in Row
  BY DEF AbsentRow, Row
<1>2. QED
  BY <1>1 DEF Init, TypeOK, Phase, NoRun, Snapshot

(* The table, the loops and their snapshots always have their types; in    *)
(* particular attempts never exceeds max_attempts, however leases expire,  *)
(* pods die and database calls fail.                                       *)
THEOREM TypeCorrect == Spec => []TypeOK
<1>1. QED
  BY TypeInit, TypeInductive, PTL DEF Spec

-----------------------------------------------------------------------------
(***************************************************************************)
(* One delivery is one row. This needs no assumption about leases: keys    *)
(* are written by the insert alone. The invariant must add that a row in   *)
(* somebody's hands exists, since settling writes it without looking.      *)
(***************************************************************************)
HeldRowsExist ==
  \A w \in Worker : run[w].id # 0 => rows[run[w].id].status # "absent"

UniqueInv == TypeOK /\ HeldRowsExist /\ UniqueDelivery

(* No statement but the insert makes a row, unmakes one or changes a key.  *)
SameKeys ==
  \A i \in Ids : /\ rows'[i].key = rows[i].key
                 /\ rows'[i].status = "absent" <=> rows[i].status = "absent"

(* The row operations keep the key, and their result is never absent.      *)
LEMMA OperationsKeepKey ==
  ASSUME NEW r \in Row, NEW p \in Pods, NEW a \in 0..MaxAttempts,
         r.status # "absent"
  PROVE  \A x \in {CompletedRow(r), FailedRow(r, a), DeferredRow(r),
                   ExpiredFailedRow(r), RecoveredRow(r, p), LeasedRow(r, p)} :
           x.key = r.key /\ x.status # "absent"
<1>1. ASSUME NEW st \in {"queued", "completed", "failed"}
      PROVE  /\ Released(r, st).key = r.key
             /\ Released(r, st).status = st
             /\ Released(r, st) \in Row
  BY <1>1 DEF Released, Row
<1>2. ASSUME NEW s \in Row
      PROVE  [s EXCEPT !.due = FALSE].key = s.key
             /\ [s EXCEPT !.due = FALSE].status = s.status
  BY <1>2 DEF Row
<1>3. ASSUME NEW s \in Row, NEW n
      PROVE  [s EXCEPT !.attempts = n, !.due = FALSE].key = s.key
             /\ [s EXCEPT !.attempts = n, !.due = FALSE].status = s.status
  BY <1>3 DEF Row
<1>4. FailedRow(r, a).key = r.key /\ FailedRow(r, a).status # "absent"
  BY <1>1, <1>2 DEF FailedRow
<1>5. DeferredRow(r).key = r.key /\ DeferredRow(r).status # "absent"
  BY <1>1, <1>3 DEF DeferredRow
<1>6. RecoveredRow(r, p).key = r.key /\ RecoveredRow(r, p).status # "absent"
  BY DEF RecoveredRow, Row
<1>7. LeasedRow(r, p).key = r.key /\ LeasedRow(r, p).status # "absent"
  BY DEF LeasedRow, Row
<1>8. QED
  BY <1>1, <1>4, <1>5, <1>6, <1>7 DEF CompletedRow, ExpiredFailedRow

(* Overwriting one existing row by one with the same key keeps the keys.   *)
LEMMA OverwriteKeepsKeys ==
  ASSUME TypeOK, NEW i, NEW x, rows' = [rows EXCEPT ![i] = x],
         i \in Ids => x.key = rows[i].key
                     /\ (x.status = "absent" <=> rows[i].status = "absent")
  PROVE  SameKeys
  BY DEF SameKeys, TypeOK

(* A settling step writes an existing row, whose key it keeps.             *)
LEMMA SettleKeepsKeys ==
  ASSUME UniqueInv, NEW w \in Worker, NEW x, Settle(w, x),
         run[w].id \in Ids => x.key = rows[run[w].id].key /\ x.status # "absent"
  PROVE  SameKeys
<1>1. run[w].id \in Ids => rows[run[w].id].status # "absent"
  BY DEF UniqueInv, HeldRowsExist, Ids
<1>2. QED
  BY <1>1, OverwriteKeepsKeys DEF UniqueInv, Settle

(* The statements applied to the row in hand keep its key.                 *)
LEMMA HeldOperationsKeepKey ==
  ASSUME UniqueInv, NEW w \in Worker, run[w].id \in Ids
  PROVE  LET r == rows[run[w].id] IN
         \A x \in {CompletedRow(r), FailedRow(r, run[w].attempts),
                   DeferredRow(r), ExpiredFailedRow(r)} :
           x.key = r.key /\ x.status # "absent"
<1>1. rows[run[w].id] \in Row /\ rows[run[w].id].status # "absent"
  BY DEF UniqueInv, TypeOK, HeldRowsExist, Ids
<1>2. run[w].attempts \in 0..MaxAttempts /\ PodOf(w) \in Pods
  BY SnapshotParts, WorkerParts DEF UniqueInv
<1>3. QED
  BY <1>1, <1>2, OperationsKeepKey

(* Handing a row to a worker keeps its key, and the row exists.            *)
LEMMA LeaseKeepsKeys ==
  ASSUME TypeOK, NEW w \in Worker, NEW i \in Ids,
         \/ FirstLeasable(i, LaneOf(w))
            /\ rows' = [rows EXCEPT ![i] = LeasedRow(@, PodOf(w))]
         \/ ExpiredFinal(i)
            /\ rows' = [rows EXCEPT ![i] = RecoveredRow(@, PodOf(w))]
  PROVE  SameKeys /\ rows'[i].status # "absent"
<1>1. rows[i] \in Row /\ rows[i].status # "absent"
  BY DEF FirstLeasable, Leasable, ExpiredFinal, TypeOK
<1>2. \A x \in {RecoveredRow(rows[i], PodOf(w)), LeasedRow(rows[i], PodOf(w))} :
        x.key = rows[i].key /\ x.status # "absent"
  <2>1. 0 \in 0..MaxAttempts /\ PodOf(w) \in Pods
    BY WorkerParts
  <2>2. QED
    BY <1>1, <2>1, OperationsKeepKey
<1>3. PICK x : rows' = [rows EXCEPT ![i] = x] /\ x.key = rows[i].key
               /\ x.status # "absent"
  BY <1>2
<1>4. QED
  BY <1>1, <1>3, OverwriteKeepsKeys DEF TypeOK

(* The step of a loop keeps the keys, and whatever the loops hold after it *)
(* existed before it or was just leased.                                   *)
LEMMA WorkerStepUnique ==
  ASSUME UniqueInv, NEW w \in Worker, WorkerStep(w)
  PROVE  SameKeys /\ HeldRowsExist'
<1>1. ASSUME rows' = rows, run' = run PROVE SameKeys /\ HeldRowsExist'
  BY <1>1 DEF SameKeys, HeldRowsExist, UniqueInv
<1>2. ASSUME SameKeys, LetGo(w) PROVE HeldRowsExist'
  BY <1>2 DEF SameKeys, LetGo, NoRun, HeldRowsExist, UniqueInv, TypeOK, Snapshot
<1>3. ASSUME SameKeys, NEW i \in Ids, NEW n, rows'[i].status # "absent",
             run' = [run EXCEPT ![w] = [id |-> i, attempts |-> n]]
      PROVE  HeldRowsExist'
  BY <1>3 DEF SameKeys, HeldRowsExist, UniqueInv, TypeOK, Snapshot
<1>4. CASE BeginPoll(w) \/ NoExpiredFinal(w) \/ NothingToLease(w) \/ ExitLoop(w)
  BY <1>1, <1>4 DEF BeginPoll, NoExpiredFinal, NothingToLease, ExitLoop
<1>5. ASSUME NEW i \in Ids, LeaseExpiredFinal(w, i)
      PROVE  SameKeys /\ HeldRowsExist'
  <2>1. SameKeys /\ rows'[i].status # "absent"
    BY <1>5, LeaseKeepsKeys DEF LeaseExpiredFinal, UniqueInv
  <2>2. QED
    BY <1>3, <1>5, <2>1 DEF LeaseExpiredFinal
<1>6. ASSUME NEW i \in Ids, LeaseNext(w, i)
      PROVE  SameKeys /\ HeldRowsExist'
  <2>1. SameKeys /\ rows'[i].status # "absent"
    BY <1>6, LeaseKeepsKeys DEF LeaseNext, UniqueInv
  <2>2. QED
    BY <1>3, <1>6, <2>1 DEF LeaseNext
<1>7. ASSUME NEW x, Settle(w, x),
             run[w].id \in Ids => x.key = rows[run[w].id].key
                                   /\ x.status # "absent"
      PROVE  SameKeys /\ HeldRowsExist'
  BY <1>2, <1>7, SettleKeepsKeys DEF Settle
<1>8. CASE Complete(w)
  BY <1>7, <1>8, HeldOperationsKeepKey DEF Complete
<1>9. CASE Fail(w)
  BY <1>7, <1>9, HeldOperationsKeepKey DEF Fail
<1>10. CASE DeferForProviderCooldown(w)
  BY <1>7, <1>10, HeldOperationsKeepKey DEF DeferForProviderCooldown
<1>11. CASE DeferForTransientFailure(w)
  BY <1>7, <1>11, HeldOperationsKeepKey DEF DeferForTransientFailure
<1>12. CASE FailExpiredFinalAttempt(w)
  BY <1>7, <1>12, HeldOperationsKeepKey DEF FailExpiredFinalAttempt
<1>13. QED
  BY <1>4, <1>5, <1>6, <1>8, <1>9, <1>10, <1>11, <1>12 DEF WorkerStep

(* So do database errors, whether or not the statement was applied.        *)
LEMMA DbErrorStepUnique ==
  ASSUME UniqueInv, NEW w \in Worker, DbErrorStep(w)
  PROVE  SameKeys /\ HeldRowsExist'
<1>1. ASSUME SameKeys, \A v \in Worker : run'[v].id \in {0, run[v].id}
      PROVE  HeldRowsExist'
  BY <1>1 DEF SameKeys, HeldRowsExist, UniqueInv, TypeOK, Snapshot
<1>2. CASE LeaseLost(w)
  <2>1. SameKeys
    <3>1. CASE rows' = rows
      BY <3>1 DEF SameKeys
    <3>2. CASE \E i \in Ids : /\ FirstLeasable(i, LaneOf(w))
                              /\ rows' = [rows EXCEPT ![i] = LeasedRow(@, PodOf(w))]
      BY <3>2, LeaseKeepsKeys DEF UniqueInv
    <3>3. CASE \E i \in Ids : /\ ExpiredFinal(i)
                              /\ rows' = [rows EXCEPT ![i] = RecoveredRow(@, PodOf(w))]
      BY <3>3, LeaseKeepsKeys DEF UniqueInv
    <3>4. QED
      BY <1>2, <3>1, <3>2, <3>3 DEF LeaseLost
  <2>2. QED
    BY <1>1, <1>2, <2>1 DEF LeaseLost
<1>3. CASE CompleteThrows(w)
  <2>1. SameKeys
    <3>1. CASE rows' = rows
      BY <3>1 DEF SameKeys
    <3>2. CASE rows' = [rows EXCEPT ![run[w].id] = CompletedRow(@)]
      <4>1. run[w].id \in Ids => rows[run[w].id].status # "absent"
        BY DEF UniqueInv, HeldRowsExist, Ids
      <4>2. QED
        BY <3>2, <4>1, HeldOperationsKeepKey, OverwriteKeepsKeys DEF UniqueInv
    <3>3. QED
      BY <1>3, <3>1, <3>2 DEF CompleteThrows
  <2>2. QED
    BY <1>1, <1>3, <2>1 DEF CompleteThrows
<1>4. CASE SettleThrows(w)
  BY <1>1, <1>4 DEF SettleThrows, LetGo, NoRun, SameKeys, UniqueInv, TypeOK
<1>5. QED
  BY <1>2, <1>3, <1>4 DEF DbErrorStep

(* Pods come and go without touching a row, and take nothing up.           *)
LEMMA PodStepUnique ==
  ASSUME UniqueInv, NEW p \in Pods, PodStep(p)
  PROVE  SameKeys /\ HeldRowsExist'
<1>1. rows' = rows
  BY DEF PodStep, Stop, Exit, ForceExit, Crash, Restart, PodDown
<1>2. \A w \in Worker : run'[w].id \in {0, run[w].id}
  BY DEF PodStep, Stop, Exit, ForceExit, Crash, Restart, PodDown, NoRun,
         UniqueInv, TypeOK
<1>3. QED
  BY <1>1, <1>2 DEF SameKeys, HeldRowsExist, UniqueInv

(* The clock changes neither a key nor a status.                           *)
LEMMA TimeStepUnique ==
  ASSUME UniqueInv, NEW i \in Ids, TimeStep(i)
  PROVE  SameKeys /\ HeldRowsExist'
<1>1. rows[i] \in Row
  BY DEF UniqueInv, TypeOK
<1>2. PICK x : /\ rows' = [rows EXCEPT ![i] = x]
               /\ x.key = rows[i].key /\ x.status = rows[i].status
  <2>1. \A x \in {[rows[i] EXCEPT !.lease = "expired"],
                  [rows[i] EXCEPT !.due = TRUE],
                  [rows[i] EXCEPT !.young = FALSE]} :
          x.key = rows[i].key /\ x.status = rows[i].status
    BY <1>1 DEF Row
  <2>2. CASE LeaseExpires(i)
    BY <2>1, <2>2 DEF LeaseExpires
  <2>3. CASE BecomesDue(i)
    BY <2>1, <2>3 DEF BecomesDue
  <2>4. CASE RetryWindowCloses(i)
    BY <2>1, <2>4 DEF RetryWindowCloses
  <2>5. QED
    BY <2>2, <2>3, <2>4 DEF TimeStep
<1>3. SameKeys
  BY <1>2, OverwriteKeepsKeys DEF UniqueInv
<1>4. run' = run
  BY DEF TimeStep, LeaseExpires, BecomesDue, RetryWindowCloses
<1>5. QED
  BY <1>3, <1>4 DEF SameKeys, HeldRowsExist, UniqueInv, TypeOK, Snapshot

(* INSERT IGNORE makes a row only under a key no row has.                  *)
LEMMA EnqueueUnique ==
  ASSUME UniqueInv, NEW k \in Keys, NEW lane \in Lanes, NEW due \in BOOLEAN,
         Enqueue(k, lane, due)
  PROVE  HeldRowsExist' /\ UniqueDelivery'
<1>1. run' = run
  BY DEF Enqueue
<1>2. CASE KeyTaken(k)
  BY <1>1, <1>2 DEF Enqueue, InsertIgnore, HeldRowsExist, UniqueDelivery,
                    UniqueInv
<1>3. CASE ~KeyTaken(k)
  <2>1. PICK i \in Ids : /\ FreshId(i)
                         /\ rows' = [rows EXCEPT ![i] = NewRow(k, lane, due)]
    BY <1>3 DEF Enqueue, InsertIgnore
  <2>2. NewRow(k, lane, due).status = "queued" /\ NewRow(k, lane, due).key = k
    BY DEF NewRow, AbsentRow
  <2>3. HeldRowsExist'
    BY <1>1, <2>1, <2>2 DEF HeldRowsExist, FreshId, UniqueInv, TypeOK, Snapshot
  <2>4. UniqueDelivery'
    BY <1>3, <2>1, <2>2 DEF KeyTaken, UniqueDelivery, UniqueInv, TypeOK
  <2>5. QED
    BY <2>3, <2>4
<1>4. QED
  BY <1>2, <1>3

(* No step inserts a key twice or changes one.                             *)
LEMMA UniqueInductive == UniqueInv /\ [Next]_vars => UniqueInv'
<1> SUFFICES ASSUME UniqueInv, [Next]_vars PROVE UniqueInv'
  OBVIOUS
<1>1. TypeOK'
  BY TypeInductive DEF UniqueInv
<1>2. ASSUME SameKeys PROVE UniqueDelivery'
  BY <1>2 DEF SameKeys, UniqueDelivery, UniqueInv
<1>3. CASE UNCHANGED vars
  BY <1>1, <1>3 DEF vars, HeldRowsExist, UniqueDelivery, UniqueInv
<1>4. CASE Next
  BY <1>1, <1>2, <1>4, EnqueueUnique, WorkerStepUnique, DbErrorStepUnique,
     PodStepUnique, TimeStepUnique DEF Next, UniqueInv
<1>5. QED
  BY <1>3, <1>4

(* An empty table has no key twice.                                        *)
LEMMA UniqueInit == Init => UniqueInv
  BY TypeInit DEF Init, AbsentRow, NoRun, HeldRowsExist, UniqueDelivery,
                  UniqueInv

(* However often GitHub retries a delivery, and whichever pods receive it, *)
(* the table has one row for it, for ever.                                 *)
THEOREM DeliveriesAreUnique == Spec => []UniqueDelivery
<1>1. UniqueInv => UniqueDelivery
  BY DEF UniqueInv
<1>2. QED
  BY <1>1, UniqueInit, UniqueInductive, PTL DEF Spec

-----------------------------------------------------------------------------
(***************************************************************************)
(* What the queue guarantees when every lease outlives the run it covers:  *)
(* one worker per row, snapshots that are still true when they are used,   *)
(* no row out of reach of every query, nothing settled re-opened. None of  *)
(* the four is inductive alone; their conjunction, with the fact that the  *)
(* loops of a dead pod are off, is.                                        *)
(***************************************************************************)

OffWhenDown == \A w \in Worker : pod[PodOf(w)] = "down" => pc[w] = "off"

ExclusiveInv ==
  /\ TypeOK
  /\ OffWhenDown
  /\ OneWorkerPerRow
  /\ SnapshotIsCurrent
  /\ NoStrandedRow

-----------------------------------------------------------------------------
(* The conjuncts of SnapshotIsCurrent and NoStrandedRow, one worker and    *)
(* one row at a time.                                                      *)
SeesItsRow(w) ==
  /\ run[w].id # 0 <=> pc[w] \in Working
  /\ pc[w] \in Working =>
       LET r == rows[run[w].id] IN
       /\ r.attempts = run[w].attempts
       /\ \/ r.status = "running" /\ r.lease = "live" /\ r.owner = PodOf(w)
          \/ pc[w] = "failing" /\ r.status = "completed"

Reachable(r) ==
  /\ r.status = "queued" => r.attempts < MaxAttempts
  /\ r.status = "running" => r.lease # "none"

(* The invariant, spelled out by its parts.                                *)
LEMMA ExclusiveParts ==
  ExclusiveInv <=> /\ TypeOK
                   /\ OffWhenDown
                   /\ OneWorkerPerRow
                   /\ \A w \in Worker : SeesItsRow(w)
                   /\ \A i \in Ids : Reachable(rows[i])
  BY DEF ExclusiveInv, SnapshotIsCurrent, NoStrandedRow, SeesItsRow, Reachable

(* The same one step later.                                                *)
LEMMA NextExclusiveParts ==
  ASSUME TypeOK', OffWhenDown', OneWorkerPerRow',
         \A w \in Worker : SeesItsRow(w)', \A i \in Ids : Reachable(rows'[i])
  PROVE  ExclusiveInv'
  BY DEF ExclusiveInv, SnapshotIsCurrent, NoStrandedRow, SeesItsRow, Reachable

(* A worker that stands still and whose row is left alone keeps its view.  *)
LEMMA ViewKept ==
  ASSUME NEW w \in Worker, SeesItsRow(w), pc'[w] = pc[w], run'[w] = run[w],
         run[w].id # 0 => rows'[run[w].id] = rows[run[w].id]
  PROVE  SeesItsRow(w)'
  BY DEF SeesItsRow

(* A row a query may hand out is in nobody's hands.                        *)
LEMMA NotHeld ==
  ASSUME ExclusiveInv, NEW i \in Ids,
         ExpiredFinal(i) \/ (\E lane \in Lanes : Leasable(i, lane)),
         NEW w \in Worker
  PROVE  run[w].id # i
<1>1. SeesItsRow(w) /\ i # 0
  BY ExclusiveParts DEF Ids
<1>2. \/ rows[i].status = "queued"
      \/ rows[i].status = "running" /\ rows[i].lease = "expired"
  BY DEF ExpiredFinal, Leasable
<1>3. QED
  BY <1>1, <1>2 DEF SeesItsRow

(* A worker with a row in hand has an existing one.                        *)
LEMMA HeldId ==
  ASSUME ExclusiveInv, NEW w \in Worker, pc[w] \in Working
  PROVE  /\ run[w].id \in Ids
         /\ rows[run[w].id] \in Row
         /\ rows[run[w].id].attempts = run[w].attempts
  BY ExclusiveParts DEF SeesItsRow, TypeOK, Snapshot

-----------------------------------------------------------------------------
(* Letting go of the row in hand, whatever reachable row is written.       *)
LEMMA SettleExclusive ==
  ASSUME ExclusiveInv, TypeOK', NEW w \in Worker, pc[w] \in Working, NEW x,
         Reachable(x), Settle(w, x)
  PROVE  ExclusiveInv'
<1>1. run[w].id \in Ids
  BY HeldId
<1>2. rows' = [rows EXCEPT ![run[w].id] = x] /\ pod' = pod
  BY DEF Settle
<1>3. pc' = [pc EXCEPT ![w] = "idle"] /\ run' = [run EXCEPT ![w] = NoRun]
  BY DEF Settle, LetGo, Goto
<1>4. OffWhenDown'
  BY <1>2, <1>3, ExclusiveParts DEF OffWhenDown, TypeOK, Working
<1>5. OneWorkerPerRow'
  BY <1>3, ExclusiveParts DEF OneWorkerPerRow, TypeOK, NoRun
<1>6. ASSUME NEW v \in Worker PROVE SeesItsRow(v)'
  <2>1. CASE v = w
    BY <1>3, <2>1, ExclusiveParts DEF SeesItsRow, TypeOK, NoRun, Working
  <2>2. CASE v # w
    <3>1. run[v].id # 0 => run[v].id # run[w].id
      BY <2>2, ExclusiveParts DEF OneWorkerPerRow
    <3>2. pc'[v] = pc[v] /\ run'[v] = run[v]
      BY <1>3, <2>2, ExclusiveParts DEF TypeOK
    <3>3. run[v].id # 0 => rows'[run[v].id] = rows[run[v].id]
      BY <1>2, <3>1, ExclusiveParts, SnapshotParts DEF TypeOK
    <3>4. QED
      BY <3>2, <3>3, ViewKept, ExclusiveParts
  <2>3. QED
    BY <2>1, <2>2
<1>7. ASSUME NEW i \in Ids PROVE Reachable(rows'[i])
  BY <1>1, <1>2, ExclusiveParts DEF TypeOK
<1>8. QED
  BY <1>4, <1>5, <1>6, <1>7, NextExclusiveParts

(* Of all workers v alone goes to work, on the row x it has just leased.   *)
TakesUp(v, i, x) ==
  /\ run'[v].id = i /\ pc'[v] \in Working /\ run'[v].attempts = x.attempts
  /\ x.status = "running" /\ x.lease = "live" /\ x.owner = PodOf(v)
  /\ \A w \in Worker : w # v => run'[w] = run[w]

(* Writing a reachable row nobody holds, with or without taking it up.     *)
LEMMA FreeRowExclusive ==
  ASSUME ExclusiveInv, TypeOK', OffWhenDown', NEW i \in Ids, NEW x,
         Reachable(x), rows' = [rows EXCEPT ![i] = x],
         \A w \in Worker : run[w].id # i,
         \A v \in Worker :
           \/ /\ run'[v] = run[v]
              /\ pc'[v] \in Working <=> pc[v] \in Working
              /\ pc[v] \in Working => pc'[v] = pc[v]
           \/ TakesUp(v, i, x)
  PROVE  ExclusiveInv'
<1>1. OneWorkerPerRow'
  BY ExclusiveParts DEF OneWorkerPerRow, TakesUp
<1>2. ASSUME NEW v \in Worker PROVE SeesItsRow(v)'
  <2>1. rows'[i] = x /\ i # 0
    BY ExclusiveParts DEF TypeOK, Ids
  <2>2. run[v].id # 0 => rows'[run[v].id] = rows[run[v].id]
    BY ExclusiveParts, SnapshotParts DEF TypeOK
  <2>3. QED
    BY <2>1, <2>2, ExclusiveParts DEF SeesItsRow, TakesUp
<1>3. ASSUME NEW j \in Ids PROVE Reachable(rows'[j])
  BY ExclusiveParts DEF TypeOK
<1>4. QED
  BY <1>1, <1>2, <1>3, NextExclusiveParts

-----------------------------------------------------------------------------
(* What the row operations leave behind stays within reach of a query.     *)
LEMMA OperationsReachable ==
  ASSUME NEW r \in Row, NEW p \in Pods
  PROVE  /\ Reachable(CompletedRow(r))
         /\ Reachable(FailedRow(r, r.attempts))
         /\ Reachable(DeferredRow(r))
         /\ Reachable(ExpiredFailedRow(r))
<1>1. ASSUME NEW st \in {"queued", "completed", "failed"}
      PROVE  /\ Released(r, st).status = st
             /\ Released(r, st).attempts = r.attempts
             /\ Released(r, st) \in Row
  BY <1>1 DEF Released, Row
<1>2. Reachable(CompletedRow(r)) /\ Reachable(ExpiredFailedRow(r))
  BY <1>1 DEF CompletedRow, ExpiredFailedRow, Reachable
<1>3. ASSUME NEW s \in Row, NEW n
      PROVE  /\ [s EXCEPT !.due = FALSE].status = s.status
             /\ [s EXCEPT !.due = FALSE].attempts = s.attempts
             /\ [s EXCEPT !.attempts = n, !.due = FALSE].status = s.status
             /\ [s EXCEPT !.attempts = n, !.due = FALSE].attempts = n
  BY <1>3 DEF Row
<1>4. Reachable(FailedRow(r, r.attempts))
  BY <1>1, <1>3 DEF FailedRow, Reachable
<1>5. Reachable(DeferredRow(r))
  <2>1. r.attempts \in 0..MaxAttempts
    BY DEF Row
  <2>2. (IF r.attempts > 0 THEN r.attempts - 1 ELSE 0) < MaxAttempts
    BY <2>1
  <2>3. QED
    BY <1>1, <1>3, <2>2 DEF DeferredRow, Reachable
<1>6. QED
  BY <1>2, <1>4, <1>5

(* What a lease transaction leaves behind: running, live, owned by the pod *)
LEMMA LeaseOperations ==
  ASSUME NEW r \in Row, NEW p \in Pods
  PROVE  /\ LET x == LeasedRow(r, p) IN
            x.status = "running" /\ x.lease = "live" /\ x.owner = p
            /\ x.attempts = r.attempts + 1
         /\ r.status = "running" =>
              LET x == RecoveredRow(r, p) IN
              x.status = "running" /\ x.lease = "live" /\ x.owner = p
              /\ x.attempts = r.attempts
  BY DEF LeasedRow, RecoveredRow, Row

(* A loop leaves OffWhenDown alone: it moves only when it is not off.      *)
LEMMA MoveKeepsOff ==
  ASSUME ExclusiveInv, NEW w \in Worker, NEW phase, pod' = pod,
         pc[w] # "off", pc' = [pc EXCEPT ![w] = phase]
  PROVE  OffWhenDown'
  BY ExclusiveParts DEF OffWhenDown, TypeOK

(* A step that changes no row and takes nothing up.                        *)
LEMMA IdleExclusive ==
  ASSUME ExclusiveInv, TypeOK', OffWhenDown', rows' = rows,
         \A v \in Worker :
           \/ /\ run'[v] = run[v]
              /\ pc'[v] \in Working <=> pc[v] \in Working
              /\ pc[v] \in Working => pc'[v] = pc[v]
           \/ run'[v].id = 0 /\ pc'[v] \notin Working
  PROVE  ExclusiveInv'
<1>1. OneWorkerPerRow'
  BY ExclusiveParts DEF OneWorkerPerRow
<1>2. ASSUME NEW v \in Worker PROVE SeesItsRow(v)'
  BY ExclusiveParts DEF SeesItsRow
<1>3. ASSUME NEW j \in Ids PROVE Reachable(rows'[j])
  BY ExclusiveParts
<1>4. QED
  BY <1>1, <1>2, <1>3, NextExclusiveParts

(* A lease transaction, answered or lost.                                  *)
LEMMA LeaseExclusive ==
  ASSUME ExclusiveInv, TypeOK', NEW w \in Worker, NEW i \in Ids,
         pc[w] \in {"polling", "leasing"}, pod' = pod,
         \/ FirstLeasable(i, LaneOf(w))
            /\ rows' = [rows EXCEPT ![i] = LeasedRow(@, PodOf(w))]
         \/ ExpiredFinal(i)
            /\ rows' = [rows EXCEPT ![i] = RecoveredRow(@, PodOf(w))],
         pc' = [pc EXCEPT ![w] = pc'[w]],
         \/ /\ pc'[w] \in Working
            /\ run' = [run EXCEPT ![w] = [id |-> i,
                                         attempts |-> rows'[i].attempts]]
         \/ pc'[w] = "idle" /\ run' = run
  PROVE  ExclusiveInv'
<1> DEFINE x == rows'[i]
<1>0. /\ rows' = [rows EXCEPT ![i] = x]
      /\ \/ FirstLeasable(i, LaneOf(w)) /\ x = LeasedRow(rows[i], PodOf(w))
         \/ ExpiredFinal(i) /\ x = RecoveredRow(rows[i], PodOf(w))
  BY ExclusiveParts DEF TypeOK
<1> HIDE DEF x
<1>1. rows[i] \in Row /\ PodOf(w) \in Pods /\ LaneOf(w) \in Lanes
  BY ExclusiveParts, WorkerParts DEF TypeOK
<1>2. x.status = "running" /\ x.lease = "live" /\ x.owner = PodOf(w)
  BY <1>0, <1>1, LeaseOperations DEF ExpiredFinal
<1>3. Reachable(x)
  BY <1>2 DEF Reachable
<1>4. \A v \in Worker : run[v].id # i
  BY <1>0, <1>1, NotHeld DEF FirstLeasable
<1>5. OffWhenDown'
  BY MoveKeepsOff
<1>6. ASSUME NEW v \in Worker
      PROVE  \/ /\ run'[v] = run[v]
                /\ pc'[v] \in Working <=> pc[v] \in Working
                /\ pc[v] \in Working => pc'[v] = pc[v]
             \/ TakesUp(v, i, x)
  BY <1>2, ExclusiveParts DEF TypeOK, Working, TakesUp, x
<1>7. rows' = [rows EXCEPT ![i] = x]
  BY <1>0
<1>8. QED
  BY <1>3, <1>4, <1>5, <1>6, <1>7, FreeRowExclusive

-----------------------------------------------------------------------------
(* The steps of a loop keep the invariant.                                 *)
LEMMA WorkerStepExclusive ==
  ASSUME ExclusiveInv, TypeOK', NEW w \in Worker, WorkerStep(w)
  PROVE  ExclusiveInv'
<1> USE DEF Working
<1>1. ASSUME NEW phase, phase \notin Working, pc[w] \notin Working \cup {"off"},
             pc' = [pc EXCEPT ![w] = phase], UNCHANGED <<rows, pod, run>>
      PROVE  ExclusiveInv'
  <2>1. OffWhenDown'
    BY <1>1, MoveKeepsOff
  <2>2. QED
    BY <1>1, <2>1, IdleExclusive, ExclusiveParts DEF TypeOK
<1>2. ASSUME pc[w] \in Working, NEW x, Reachable(x), Settle(w, x)
      PROVE  ExclusiveInv'
  BY <1>2, SettleExclusive
<1>3. ASSUME pc[w] \in Working
      PROVE  LET r == rows[run[w].id] IN
             /\ Reachable(CompletedRow(r))
             /\ Reachable(FailedRow(r, run[w].attempts))
             /\ Reachable(DeferredRow(r))
             /\ Reachable(ExpiredFailedRow(r))
  <2>1. PodOf(w) \in Pods
    BY WorkerParts
  <2>2. QED
    BY <1>3, <2>1, HeldId, OperationsReachable
<1>4. CASE BeginPoll(w) \/ NoExpiredFinal(w) \/ NothingToLease(w) \/ ExitLoop(w)
  BY <1>1, <1>4 DEF BeginPoll, NoExpiredFinal, NothingToLease, ExitLoop, Goto
<1>5. ASSUME NEW i \in Ids, LeaseExpiredFinal(w, i) PROVE ExclusiveInv'
  <2>1. rows[i] \in Row /\ PodOf(w) \in Pods
    BY ExclusiveParts, WorkerParts DEF TypeOK
  <2>2. rows'[i].attempts = rows[i].attempts
    BY <1>5, <2>1, ExclusiveParts, LeaseOperations
       DEF LeaseExpiredFinal, ExpiredFinal, TypeOK
  <2>3. pc'[w] = "recovering" /\ pc' = [pc EXCEPT ![w] = pc'[w]]
    BY <1>5, ExclusiveParts DEF LeaseExpiredFinal, Goto, TypeOK
  <2>4. QED
    BY <1>5, <2>2, <2>3, LeaseExclusive DEF LeaseExpiredFinal
<1>6. ASSUME NEW i \in Ids, LeaseNext(w, i) PROVE ExclusiveInv'
  <2>1. rows[i] \in Row /\ PodOf(w) \in Pods
    BY ExclusiveParts, WorkerParts DEF TypeOK
  <2>2. rows'[i].attempts = rows[i].attempts + 1
    BY <1>6, <2>1, ExclusiveParts, LeaseOperations DEF LeaseNext, TypeOK
  <2>3. pc'[w] = "busy" /\ pc' = [pc EXCEPT ![w] = pc'[w]]
    BY <1>6, ExclusiveParts DEF LeaseNext, Goto, TypeOK
  <2>4. QED
    BY <1>6, <2>2, <2>3, LeaseExclusive DEF LeaseNext
<1>7. CASE Complete(w)
  BY <1>2, <1>3, <1>7 DEF Complete
<1>8. CASE Fail(w)
  BY <1>2, <1>3, <1>8 DEF Fail
<1>9. CASE DeferForProviderCooldown(w)
  BY <1>2, <1>3, <1>9 DEF DeferForProviderCooldown
<1>10. CASE DeferForTransientFailure(w)
  BY <1>2, <1>3, <1>10 DEF DeferForTransientFailure
<1>11. CASE FailExpiredFinalAttempt(w)
  BY <1>2, <1>3, <1>11 DEF FailExpiredFinalAttempt
<1>12. QED
  BY <1>4, <1>5, <1>6, <1>7, <1>8, <1>9, <1>10, <1>11 DEF WorkerStep

(* So do database errors, whether or not the statement was applied.        *)
LEMMA DbErrorStepExclusive ==
  ASSUME ExclusiveInv, TypeOK', NEW w \in Worker, DbErrorStep(w)
  PROVE  ExclusiveInv'
<1>1. CASE LeaseLost(w)
  <2>1. /\ pc[w] \in {"polling", "leasing"}
        /\ pc'[w] = "idle" /\ pod' = pod /\ run' = run
        /\ pc' = [pc EXCEPT ![w] = pc'[w]]
    BY <1>1, ExclusiveParts DEF LeaseLost, Goto, TypeOK
  <2>2. CASE rows' = rows
    <3>1. OffWhenDown'
      BY <2>1, MoveKeepsOff
    <3>2. QED
      BY <2>1, <2>2, <3>1, IdleExclusive, ExclusiveParts DEF TypeOK, Working
  <2>3. ASSUME NEW i \in Ids, FirstLeasable(i, LaneOf(w)),
               rows' = [rows EXCEPT ![i] = LeasedRow(@, PodOf(w))]
        PROVE  ExclusiveInv'
    BY <2>1, <2>3, LeaseExclusive
  <2>4. ASSUME NEW i \in Ids, ExpiredFinal(i),
               rows' = [rows EXCEPT ![i] = RecoveredRow(@, PodOf(w))]
        PROVE  ExclusiveInv'
    BY <2>1, <2>4, LeaseExclusive
  <2>5. QED
    BY <1>1, <2>2, <2>3, <2>4 DEF LeaseLost
<1>2. CASE CompleteThrows(w)
  <2>1. /\ pc[w] = "busy" /\ pod' = pod /\ run' = run
        /\ pc' = [pc EXCEPT ![w] = "failing"]
    BY <1>2 DEF CompleteThrows, Goto
  <2>2. PICK x : /\ rows' = [rows EXCEPT ![run[w].id] = x]
                 /\ Reachable(x)
                 /\ x.attempts = run[w].attempts
                 /\ \/ x.status = "running" /\ x.lease = "live"
                       /\ x.owner = PodOf(w)
                    \/ x.status = "completed"
    <3>1. rows[run[w].id] \in Row /\ run[w].id \in Ids /\ SeesItsRow(w)
      BY <2>1, HeldId, ExclusiveParts DEF Working
    <3>2. CASE rows' = rows
      <4>1. rows' = [rows EXCEPT ![run[w].id] = rows[run[w].id]]
        BY <3>2, ExclusiveParts DEF TypeOK
      <4>2. QED
        BY <2>1, <3>1, <4>1, ExclusiveParts DEF SeesItsRow, Working
    <3>3. CASE rows' = [rows EXCEPT ![run[w].id] = CompletedRow(@)]
      <4>1. /\ CompletedRow(rows[run[w].id]).status = "completed"
            /\ CompletedRow(rows[run[w].id]).attempts = rows[run[w].id].attempts
        BY <3>1 DEF CompletedRow, Released, Row
      <4>2. QED
        BY <2>1, <3>1, <3>3, <4>1 DEF SeesItsRow, Working, Reachable
    <3>4. QED
      BY <1>2, <3>2, <3>3 DEF CompleteThrows
  <2>3. OffWhenDown'
    BY <2>1, MoveKeepsOff
  <2>4. OneWorkerPerRow'
    BY <2>1, ExclusiveParts DEF OneWorkerPerRow
  <2>5. ASSUME NEW v \in Worker PROVE SeesItsRow(v)'
    <3>1. run[w].id \in Ids /\ rows'[run[w].id] = x
      BY <2>1, <2>2, HeldId, ExclusiveParts DEF TypeOK, Working
    <3>2. CASE v = w
      BY <2>1, <2>2, <3>1, <3>2, ExclusiveParts DEF SeesItsRow, TypeOK, Working
    <3>3. CASE v # w
      <4>1. run[v].id # 0 => rows'[run[v].id] = rows[run[v].id]
        BY <2>2, <3>3, ExclusiveParts, SnapshotParts DEF OneWorkerPerRow, TypeOK
      <4>2. pc'[v] = pc[v] /\ run'[v] = run[v]
        BY <2>1, <3>3, ExclusiveParts DEF TypeOK
      <4>3. QED
        BY <4>1, <4>2, ViewKept, ExclusiveParts
    <3>4. QED
      BY <3>2, <3>3
  <2>6. ASSUME NEW j \in Ids PROVE Reachable(rows'[j])
    BY <2>2, ExclusiveParts DEF TypeOK
  <2>7. QED
    BY <2>3, <2>4, <2>5, <2>6, NextExclusiveParts
<1>3. CASE SettleThrows(w)
  <2>1. /\ pc[w] \in Working /\ UNCHANGED <<rows, pod>>
        /\ pc' = [pc EXCEPT ![w] = "idle"] /\ run' = [run EXCEPT ![w] = NoRun]
    BY <1>3 DEF SettleThrows, LetGo, Goto, Working
  <2>2. OffWhenDown'
    BY <2>1, MoveKeepsOff DEF Working
  <2>3. QED
    BY <2>1, <2>2, IdleExclusive, ExclusiveParts DEF TypeOK, NoRun, Working
<1>4. QED
  BY <1>1, <1>2, <1>3 DEF DbErrorStep

(* So do the pods: one that goes down drops what its loops had in hand.    *)
LEMMA PodStepExclusive ==
  ASSUME ExclusiveInv, TypeOK', NEW p \in Pods, PodStep(p)
  PROVE  ExclusiveInv'
<1>1. ASSUME PodDown(p) PROVE ExclusiveInv'
  <2>1. OffWhenDown'
    BY <1>1, ExclusiveParts DEF PodDown, OffWhenDown, TypeOK
  <2>2. QED
    BY <1>1, <2>1, IdleExclusive, ExclusiveParts
       DEF PodDown, TypeOK, NoRun, Working
<1>2. CASE Stop(p)
  <2>1. OffWhenDown'
    BY <1>2, ExclusiveParts DEF Stop, OffWhenDown, TypeOK
  <2>2. QED
    BY <1>2, <2>1, IdleExclusive DEF Stop
<1>3. CASE Restart(p)
  <2>1. OffWhenDown'
    BY <1>3, ExclusiveParts DEF Restart, OffWhenDown, TypeOK
  <2>2. ASSUME NEW v \in Worker, PodOf(v) = p
        PROVE  pc[v] \notin Working /\ pc'[v] \notin Working
    BY <1>3, <2>2, ExclusiveParts DEF Restart, OffWhenDown, Working
  <2>3. ASSUME NEW v \in Worker, PodOf(v) # p
        PROVE  pc'[v] = pc[v]
    BY <1>3, <2>3 DEF Restart
  <2>4. QED
    BY <1>3, <2>1, <2>2, <2>3, IdleExclusive DEF Restart
<1>4. QED
  BY <1>1, <1>2, <1>3 DEF PodStep, Exit, ForceExit, Crash

(* A new row is queued, with its whole budget, and in nobody's hands.      *)
LEMMA EnqueueExclusive ==
  ASSUME ExclusiveInv, TypeOK', NEW k \in Keys, NEW lane \in Lanes,
         NEW due \in BOOLEAN, Enqueue(k, lane, due)
  PROVE  ExclusiveInv'
<1>1. UNCHANGED <<pod, pc, run>>
  BY DEF Enqueue
<1>2. OffWhenDown'
  BY <1>1, ExclusiveParts DEF OffWhenDown
<1>3. CASE KeyTaken(k)
  BY <1>1, <1>2, <1>3, IdleExclusive DEF Enqueue, InsertIgnore
<1>4. CASE ~KeyTaken(k)
  <2>1. PICK i \in Ids : /\ FreshId(i)
                         /\ rows' = [rows EXCEPT ![i] = NewRow(k, lane, due)]
    BY <1>4 DEF Enqueue, InsertIgnore
  <2>2. Reachable(NewRow(k, lane, due))
    BY DEF NewRow, AbsentRow, Reachable
  <2>3. \A w \in Worker : run[w].id # i
    BY <2>1, ExclusiveParts DEF FreshId, SeesItsRow, Ids
  <2>4. QED
    BY <1>1, <1>2, <2>1, <2>2, <2>3, FreeRowExclusive
<1>5. QED
  BY <1>3, <1>4

(* A held row loses its lease never, by the assumption, and neither due    *)
(* nor young is part of what a worker relies on.                           *)
LEMMA TimeStepExclusive ==
  ASSUME LeaseOutlivesRun, ExclusiveInv, TypeOK', NEW i \in Ids, TimeStep(i)
  PROVE  ExclusiveInv'
<1>1. UNCHANGED <<pod, pc, run>> /\ rows[i] \in Row
  BY ExclusiveParts
     DEF TimeStep, LeaseExpires, BecomesDue, RetryWindowCloses, TypeOK
<1>2. OffWhenDown'
  BY <1>1, ExclusiveParts DEF OffWhenDown
<1>3. CASE LeaseExpires(i)
  <2>1. \A w \in Worker : run[w].id # i
    BY <1>3 DEF LeaseExpires, Holds
  <2>2. Reachable([rows[i] EXCEPT !.lease = "expired"])
    BY <1>1, ExclusiveParts DEF Reachable, Row
  <2>3. rows' = [rows EXCEPT ![i] = [rows[i] EXCEPT !.lease = "expired"]]
    BY <1>3 DEF LeaseExpires
  <2>4. QED
    BY <1>1, <1>2, <2>1, <2>2, <2>3, FreeRowExclusive
<1>4. CASE BecomesDue(i) \/ RetryWindowCloses(i)
  <2>1. PICK x : /\ rows' = [rows EXCEPT ![i] = x]
                 /\ x.status = rows[i].status /\ x.lease = rows[i].lease
                 /\ x.attempts = rows[i].attempts /\ x.owner = rows[i].owner
    <3>1. \A x \in {[rows[i] EXCEPT !.due = TRUE],
                    [rows[i] EXCEPT !.young = FALSE]} :
            /\ x.status = rows[i].status /\ x.lease = rows[i].lease
            /\ x.attempts = rows[i].attempts /\ x.owner = rows[i].owner
      BY <1>1 DEF Row
    <3>2. QED
      BY <1>4, <3>1 DEF BecomesDue, RetryWindowCloses
  <2>2. \A j \in Ids : /\ rows'[j].status = rows[j].status
                       /\ rows'[j].lease = rows[j].lease
                       /\ rows'[j].attempts = rows[j].attempts
                       /\ rows'[j].owner = rows[j].owner
    BY <2>1, ExclusiveParts DEF TypeOK
  <2>3. OneWorkerPerRow'
    BY <1>1, ExclusiveParts DEF OneWorkerPerRow
  <2>4. ASSUME NEW v \in Worker PROVE SeesItsRow(v)'
    BY <1>1, <2>2, ExclusiveParts, HeldId DEF SeesItsRow
  <2>5. ASSUME NEW j \in Ids PROVE Reachable(rows'[j])
    BY <2>2, ExclusiveParts DEF Reachable
  <2>6. QED
    BY <1>2, <2>3, <2>4, <2>5, NextExclusiveParts
<1>5. QED
  BY <1>3, <1>4 DEF TimeStep

(* The invariant is inductive, if leases outlive runs.                     *)
LEMMA ExclusiveInductive ==
  LeaseOutlivesRun /\ ExclusiveInv /\ [Next]_vars => ExclusiveInv'
<1> SUFFICES ASSUME LeaseOutlivesRun, ExclusiveInv, [Next]_vars
             PROVE  ExclusiveInv'
  OBVIOUS
<1>1. TypeOK'
  BY TypeInductive DEF ExclusiveInv
<1>2. CASE UNCHANGED vars
  BY <1>1, <1>2 DEF vars, ExclusiveInv, OffWhenDown, OneWorkerPerRow,
                    SnapshotIsCurrent, NoStrandedRow
<1>3. CASE Next
  BY <1>1, <1>3, EnqueueExclusive, WorkerStepExclusive, DbErrorStepExclusive,
     PodStepExclusive, TimeStepExclusive DEF Next
<1>4. QED
  BY <1>2, <1>3

(* An empty table and idle loops satisfy it.                               *)
LEMMA ExclusiveInit == Init => ExclusiveInv
<1> SUFFICES ASSUME Init PROVE ExclusiveInv
  OBVIOUS
<1>1. TypeOK
  BY TypeInit
<1>2. OffWhenDown
  BY WorkerParts DEF Init, OffWhenDown
<1>3. OneWorkerPerRow /\ SnapshotIsCurrent
  BY DEF Init, OneWorkerPerRow, SnapshotIsCurrent, NoRun, Working
<1>4. NoStrandedRow
  BY DEF Init, AbsentRow, NoStrandedRow
<1>5. QED
  BY <1>1, <1>2, <1>3, <1>4 DEF ExclusiveInv

(* The invariant holds throughout, if leases outlive runs.                 *)
LEMMA ExclusiveAlways ==
  ASSUME LeaseOutlivesRun
  PROVE  Spec => []ExclusiveInv
<1>1. ExclusiveInv /\ [Next]_vars => ExclusiveInv'
  BY ExclusiveInductive
<1>2. QED
  BY <1>1, ExclusiveInit, PTL DEF Spec

-----------------------------------------------------------------------------
(* As long as leases outlive runs, two loops never work on one row.        *)
THEOREM RowsHaveOneWorker ==
  ASSUME LeaseOutlivesRun
  PROVE  Spec => []OneWorkerPerRow
<1>1. ExclusiveInv => OneWorkerPerRow
  BY DEF ExclusiveInv
<1>2. QED
  BY <1>1, ExclusiveAlways, PTL

(* As long as leases outlive runs, what a loop remembers of its row is     *)
(* true until it settles the row, so the unguarded statements are safe.    *)
THEOREM SnapshotsAreCurrent ==
  ASSUME LeaseOutlivesRun
  PROVE  Spec => []SnapshotIsCurrent
<1>1. ExclusiveInv => SnapshotIsCurrent
  BY DEF ExclusiveInv
<1>2. QED
  BY <1>1, ExclusiveAlways, PTL

(* As long as leases outlive runs, every unsettled row is within reach of  *)
(* one of the two lease queries, now or once the clock has advanced.       *)
THEOREM NoRowIsStranded ==
  ASSUME LeaseOutlivesRun
  PROVE  Spec => []NoStrandedRow
<1>1. ExclusiveInv => NoStrandedRow
  BY DEF ExclusiveInv
<1>2. QED
  BY <1>1, ExclusiveAlways, PTL

-----------------------------------------------------------------------------
(* The rows of one step: the only row whose status leaves completed or     *)
(* failed is the one a worker holds whose complete() threw.                *)
StaysSettled ==
  \A i \in Ids :
    (rows[i].status \in Settled /\ rows'[i].status # rows[i].status)
      => \E w \in Worker : pc[w] = "failing" /\ Holds(w, i)

(* The row a worker settles is running, or was completed without the       *)
(* worker learning of it.                                                  *)
LEMMA SettleStaysSettled ==
  ASSUME ExclusiveInv, NEW w \in Worker, pc[w] \in Working, NEW x,
         rows' = [rows EXCEPT ![run[w].id] = x]
  PROVE  StaysSettled
<1>1. \/ rows[run[w].id].status = "running"
      \/ pc[w] = "failing"
  BY ExclusiveParts DEF SeesItsRow
<1>2. \A i \in Ids : i # run[w].id => rows'[i] = rows[i]
  BY ExclusiveParts DEF TypeOK
<1>3. QED
  BY <1>1, <1>2 DEF StaysSettled, Holds, Settled

(* No step reopens a settled row but that of the uninformed worker.        *)
LEMMA StepStaysSettled ==
  ASSUME ExclusiveInv, [Next]_vars
  PROVE  StaysSettled
<1>1. ASSUME \A i \in Ids : rows[i].status \in Settled => rows'[i] = rows[i]
      PROVE  StaysSettled
  BY <1>1 DEF StaysSettled
<1>2. ASSUME NEW i \in Ids, rows[i].status \notin Settled, NEW x,
             rows' = [rows EXCEPT ![i] = x]
      PROVE  StaysSettled
  BY <1>1, <1>2, ExclusiveParts DEF TypeOK
<1>3. CASE UNCHANGED rows
  BY <1>1, <1>3
<1>4. ASSUME NEW k \in Keys, NEW lane \in Lanes, NEW due \in BOOLEAN,
             Enqueue(k, lane, due)
      PROVE  StaysSettled
  BY <1>2, <1>3, <1>4 DEF Enqueue, InsertIgnore, FreshId, Settled
<1>5. ASSUME NEW w \in Worker, WorkerStep(w)
      PROVE  StaysSettled
  <2>1. CASE UNCHANGED rows
    BY <1>3, <2>1
  <2>2. CASE \E i \in Ids : LeaseExpiredFinal(w, i) \/ LeaseNext(w, i)
    BY <1>2, <2>2 DEF LeaseExpiredFinal, ExpiredFinal, LeaseNext,
                      FirstLeasable, Leasable, Settled
  <2>3. CASE \E x : Settle(w, x) /\ pc[w] \in Working
    BY <2>3, SettleStaysSettled DEF Settle
  <2>4. QED
    BY <1>5, <2>1, <2>2, <2>3
       DEF WorkerStep, BeginPoll, NoExpiredFinal, NothingToLease, ExitLoop,
           Complete, Fail, DeferForProviderCooldown, DeferForTransientFailure,
           FailExpiredFinalAttempt, Working
<1>6. ASSUME NEW w \in Worker, DbErrorStep(w)
      PROVE  StaysSettled
  <2>1. CASE LeaseLost(w)
    BY <1>2, <1>3, <2>1 DEF LeaseLost, ExpiredFinal, FirstLeasable, Leasable,
                            Settled
  <2>2. CASE CompleteThrows(w)
    BY <1>3, <2>2, SettleStaysSettled DEF CompleteThrows, Working
  <2>3. CASE SettleThrows(w)
    BY <1>3, <2>3 DEF SettleThrows
  <2>4. QED
    BY <1>6, <2>1, <2>2, <2>3 DEF DbErrorStep
<1>7. ASSUME NEW p \in Pods, PodStep(p)
      PROVE  StaysSettled
  BY <1>3, <1>7 DEF PodStep, Stop, Exit, ForceExit, Crash, Restart, PodDown
<1>8. ASSUME NEW i \in Ids, TimeStep(i)
      PROVE  StaysSettled
  <2>1. rows[i] \in Row
    BY ExclusiveParts DEF TypeOK
  <2>2. CASE LeaseExpires(i)
    <3>1. [rows[i] EXCEPT !.lease = "expired"].status = rows[i].status
      BY <2>1 DEF Row
    <3>2. \A j \in Ids : rows'[j].status = rows[j].status
      BY <2>2, <3>1, ExclusiveParts DEF LeaseExpires, TypeOK
    <3>3. QED
      BY <3>2 DEF StaysSettled
  <2>3. CASE BecomesDue(i)
    BY <1>2, <2>3 DEF BecomesDue, Settled
  <2>4. CASE RetryWindowCloses(i)
    BY <1>2, <2>4 DEF RetryWindowCloses
  <2>5. QED
    BY <1>8, <2>2, <2>3, <2>4 DEF TimeStep
<1>9. QED
  BY <1>3, <1>4, <1>5, <1>6, <1>7, <1>8 DEF Next, vars

(* As long as leases outlive runs, a completed or failed row is re-opened  *)
(* only by the worker whose complete() was applied but reported an error.  *)
THEOREM SettledRowsStay ==
  ASSUME LeaseOutlivesRun
  PROVE  Spec => SettledIsFinal
<1>1. ExclusiveInv /\ [Next]_vars => [StaysSettled]_vars
  BY StepStaysSettled
<1>2. QED
  BY <1>1, ExclusiveAlways, PTL DEF Spec, SettledIsFinal, StaysSettled

-----------------------------------------------------------------------------
(***************************************************************************)
(* The engine implements the abstract queue. A row is held by the loop     *)
(* whose snapshot it is; that there is one such loop is the exclusion.     *)
(***************************************************************************)
RowPhase(r) == IF r.status = "absent" THEN "none"
               ELSE IF r.status \in Settled THEN "done"
               ELSE "pending"

LEMMA HeldJob ==
  ASSUME OneWorkerPerRow, NEW w \in Worker, NEW i \in Ids, Holds(w, i)
  PROVE  jobPhase[i] = "active" /\ jobHolder[i] = w
<1>1. i # 0 /\ w \in HeldBy(i)
  BY DEF Ids, HeldBy
<1>2. \A v \in Worker : Holds(v, i) => v = w
  BY <1>1 DEF OneWorkerPerRow, Holds
<1>3. (CHOOSE v \in Worker : Holds(v, i)) = w
  BY <1>2
<1>4. QED
  BY <1>1, <1>3 DEF jobPhase, jobHolder

LEMMA FreeJob ==
  ASSUME NEW i \in Ids, \A w \in Worker : ~Holds(w, i)
  PROVE  jobPhase[i] = RowPhase(rows[i]) /\ jobHolder[i] = Nobody
  BY DEF jobPhase, jobHolder, HeldBy, RowPhase

LEMMA NextHeldJob ==
  ASSUME OneWorkerPerRow', NEW w \in Worker, NEW i \in Ids, run'[w].id = i
  PROVE  jobPhase'[i] = "active" /\ jobHolder'[i] = w
<1>1. i # 0 /\ w \in HeldBy(i)'
  BY DEF Ids, HeldBy, Holds
<1>2. \A v \in Worker : run'[v].id = i => v = w
  BY <1>1 DEF OneWorkerPerRow
<1>3. (CHOOSE v \in Worker : run'[v].id = i) = w
  BY <1>2
<1>4. QED
  BY <1>1, <1>3 DEF jobPhase, jobHolder, Holds

LEMMA NextFreeJob ==
  ASSUME NEW i \in Ids, \A w \in Worker : run'[w].id # i
  PROVE  jobPhase'[i] = RowPhase(rows'[i]) /\ jobHolder'[i] = Nobody
  BY DEF jobPhase, jobHolder, HeldBy, RowPhase, Holds

LEMMA JobFunctions ==
  /\ jobPhase = [i \in Ids |-> jobPhase[i]] /\ jobHolder = [i \in Ids |-> jobHolder[i]]
  /\ jobPhase' = [i \in Ids |-> jobPhase'[i]] /\ jobHolder' = [i \in Ids |-> jobHolder'[i]]
  BY DEF jobPhase, jobHolder

(* Nobody takes or leaves a row, and a row that is free stays what it was. *)
LEMMA QueueStutters ==
  ASSUME OneWorkerPerRow, OneWorkerPerRow', \A w \in Worker : run'[w].id = run[w].id,
         \A i \in Ids : \/ RowPhase(rows'[i]) = RowPhase(rows[i])
                        \/ \E w \in Worker : Holds(w, i)
  PROVE  UNCHANGED Abstract!jobVars
<1>1. ASSUME NEW i \in Ids PROVE jobPhase'[i] = jobPhase[i] /\ jobHolder'[i] = jobHolder[i]
  <2>1. ASSUME NEW w \in Worker, Holds(w, i)
        PROVE  jobPhase'[i] = jobPhase[i] /\ jobHolder'[i] = jobHolder[i]
    BY <2>1, HeldJob, NextHeldJob DEF Holds
  <2>2. ASSUME \A w \in Worker : ~Holds(w, i)
        PROVE  jobPhase'[i] = jobPhase[i] /\ jobHolder'[i] = jobHolder[i]
    BY <2>2, FreeJob, NextFreeJob DEF Holds
  <2>3. QED
    BY <2>1, <2>2
<1>2. jobPhase' = jobPhase /\ jobHolder' = jobHolder
  BY <1>1, JobFunctions
<1>3. QED
  BY <1>2 DEF Abstract!jobVars

(* One job changes, the others do not.                                     *)
LEMMA OneJobChanges ==
  ASSUME NEW i \in Ids, NEW ph, NEW h,
         jobPhase'[i] = ph, jobHolder'[i] = h,
         \A j \in Ids \ {i} : jobPhase'[j] = jobPhase[j] /\ jobHolder'[j] = jobHolder[j]
  PROVE  /\ jobPhase' = [jobPhase EXCEPT ![i] = ph]
         /\ jobHolder' = [jobHolder EXCEPT ![i] = h]
  BY JobFunctions

(* A row nobody touches is the same job.                                   *)
LEMMA SameJob ==
  ASSUME OneWorkerPerRow, OneWorkerPerRow', NEW j \in Ids, rows'[j] = rows[j],
         \A w \in Worker : run'[w].id = j <=> run[w].id = j
  PROVE  jobPhase'[j] = jobPhase[j] /\ jobHolder'[j] = jobHolder[j]
<1>1. ASSUME NEW w \in Worker, Holds(w, j)
      PROVE  jobPhase'[j] = jobPhase[j] /\ jobHolder'[j] = jobHolder[j]
  BY <1>1, HeldJob, NextHeldJob DEF Holds
<1>2. ASSUME \A w \in Worker : ~Holds(w, j)
      PROVE  jobPhase'[j] = jobPhase[j] /\ jobHolder'[j] = jobHolder[j]
  BY <1>2, FreeJob, NextFreeJob DEF Holds
<1>3. QED
  BY <1>1, <1>2

(* An insert submits a job.                                                *)
LEMMA EnqueueSubmits ==
  ASSUME ExclusiveInv, ExclusiveInv', NEW k, NEW lane, NEW due, Enqueue(k, lane, due)
  PROVE  (\E i \in Ids : Abstract!Submit(i)) \/ UNCHANGED Abstract!jobVars
<1>1. OneWorkerPerRow /\ OneWorkerPerRow' /\ run' = run /\ TypeOK
  BY DEF ExclusiveInv, Enqueue
<1>2. CASE rows' = rows
  BY <1>1, <1>2, QueueStutters
<1>3. CASE rows' # rows
  <2>1. PICK i \in Ids : FreshId(i) /\ rows' = [rows EXCEPT ![i] = NewRow(k, lane, due)]
    BY <1>3 DEF Enqueue, InsertIgnore
  <2>2. \A w \in Worker : ~Holds(w, i)
    <3>1. rows[i].status = "absent" /\ i # 0
      BY <2>1 DEF FreshId, Ids
    <3>2. QED
      BY <3>1, ExclusiveParts DEF Holds, SeesItsRow
  <2>3. jobPhase[i] = "none" /\ jobHolder[i] = Nobody
    BY <2>1, <2>2, FreeJob DEF FreshId, RowPhase
  <2>4. jobPhase'[i] = "pending" /\ jobHolder'[i] = Nobody
    <3>1. rows'[i].status = "queued"
      BY <1>1, <2>1 DEF TypeOK, NewRow, AbsentRow
    <3>2. QED
      BY <1>1, <2>2, <3>1, NextFreeJob DEF Holds, RowPhase, Settled
  <2>5. \A j \in Ids \ {i} : jobPhase'[j] = jobPhase[j] /\ jobHolder'[j] = jobHolder[j]
    BY <1>1, <2>1, SameJob DEF TypeOK
  <2>6. /\ jobPhase' = [jobPhase EXCEPT ![i] = "pending"]
        /\ jobHolder' = [jobHolder EXCEPT ![i] = Nobody]
    BY <2>4, <2>5, OneJobChanges
  <2>7. jobHolder' = jobHolder
    BY <2>3, <2>4, <2>5, JobFunctions
  <2>8. QED
    BY <2>3, <2>6, <2>7 DEF Abstract!Submit
<1>4. QED
  BY <1>2, <1>3

(* A lease takes one.                                                      *)
LEMMA LeaseTakes ==
  ASSUME ExclusiveInv, ExclusiveInv', NEW w \in Worker, NEW i \in Ids,
         LeaseNext(w, i) \/ LeaseExpiredFinal(w, i)
  PROVE  Abstract!Take(i, w)
<1>1. OneWorkerPerRow /\ OneWorkerPerRow' /\ TypeOK /\ SeesItsRow(w)
  BY ExclusiveParts DEF ExclusiveInv
<1>2. ExpiredFinal(i) \/ \E lane \in Lanes : Leasable(i, lane)
  BY WorkerParts DEF LeaseNext, LeaseExpiredFinal, FirstLeasable
<1>3. \A v \in Worker : ~Holds(v, i)
  BY <1>2, NotHeld DEF Holds
<1>4. run'[w].id = i /\ run[w].id = 0 /\ \A v \in Worker \ {w} : run'[v] = run[v]
  BY <1>1 DEF LeaseNext, LeaseExpiredFinal, TypeOK, SeesItsRow, Working
<1>5. \A j \in Ids \ {i} : rows'[j] = rows[j]
  BY <1>1 DEF LeaseNext, LeaseExpiredFinal, TypeOK
<1>6. jobPhase[i] = "pending"
  <2>1. rows[i].status \in {"queued", "running"}
    BY <1>2 DEF ExpiredFinal, Leasable
  <2>2. QED
    BY <1>3, <2>1, FreeJob DEF RowPhase, Settled
<1>7. jobPhase'[i] = "active" /\ jobHolder'[i] = w
  BY <1>1, <1>4, NextHeldJob
<1>8. \A j \in Ids \ {i} : jobPhase'[j] = jobPhase[j] /\ jobHolder'[j] = jobHolder[j]
  BY <1>1, <1>4, <1>5, SameJob DEF Ids
<1>9. /\ jobPhase' = [jobPhase EXCEPT ![i] = "active"]
      /\ jobHolder' = [jobHolder EXCEPT ![i] = w]
  BY <1>7, <1>8, OneJobChanges
<1>10. QED
  BY <1>6, <1>9 DEF Abstract!Take

(* Jobs are given back: those of a set, by the loops that had them.        *)
LEMMA Releases ==
  ASSUME OneWorkerPerRow, OneWorkerPerRow', NEW S \in SUBSET Ids, S # {},
         \A i \in S : (\E w \in Worker : Holds(w, i)) /\ rows'[i].status # "absent",
         \A i \in S, w \in Worker : run'[w].id # i,
         \A j \in Ids \ S : rows'[j] = rows[j] /\ \A w \in Worker : run'[w].id = j <=> run[w].id = j
  PROVE  Abstract!Release(S)
<1>1. \A i \in S : jobPhase[i] = "active"
  BY HeldJob
<1>2. \A i \in S : jobPhase'[i] = RowPhase(rows'[i]) /\ jobHolder'[i] = Nobody
  BY NextFreeJob
<1>3. \A j \in Ids \ S : jobPhase'[j] = jobPhase[j] /\ jobHolder'[j] = jobHolder[j]
  BY SameJob
<1>4. jobHolder' = [j \in Ids |-> IF j \in S THEN Nobody ELSE jobHolder[j]]
  BY <1>2, <1>3, JobFunctions
<1> DEFINE done == {i \in S : rows'[i].status \in Settled}
<1>5. \A j \in Ids : jobPhase'[j] = IF j \notin S THEN jobPhase[j]
                                   ELSE IF j \in done THEN "done" ELSE "pending"
  BY <1>2, <1>3 DEF RowPhase
<1>6. jobPhase' = [j \in Ids |-> IF j \notin S THEN jobPhase[j]
                                 ELSE IF j \in done THEN "done" ELSE "pending"]
  BY <1>5, JobFunctions
<1>7. done \in SUBSET S
  OBVIOUS
<1>8. QED
  BY <1>1, <1>4, <1>6, <1>7 DEF Abstract!Release

(* Settling gives the row back, and so does an error of that statement.    *)
LEMMA SettleReleases ==
  ASSUME ExclusiveInv, ExclusiveInv', SameKeys, NEW w \in Worker, pc[w] \in Working,
         run' = [run EXCEPT ![w] = NoRun],
         rows' = rows \/ \E x : rows' = [rows EXCEPT ![run[w].id] = x]
  PROVE  Abstract!Release({run[w].id})
<1> DEFINE i == run[w].id
<1>1. OneWorkerPerRow /\ OneWorkerPerRow' /\ TypeOK /\ SeesItsRow(w) /\ i \in Ids
  BY HeldId, ExclusiveParts DEF ExclusiveInv
<1>2. Holds(w, i) /\ i # 0
  BY <1>1 DEF Holds, Ids
<1>3. \A v \in Worker \ {w} : run[v].id # i /\ run'[v] = run[v]
  BY <1>1, <1>2 DEF OneWorkerPerRow, TypeOK
<1>4. run'[w].id = 0
  BY <1>1 DEF TypeOK, NoRun
<1>5. \A v \in Worker : run'[v].id # i
  BY <1>2, <1>3, <1>4
<1>6. \A j \in Ids \ {i} : rows'[j] = rows[j]
  BY <1>1 DEF TypeOK
<1>7. \A j \in Ids \ {i}, v \in Worker : run'[v].id = j <=> run[v].id = j
  BY <1>1, <1>3, <1>4 DEF Ids
<1>8. rows'[i].status # "absent"
  BY <1>1 DEF SeesItsRow, SameKeys
<1>9. QED
  BY <1>1, <1>2, <1>5, <1>6, <1>7, <1>8, Releases

(* A pod that goes down gives back all its loops had, if they had anything. *)
LEMMA PodDownReleases ==
  ASSUME ExclusiveInv, ExclusiveInv', NEW p \in Pods, PodDown(p)
  PROVE  (\E S \in SUBSET Ids : Abstract!Release(S)) \/ UNCHANGED Abstract!jobVars
<1> DEFINE S == {i \in Ids : \E w \in Worker : PodOf(w) = p /\ Holds(w, i)}
<1>1. OneWorkerPerRow /\ OneWorkerPerRow' /\ TypeOK /\ rows' = rows
  BY DEF ExclusiveInv, PodDown
<1>2. ASSUME NEW v \in Worker
      PROVE  run'[v].id = IF PodOf(v) = p THEN 0 ELSE run[v].id
  BY DEF PodDown, NoRun
<1>3. ASSUME NEW i \in S, NEW v \in Worker PROVE run'[v].id # i
  <2>1. PICK w \in Worker : PodOf(w) = p /\ run[w].id = i
    BY DEF Holds
  <2>2. i # 0
    BY DEF Ids
  <2>3. v # w => run[v].id # i
    BY <1>1, <2>1, <2>2 DEF OneWorkerPerRow
  <2>4. QED
    BY <1>2, <2>1, <2>2, <2>3
<1>4. ASSUME NEW j \in Ids \ S, NEW v \in Worker
      PROVE  run'[v].id = j <=> run[v].id = j
  BY <1>2 DEF Holds, Ids
<1>5. ASSUME NEW i \in S PROVE rows'[i].status # "absent"
  <2>1. PICK w \in Worker : run[w].id = i
    BY DEF Holds
  <2>2. SeesItsRow(w) /\ i # 0
    BY ExclusiveParts DEF Ids
  <2>3. QED
    BY <1>1, <2>1, <2>2 DEF SeesItsRow
<1>6. CASE S # {}
  <2>1. \A i \in S : \E w \in Worker : Holds(w, i)
    OBVIOUS
  <2>2. S \in SUBSET Ids
    OBVIOUS
  <2> HIDE DEF S
  <2>3. Abstract!Release(S)
    BY <1>1, <1>3, <1>4, <1>5, <1>6, <2>1, <2>2, Releases
  <2>4. QED
    BY <2>2, <2>3
<1>7. CASE S = {}
  <2>1. \A w \in Worker : run'[w].id = run[w].id
    BY <1>1, <1>2, <1>7, SnapshotParts DEF Holds
  <2>2. QED
    BY <1>1, <2>1, QueueStutters
<1>8. QED
  BY <1>6, <1>7

(* A step of a loop takes a job, gives one back, or is none of the queue's *)
(* business.                                                               *)
LEMMA WorkerStepImplements ==
  ASSUME ExclusiveInv, ExclusiveInv', UniqueInv, NEW w \in Worker, WorkerStep(w)
  PROVE  Abstract!Next \/ UNCHANGED Abstract!jobVars
<1>1. OneWorkerPerRow /\ OneWorkerPerRow' /\ SameKeys
  BY WorkerStepUnique DEF ExclusiveInv
<1>2. ASSUME rows' = rows, run' = run
      PROVE  UNCHANGED Abstract!jobVars
  BY <1>1, <1>2, QueueStutters
<1>3. ASSUME NEW i \in Ids, LeaseExpiredFinal(w, i) \/ LeaseNext(w, i)
      PROVE  Abstract!Next
  BY <1>3, LeaseTakes DEF Abstract!Next
<1>4. ASSUME pc[w] \in Working, NEW x, Settle(w, x)
      PROVE  Abstract!Next
  <2>1. Abstract!Release({run[w].id}) /\ run[w].id \in Ids
    BY <1>1, <1>4, SettleReleases, HeldId DEF Settle, LetGo
  <2>2. QED
    BY <2>1 DEF Abstract!Next
<1>5. QED
  BY <1>2, <1>3, <1>4
     DEF WorkerStep, BeginPoll, NoExpiredFinal, NothingToLease, ExitLoop,
         Complete, Fail, DeferForProviderCooldown, DeferForTransientFailure,
         FailExpiredFinalAttempt, Working

(* So is an error: a lease that was applied unheard leaves the job waiting,*)
(* a complete() that was is heard of by the loop that still has the job.   *)
LEMMA DbErrorStepImplements ==
  ASSUME ExclusiveInv, ExclusiveInv', UniqueInv, NEW w \in Worker, DbErrorStep(w)
  PROVE  Abstract!Next \/ UNCHANGED Abstract!jobVars
<1>1. OneWorkerPerRow /\ OneWorkerPerRow' /\ SameKeys /\ TypeOK
  BY DbErrorStepUnique DEF ExclusiveInv
<1>2. CASE LeaseLost(w)
  <2>1. run' = run
    BY <1>2 DEF LeaseLost
  <2>2. CASE rows' = rows
    BY <1>1, <2>1, <2>2, QueueStutters
  <2>3. ASSUME NEW i \in Ids, NEW x, rows' = [rows EXCEPT ![i] = x],
               rows[i].status \in {"queued", "running"}, x.status = "running"
        PROVE  UNCHANGED Abstract!jobVars
    <3>1. RowPhase(rows'[i]) = RowPhase(rows[i])
      BY <1>1, <2>3 DEF TypeOK, RowPhase, Settled
    <3>2. \A j \in Ids : RowPhase(rows'[j]) = RowPhase(rows[j])
      BY <1>1, <2>3, <3>1 DEF TypeOK
    <3>3. QED
      BY <1>1, <2>1, <3>2, QueueStutters
  <2>4. ASSUME NEW i \in Ids, FirstLeasable(i, LaneOf(w)) \/ ExpiredFinal(i)
        PROVE  /\ rows[i].status \in {"queued", "running"}
               /\ LeasedRow(rows[i], PodOf(w)).status = "running"
               /\ ExpiredFinal(i) => RecoveredRow(rows[i], PodOf(w)).status = "running"
    <3>1. rows[i] \in Row /\ PodOf(w) \in Pods
      BY <1>1, WorkerParts DEF TypeOK
    <3>2. rows[i].status \in {"queued", "running"}
          /\ (ExpiredFinal(i) => rows[i].status = "running")
      BY <2>4 DEF FirstLeasable, Leasable, ExpiredFinal
    <3>3. QED
      BY <3>1, <3>2, LeaseOperations
  <2>5. QED
    BY <1>2, <2>2, <2>3, <2>4 DEF LeaseLost
<1>3. CASE CompleteThrows(w)
  <2>1. run' = run /\ run[w].id \in Ids /\ Holds(w, run[w].id)
    BY <1>3, HeldId DEF CompleteThrows, Working, Holds
  <2>2. \A j \in Ids \ {run[w].id} : rows'[j] = rows[j]
    BY <1>1, <1>3, <2>1 DEF CompleteThrows, TypeOK
  <2>3. QED
    BY <1>1, <2>1, <2>2, QueueStutters
<1>4. CASE SettleThrows(w)
  <2>1. Abstract!Release({run[w].id}) /\ run[w].id \in Ids
    BY <1>1, <1>4, SettleReleases, HeldId DEF SettleThrows, LetGo, Working
  <2>2. QED
    BY <2>1 DEF Abstract!Next
<1>5. QED
  BY <1>2, <1>3, <1>4 DEF DbErrorStep

(* The clock never makes a job another one.                                *)
LEMMA TimeStepImplements ==
  ASSUME ExclusiveInv, ExclusiveInv', NEW i \in Ids, TimeStep(i)
  PROVE  UNCHANGED Abstract!jobVars
<1>1. OneWorkerPerRow /\ OneWorkerPerRow' /\ TypeOK /\ run' = run
  BY DEF ExclusiveInv, TimeStep, LeaseExpires, BecomesDue, RetryWindowCloses
<1>2. \A j \in Ids : rows'[j].status = rows[j].status
  BY <1>1 DEF TimeStep, LeaseExpires, BecomesDue, RetryWindowCloses, TypeOK, Row
<1>3. \A j \in Ids : RowPhase(rows'[j]) = RowPhase(rows[j])
  BY <1>2 DEF RowPhase
<1>4. QED
  BY <1>1, <1>3, QueueStutters

(* Every step of the engine is a step of the abstract queue or none at all.*)
LEMMA StepImplements ==
  ASSUME ExclusiveInv, ExclusiveInv', UniqueInv, [Next]_vars
  PROVE  [Abstract!Next]_(Abstract!jobVars)
<1>1. OneWorkerPerRow /\ OneWorkerPerRow'
  BY DEF ExclusiveInv
<1>2. CASE UNCHANGED vars
  BY <1>1, <1>2, QueueStutters DEF vars
<1>3. ASSUME NEW k \in Keys, NEW lane \in Lanes, NEW due \in BOOLEAN,
             Enqueue(k, lane, due)
      PROVE  [Abstract!Next]_(Abstract!jobVars)
  BY <1>3, EnqueueSubmits DEF Abstract!Next
<1>4. ASSUME NEW w \in Worker, WorkerStep(w) \/ DbErrorStep(w)
      PROVE  [Abstract!Next]_(Abstract!jobVars)
  BY <1>4, WorkerStepImplements, DbErrorStepImplements
<1>5. ASSUME NEW p \in Pods, PodStep(p)
      PROVE  [Abstract!Next]_(Abstract!jobVars)
  <2>1. CASE PodDown(p)
    BY <2>1, PodDownReleases DEF Abstract!Next
  <2>2. CASE rows' = rows /\ run' = run
    BY <1>1, <2>2, QueueStutters
  <2>3. QED
    BY <1>5, <2>1, <2>2 DEF PodStep, Stop, Exit, ForceExit, Crash, Restart
<1>6. ASSUME NEW i \in Ids, TimeStep(i)
      PROVE  [Abstract!Next]_(Abstract!jobVars)
  BY <1>6, TimeStepImplements
<1>7. QED
  BY <1>2, <1>3, <1>4, <1>5, <1>6 DEF Next

(* An empty table is an empty queue.                                       *)
LEMMA InitImplements == Init => Abstract!Init
<1> SUFFICES ASSUME Init PROVE Abstract!Init
  OBVIOUS
<1>1. \A i \in Ids, w \in Worker : ~Holds(w, i)
  BY DEF Init, NoRun, Holds, Ids
<1>2. \A i \in Ids : RowPhase(rows[i]) = "none"
  BY DEF Init, AbsentRow, RowPhase
<1>3. \A i \in Ids : jobPhase[i] = "none" /\ jobHolder[i] = Nobody
  BY <1>1, <1>2, FreeJob
<1>4. QED
  BY <1>3, JobFunctions DEF Abstract!Init

(* As long as leases outlive runs, the table with its leases, attempts,    *)
(* retries, crashes and lost acknowledgements is a durable queue: a job    *)
(* has one holder at a time, is taken only while it waits, and is never    *)
(* taken again once it is done.                                            *)
THEOREM EngineIsADurableQueue ==
  ASSUME LeaseOutlivesRun
  PROVE  Spec => ImplementsDurableJobs
<1>1. UniqueInv /\ [Next]_vars => UniqueInv'
  BY UniqueInductive
<1>2. ExclusiveInv /\ ExclusiveInv' /\ UniqueInv /\ [Next]_vars
        => [Abstract!Next]_(Abstract!jobVars)
  BY StepImplements
<1>3. QED
  BY <1>1, <1>2, UniqueInit, InitImplements, ExclusiveAlways, PTL
     DEF Spec, ImplementsDurableJobs, Abstract!Spec
=============================================================================
