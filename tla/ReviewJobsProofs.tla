-------------------------- MODULE ReviewJobsProofs --------------------------
(***************************************************************************)
(* Theorems about ReviewJobs, for every number of requests, pods, pushes,  *)
(* check runs, rechecks and faults.                                        *)
(***************************************************************************)
EXTENDS ReviewJobs, WorkflowEngineProofs, FiniteSetTheorems

USE MaxAttemptsAssumption, MaxRowsAssumption, RequestKeys, RequestShape,
    StandardLane, ReviewBounds

-----------------------------------------------------------------------------
(***************************************************************************)
(* The handler refines the busy phase: every step is one of the queue or   *)
(* leaves it alone. That needs the shape of a job, which says what its     *)
(* place in the handler implies: a recheck is scheduled only under a key   *)
(* of the bounds, and a verdict is published only once there is one.       *)
(***************************************************************************)
ReviewPlaces == {"ignore", "context", "target", "find", "create", "record", "closed",
                 "conflict", "think", "verdict", "publish", "ledger", "republish"}

Shaped(j) ==
  /\ j.at \in ReviewPlaces => j.try = 0
  /\ j.at \in {"publish", "ledger", "republish"} => j.verdict # "none"
  /\ j.at \in {"record", "register", "recheck", "wait", "schedule"} => j.check # NoCheck
  /\ j.at \in {"wait", "schedule"} => j.head # 0 /\ j.try < MaxRechecks
  /\ j.at = "approve" => j.head # 0

RowKeysKnown ==
  \A i \in Ids : rows[i].status # "absent" => rows[i].key \in Requests \cup RecheckKeys

ShapeInv ==
  /\ ReviewTypeOK
  /\ UniqueInv
  /\ RowKeysKnown
  /\ \A w \in Worker : Shaped(job[w])

-----------------------------------------------------------------------------
(* A step of the queue is one of the engine.                               *)
LEMMA QueueStepIsNext == QueueStep => Next /\ FollowQueue
  BY DEF QueueStep, Polls, Settles, Next, WorkerStep, DbErrorStep

(* A job asked for is enqueued; nothing else is.                           *)
LEMMA RequestIsNext ==
  ASSUME NEW k \in Requests, RequestJob(k)
  PROVE  /\ Next /\ FollowQueue
         /\ Enqueue(k, "standard", TRUE) /\ k \in Keys
  BY DEF RequestJob, Next

(* The key of the recheck a waiting job schedules is one of the bounds.    *)
LEMMA NextRecheckKey ==
  ASSUME NEW w \in Worker, job[w] \in Job, Shaped(job[w]), StandsAt(w, "schedule")
  PROVE  NextRecheck(w) \in RecheckKeys
<1>1. /\ job[w].check \in CheckIds /\ job[w].head \in Heads
      /\ job[w].try \in 0..MaxRechecks /\ job[w].try < MaxRechecks
  BY DEF Shaped, StandsAt, Job, NoCheck, CheckIds
<1>2. job[w].try + 1 \in 1..MaxRechecks
  BY <1>1
<1>3. QED
  BY <1>1, <1>2 DEF NextRecheck, RecheckKeys

LEMMA ScheduleIsNext ==
  ASSUME NEW w \in Worker, job[w] \in Job, Shaped(job[w]), StandsAt(w, "schedule"),
         EnqueuesRecheck(w)
  PROVE  Next
<1>1. NextRecheck(w) \in Keys
  BY NextRecheckKey
<1>2. QED
  BY <1>1 DEF EnqueuesRecheck, Next

(* Every step of the handler but that of scheduling leaves the queue alone.*)
LEMMA HandlerOnQueue ==
  ASSUME NEW w \in Worker, HandlerStep(w)
  PROVE  UNCHANGED vars \/ Schedule(w)
  BY DEF HandlerStep, Ignore, ReadContext, RecordTarget, RecordsTarget, FindActive,
         CreateCheck, CreatesCheck, RecordCheck, RecordsCheck, ClosedContext,
         ConflictContext, Think, ReachVerdict, ProviderCooldown, Progress, Publish,
         Decide, PersistLedger, LeavesLedger, AttachThread, WritesFinding, Republish,
         CallSucceeds, Calls, SkipMerge, RegisterRecheck, Recheck, Reads

LEMMA FailureOnQueue ==
  ASSUME NEW w \in Worker, CallFails(w) \/ CreateFails(w)
  PROVE  UNCHANGED vars \/ (StandsAt(w, "schedule") /\ EnqueuesRecheck(w))
  BY DEF CallFails, CreateFails, CarriedOut, Calls, RecordsTarget, RecordsCheck,
         CreatesCheck, WritesFinding, Reads

(* So every step of ReviewJobs is one of WorkflowEngine, or a stutter.     *)
LEMMA StepOfQueue ==
  ASSUME \A w \in Worker : job[w] \in Job /\ Shaped(job[w]), [ReviewNext]_reviewVars
  PROVE  [Next]_vars
<1>1. ASSUME NEW w \in Worker, HandlerStep(w) PROVE [Next]_vars
  BY <1>1, HandlerOnQueue, ScheduleIsNext DEF Schedule
<1>2. ASSUME NEW w \in Worker, CallFails(w) \/ CreateFails(w) PROVE [Next]_vars
  BY <1>2, FailureOnQueue, ScheduleIsNext
<1>3. CASE PrEvent
  BY <1>3 DEF PrEvent
<1>4. CASE UNCHANGED reviewVars
  BY <1>4 DEF reviewVars
<1>5. QED
  BY <1>1, <1>2, <1>3, <1>4, QueueStepIsNext, RequestIsNext DEF ReviewNext, ReviewStep

-----------------------------------------------------------------------------
(***************************************************************************)
(* What the steps of the queue do to the keys and to the jobs.             *)
(***************************************************************************)
LEMMA QueueStepKeys ==
  ASSUME UniqueInv, QueueStep
  PROVE  SameKeys /\ HeldRowsExist'
<1>1. ASSUME NEW w \in Worker, Polls(w) \/ Settles(w) PROVE WorkerStep(w) \/ DbErrorStep(w)
  BY <1>1 DEF Polls, Settles, WorkerStep, DbErrorStep
<1>2. QED
  BY <1>1, WorkerStepUnique, DbErrorStepUnique, PodStepUnique, TimeStepUnique DEF QueueStep

(* A worker that takes a row up takes one that exists.                     *)
LEMMA TakenRowExists ==
  ASSUME TypeOK', UniqueInv, QueueStep, NEW w \in Worker, run'[w].id # 0
  PROVE  run'[w].id \in Ids /\ rows[run'[w].id].status # "absent"
<1>1. run'[w].id \in Ids
  BY DEF TypeOK, Snapshot
<1>2. QED
  BY <1>1, QueueStepKeys DEF SameKeys, HeldRowsExist

(* Nothing but a request or a recheck is ever enqueued.                    *)
LEMMA EnqueueKeysKnown ==
  ASSUME UniqueInv, RowKeysKnown, NEW k \in Requests \cup RecheckKeys, NEW due,
         Enqueue(k, "standard", due)
  PROVE  RowKeysKnown'
<1>1. CASE KeyTaken(k)
  BY <1>1 DEF Enqueue, InsertIgnore, RowKeysKnown
<1>2. CASE ~KeyTaken(k)
  <2>1. PICK i \in Ids : rows' = [rows EXCEPT ![i] = NewRow(k, "standard", due)]
    BY <1>2 DEF Enqueue, InsertIgnore
  <2>2. NewRow(k, "standard", due).key = k
    BY DEF NewRow, AbsentRow
  <2>3. QED
    BY <2>1, <2>2 DEF RowKeysKnown, UniqueInv, TypeOK
<1>3. QED
  BY <1>1, <1>2

LEMMA RowsInsertedType == RowsInserted \in 0..MaxRows
<1>1. IsFiniteSet(Ids) /\ Cardinality(Ids) = MaxRows
  BY FS_Interval DEF Ids
<1>2. {i \in Ids : rows[i].status # "absent"} \in SUBSET Ids
  OBVIOUS
<1>3. QED
  BY <1>1, <1>2, FS_Subset, FS_CardinalityType DEF RowsInserted

(* Overwriting fields of a job with values of their types leaves a job.    *)
JobKinds == {"none", "review", "command", "agent", "ci_recheck"}

LEMMA JobUpdates ==
  ASSUME NEW j \in Job, NEW at \in At
  PROVE  /\ [j EXCEPT !.at = at] \in Job
         /\ \A c \in CheckIds \cup {NoCheck} : [j EXCEPT !.at = at, !.check = c] \in Job
         /\ \A c \in CheckIds \cup {NoCheck} : [j EXCEPT !.at = at, !.other = c] \in Job
         /\ \A h \in Heads : [j EXCEPT !.at = at, !.head = h] \in Job
         /\ \A c \in {"none"} \cup Conclusion : [j EXCEPT !.at = at, !.conclusion = c] \in Job
         /\ \A v \in GateVerdict \cup AgentVerdict : [j EXCEPT !.at = at, !.verdict = v] \in Job
         /\ \A a, b \in SUBSET Findings :
              [j EXCEPT !.at = at, !.stored = a, !.overwritten = b] \in Job
<1>1. [j EXCEPT !.at = at] \in Job
  BY DEF Job
<1>2. \A c \in CheckIds \cup {NoCheck} : [j EXCEPT !.at = at, !.check = c] \in Job
  BY DEF Job
<1>3. \A c \in CheckIds \cup {NoCheck} : [j EXCEPT !.at = at, !.other = c] \in Job
  BY DEF Job
<1>4. \A h \in Heads : [j EXCEPT !.at = at, !.head = h] \in Job
  BY DEF Job
<1>5. \A c \in {"none"} \cup Conclusion : [j EXCEPT !.at = at, !.conclusion = c] \in Job
  BY DEF Job
<1>6. \A v \in GateVerdict \cup AgentVerdict : [j EXCEPT !.at = at, !.verdict = v] \in Job
  BY DEF Job
<1>7. \A a, b \in SUBSET Findings :
        [j EXCEPT !.at = at, !.stored = a, !.overwritten = b] \in Job
  BY DEF Job
<1>8. QED
  BY <1>1, <1>2, <1>3, <1>4, <1>5, <1>6, <1>7

(* The jobs a worker starts with, whatever the row.                        *)
LEMMA NoJobInJob == NoJob \in Job
<1>1. "none" \in At
  BY DEF At
<1>2. QED
  BY <1>1 DEF NoJob, Job, NoCheck

(* The job a worker starts with, for a row of either sort.                 *)
LEMMA StartedType ==
  ASSUME ReviewTypeOK, RowKeysKnown, NEW i \in Ids, rows[i].status # "absent"
  PROVE  Started(i) \in Job /\ Shaped(Started(i))
<1>1. CASE IsRecheck(rows[i].key)
  <2>1. PICK c \in CheckIds, h \in Heads, n \in 1..MaxRechecks : rows[i].key = <<c, h, n>>
    BY <1>1 DEF IsRecheck, RecheckKeys
  <2>2. Started(i) = [NoJob EXCEPT !.at = "register", !.kind = "ci_recheck",
                                   !.check = c, !.head = h, !.try = n]
    BY <1>1, <2>1 DEF Started
  <2>3. Started(i) \in Job
    <3>1. "register" \in At /\ "ci_recheck" \in JobKinds /\ n \in 0..MaxRechecks
      BY DEF At, JobKinds
    <3>2. QED
      BY ZenonT(30), <2>2, <3>1, NoJobInJob DEF Job, JobKinds
  <2>4. Shaped(Started(i))
    BY <2>2 DEF NoJob, Shaped, ReviewPlaces, CheckIds, NoCheck
  <2>5. QED
    BY <2>3, <2>4
<1>2. CASE ~IsRecheck(rows[i].key)
  <2>1. rows[i].key \in Requests /\ JobKind[rows[i].key] \in {"review", "command", "agent"}
    BY <1>2 DEF RowKeysKnown, IsRecheck
  <2>2. rec[i].check \in CheckIds \cup {NoCheck}
    BY DEF ReviewTypeOK, Record
  <2>3. Started(i) = [NoJob EXCEPT
                        !.at = IF JobKind[rows[i].key] = "review" THEN "context" ELSE "ignore",
                        !.kind = JobKind[rows[i].key], !.check = rec[i].check]
    BY <1>2 DEF Started
  <2>4. Started(i) \in Job
    <3>1. "context" \in At /\ "ignore" \in At /\ JobKind[rows[i].key] \in JobKinds
      BY <2>1 DEF At, JobKinds
    <3>2. QED
      BY <2>2, <2>3, <3>1, NoJobInJob DEF Job, JobKinds
  <2>5. Shaped(Started(i))
    BY <2>3 DEF NoJob, Shaped, ReviewPlaces, NoCheck
  <2>6. QED
    BY <2>4, <2>5
<1>3. QED
  BY <1>1, <1>2

LEMMA NoJobType ==
  ASSUME NEW c \in CheckIds \cup {NoCheck}
  PROVE  LET j == [NoJob EXCEPT !.at = "expired", !.check = c] IN
         /\ NoJob \in Job /\ Shaped(NoJob)
         /\ j \in Job /\ Shaped(j)
<1>0. "expired" \in At
  BY DEF At
<1>1. [NoJob EXCEPT !.at = "expired", !.check = c] \in Job
  BY <1>0, NoJobInJob, JobUpdates
<1>2. Shaped(NoJob) /\ Shaped([NoJob EXCEPT !.at = "expired", !.check = c])
  BY DEF NoJob, Shaped, ReviewPlaces
<1>3. QED
  BY <1>1, <1>2, NoJobInJob

(* The stamps of a row are numbers of rows.                                *)
LEMMA StampedType ==
  ASSUME ReviewTypeOK, NEW i \in Ids
  PROVE  Stamped(i) \in Record /\ Stamped(i).check = rec[i].check
<1>1. rec[i] \in Record
  BY DEF ReviewTypeOK
<1>2. QED
  BY <1>1, RowsInsertedType DEF Stamped, Record

(* What becomes of the handler's variables when the queue moves.           *)
LEMMA FollowQueueType ==
  ASSUME ShapeInv, TypeOK', FollowQueue,
         \A w \in Worker : (run'[w].id # run[w].id /\ run'[w].id # 0) =>
            run'[w].id \in Ids /\ rows[run'[w].id].status # "absent"
  PROVE  ReviewTypeOK' /\ \A w \in Worker : Shaped(job'[w])
<1>1. ASSUME NEW w \in Worker
      PROVE  job'[w] \in Job /\ Shaped(job'[w])
  <2>1. CASE run'[w].id = run[w].id
    <3>1. job'[w] = job[w]
      BY <2>1 DEF FollowQueue
    <3>2. QED
      BY <3>1 DEF ShapeInv, ReviewTypeOK
  <2>2. CASE run'[w].id # run[w].id /\ run'[w].id = 0
    <3>1. job'[w] = NoJob
      BY <2>2 DEF FollowQueue
    <3>2. QED
      BY <3>1, NoJobType
  <2>3. CASE run'[w].id # run[w].id /\ run'[w].id # 0
    <3>1. run'[w].id \in Ids /\ rows[run'[w].id].status # "absent"
      BY <2>3
    <3>2. \/ job'[w] = [NoJob EXCEPT !.at = "expired", !.check = rec[run'[w].id].check]
          \/ job'[w] = Started(run'[w].id)
      BY <2>3 DEF FollowQueue
    <3>3. rec[run'[w].id].check \in CheckIds \cup {NoCheck}
      BY <3>1 DEF ShapeInv, ReviewTypeOK, Record
    <3>4. QED
      BY <3>1, <3>2, <3>3, NoJobType, StartedType DEF ShapeInv
  <2>4. QED
    BY <2>1, <2>2, <2>3
<1>2. job' \in [Worker -> Job]
  BY <1>1 DEF FollowQueue
<1>3. rec' \in [Ids -> Record]
  BY StampedType DEF FollowQueue, ShapeInv
<1>4. QED
  BY <1>1, <1>2, <1>3 DEF FollowQueue, github, ShapeInv, ReviewTypeOK

-----------------------------------------------------------------------------
(***************************************************************************)
(* What the steps of the handler do to the jobs.                           *)
(***************************************************************************)
JobsOK == job \in [Worker -> Job] /\ \A w \in Worker : Shaped(job[w])

(* Places whose jobs have any shape.                                       *)
Neutral == At \ (ReviewPlaces \cup {"register", "recheck", "wait", "schedule", "approve"})

LEMMA MoveOK ==
  ASSUME JobsOK, NEW w \in Worker, NEW j \in Job, Shaped(j), Move(w, j)
  PROVE  JobsOK'
  BY DEF JobsOK, Move

(* Going on with the same variables: what the new place asks is there.     *)
LEMMA GoOK ==
  ASSUME JobsOK, NEW w \in Worker, NEW at \in At, Go(w, at),
         at \in ReviewPlaces => job[w].try = 0,
         at \in {"publish", "ledger", "republish"} => job[w].verdict # "none",
         at \in {"record", "register", "recheck", "wait", "schedule"} => job[w].check # NoCheck,
         at \in {"wait", "schedule"} => job[w].head # 0 /\ job[w].try < MaxRechecks,
         at = "approve" => job[w].head # 0
  PROVE  JobsOK'
<1>1. job[w] \in Job
  BY DEF JobsOK
<1>2. [job[w] EXCEPT !.at = at] \in Job
  BY <1>1, JobUpdates
<1>3. Shaped([job[w] EXCEPT !.at = at])
  BY <1>1 DEF Shaped, Job
<1>4. QED
  BY <1>2, <1>3, MoveOK DEF Go

LEMMA GoNeutralOK ==
  ASSUME JobsOK, NEW w \in Worker, NEW at \in Neutral, Go(w, at)
  PROVE  JobsOK'
  BY GoOK DEF Neutral, ReviewPlaces

(* Concluding, with a report before it or at once.                         *)
LEMMA ConcludingOK ==
  ASSUME JobsOK, NEW w \in Worker, NEW c \in Conclusion, Finish(w, c) \/ Post(w, c)
  PROVE  JobsOK'
<1>1. job[w] \in Job
  BY DEF JobsOK
<1>2. ASSUME NEW at \in {"finish", "post"}
      PROVE  LET j == [job[w] EXCEPT !.at = at, !.conclusion = c] IN j \in Job /\ Shaped(j)
  <2>1. at \in At
    BY DEF At
  <2>2. [job[w] EXCEPT !.at = at, !.conclusion = c] \in Job
    BY <1>1, <2>1, JobUpdates
  <2>3. Shaped([job[w] EXCEPT !.at = at, !.conclusion = c])
    BY <1>1 DEF Shaped, Job, ReviewPlaces
  <2>4. QED
    BY <2>2, <2>3
<1>3. QED
  BY <1>2, MoveOK DEF Finish, Post

(* Approving, for the HEAD that was just read.                             *)
LEMMA GoApproveOK ==
  ASSUME JobsOK, pr.head \in Heads, NEW w \in Worker, GoApprove(w)
  PROVE  JobsOK'
<1>1. job[w] \in Job
  BY DEF JobsOK
<1>2. "approve" \in At
  BY DEF At
<1>3. [job[w] EXCEPT !.at = "approve", !.head = pr.head] \in Job
  BY <1>1, <1>2, JobUpdates
<1>4. Shaped([job[w] EXCEPT !.at = "approve", !.head = pr.head])
  BY <1>1 DEF Shaped, Job, ReviewPlaces, Heads
<1>5. QED
  BY <1>3, <1>4, MoveOK DEF GoApprove

(* Going on to the plan of the context, or first to a check run.           *)
LEMMA TrackedOK ==
  ASSUME NEW j \in Job, j.try = 0
  PROVE  /\ Tracked(j) \in Job /\ Shaped(Tracked(j))
         /\ CheckOrCreate(j) \in Job /\ Shaped(CheckOrCreate(j))
<1>1. ASSUME NEW at \in {"none", "closed", "conflict", "think", "create"}
      PROVE  [j EXCEPT !.at = at] \in Job /\ Shaped([j EXCEPT !.at = at])
  <2>1. at \in At
    BY DEF At
  <2>2. [j EXCEPT !.at = at] \in Job
    BY <2>1, JobUpdates
  <2>3. Shaped([j EXCEPT !.at = at])
    BY DEF Shaped, Job
  <2>4. QED
    BY <2>2, <2>3
<1>2. j.plan \in {"none", "closed", "conflict", "think"}
  BY DEF Job
<1>3. QED
  BY <1>1, <1>2 DEF Tracked, CheckOrCreate

(* Reading the pull request pins the HEAD and plans the job.               *)
LEMMA ReadContextOK ==
  ASSUME JobsOK, pr \in PullRequest, NEW w \in Worker, ReadContext(w)
  PROVE  JobsOK'
<1>1. job[w] \in Job /\ job[w].try = 0 /\ pr.head \in Heads
  BY DEF JobsOK, ReadContext, StandsAt, Shaped, ReviewPlaces, PullRequest
<1>2. CASE Go(w, "returned")
  BY <1>2, GoNeutralOK DEF Neutral, At, ReviewPlaces
<1>3. CASE ~Go(w, "returned")
  <2>1. PICK p \in {"closed", "conflict", "think"} :
          LET j == [job[w] EXCEPT !.head = pr.head, !.plan = p] IN
          Move(w, IF j.kind = "agent" THEN CheckOrCreate(j) ELSE [j EXCEPT !.at = "target"])
    BY <1>3 DEF ReadContext
  <2> DEFINE j == [job[w] EXCEPT !.head = pr.head, !.plan = p]
  <2>2. j \in Job /\ j.try = 0
    BY <1>1 DEF Job
  <2> HIDE DEF j
  <2>3. "target" \in At
    BY DEF At
  <2>4. [j EXCEPT !.at = "target"] \in Job
    BY <2>2, <2>3, JobUpdates
  <2>5. Shaped([j EXCEPT !.at = "target"])
    BY <2>2 DEF Shaped, Job, ReviewPlaces
  <2>6. Move(w, IF j.kind = "agent" THEN CheckOrCreate(j) ELSE [j EXCEPT !.at = "target"])
    BY <2>1 DEF j
  <2>7. QED
    BY <2>2, <2>4, <2>5, <2>6, TrackedOK, MoveOK
<1>4. QED
  BY <1>2, <1>3

(* Looking for an older review, and the check run of this one.             *)
LEMMA BeforePlanOK ==
  ASSUME JobsOK, rec \in [Ids -> Record], NEW w \in Worker,
         \/ Ignore(w) \/ RecordTarget(w) \/ FindActive(w) \/ RecordCheck(w)
         \/ \E c \in CheckIds : CreateCheck(w, c)
  PROVE  JobsOK'
<1>1. job[w] \in Job /\ Shaped(job[w])
  BY DEF JobsOK
<1>2. CASE Ignore(w)
  BY <1>1, <1>2, GoOK DEF Ignore, StandsAt, Shaped, ReviewPlaces, At
<1>3. CASE RecordTarget(w)
  BY <1>1, <1>3, GoOK DEF RecordTarget, StandsAt, Shaped, ReviewPlaces, At
<1>4. CASE FindActive(w)
  <2>1. CASE Go(w, "returned")
    BY <2>1, GoNeutralOK DEF Neutral, At, ReviewPlaces
  <2>2. ASSUME NEW i \in Ids, rec[i].check # NoCheck,
               Move(w, [job[w] EXCEPT !.at = "coalesce", !.other = rec[i].check])
        PROVE  JobsOK'
    <3>1. rec[i].check \in CheckIds \cup {NoCheck} /\ "coalesce" \in At
      BY DEF Record, At
    <3>2. [job[w] EXCEPT !.at = "coalesce", !.other = rec[i].check] \in Job
      BY <1>1, <3>1, JobUpdates
    <3>3. Shaped([job[w] EXCEPT !.at = "coalesce", !.other = rec[i].check])
      BY <1>1 DEF Job, Shaped, ReviewPlaces
    <3>4. QED
      BY <2>2, <3>2, <3>3, MoveOK
  <2>3. CASE Move(w, CheckOrCreate(job[w]))
    BY <1>1, <1>4, <2>3, TrackedOK, MoveOK DEF FindActive, StandsAt, Shaped, ReviewPlaces
  <2>4. QED
    BY <1>4, <2>1, <2>2, <2>3 DEF FindActive
<1>5. CASE RecordCheck(w)
  BY <1>1, <1>5, TrackedOK, MoveOK DEF RecordCheck, StandsAt, Shaped, ReviewPlaces
<1>6. ASSUME NEW c \in CheckIds, CreateCheck(w, c) PROVE JobsOK'
  <2>1. "record" \in At /\ c # NoCheck
    BY DEF At, CheckIds, NoCheck
  <2>2. [job[w] EXCEPT !.at = "record", !.check = c] \in Job
    BY <1>1, <2>1, JobUpdates
  <2>3. Shaped([job[w] EXCEPT !.at = "record", !.check = c])
    BY <1>1, <1>6, <2>1 DEF CreateCheck, StandsAt, Job, Shaped, ReviewPlaces
  <2>4. QED
    BY <1>6, <2>2, <2>3, MoveOK DEF CreateCheck
<1>7. QED
  BY <1>2, <1>3, <1>4, <1>5, <1>6

(* The plan, up to the verdict.                                            *)
LEMMA PlanOK ==
  ASSUME JobsOK, NEW w \in Worker,
         \/ ClosedContext(w) \/ ConflictContext(w) \/ Think(w) \/ ReachVerdict(w)
         \/ ProviderCooldown(w) \/ SkipMerge(w)
  PROVE  JobsOK'
<1>1. job[w] \in Job /\ Shaped(job[w])
  BY DEF JobsOK
<1>2. {"returned", "request", "cooldown"} \subseteq Neutral /\ "cancelled" \in Conclusion
  BY DEF Neutral, At, ReviewPlaces, Conclusion
<1>3. CASE ClosedContext(w) \/ ConflictContext(w) \/ ProviderCooldown(w) \/ SkipMerge(w)
  BY <1>2, <1>3, GoNeutralOK, ConcludingOK
     DEF ClosedContext, ConflictContext, ProviderCooldown, SkipMerge
<1>4. CASE Think(w)
  <2>1. "verdict" \in At
    BY DEF At
  <2>2. [job[w] EXCEPT !.at = "verdict", !.stored = {}, !.overwritten = {}] \in Job
    BY <1>1, <2>1, JobUpdates
  <2>3. Shaped([job[w] EXCEPT !.at = "verdict", !.stored = {}, !.overwritten = {}])
    BY <1>1, <1>4 DEF Think, StandsAt, Job, Shaped, ReviewPlaces
  <2>4. QED
    BY <1>4, <2>2, <2>3, MoveOK DEF Think
<1>5. CASE ReachVerdict(w)
  <2>1. CASE Finish(w, "cancelled")
    BY <1>2, <2>1, ConcludingOK
  <2>2. ASSUME NEW v \in GateVerdict \cup AgentVerdict,
               Move(w, [job[w] EXCEPT !.at = "publish", !.verdict = v])
        PROVE  JobsOK'
    <3>1. "publish" \in At /\ v # "none"
      BY DEF At, GateVerdict, AgentVerdict
    <3>2. [job[w] EXCEPT !.at = "publish", !.verdict = v] \in Job
      BY <1>1, <3>1, JobUpdates
    <3>3. Shaped([job[w] EXCEPT !.at = "publish", !.verdict = v])
      BY <1>1, <1>5, <3>1 DEF ReachVerdict, StandsAt, Job, Shaped, ReviewPlaces
    <3>4. QED
      BY <2>2, <3>2, <3>3, MoveOK
  <2>3. QED
    BY <1>5, <2>1, <2>2 DEF ReachVerdict
<1>6. QED
  BY <1>3, <1>4, <1>5

(* A pass waits for CI only with a check run and within the bounds.        *)
LEMMA DecideOK ==
  ASSUME JobsOK, pr \in PullRequest, NEW w \in Worker,
         StandsAt(w, "publish") \/ StandsAt(w, "republish"), ~Outdated(w), Decide(w)
  PROVE  JobsOK'
<1>1. job[w] \in Job /\ Shaped(job[w]) /\ pr.head \in Heads
  BY DEF JobsOK, PullRequest
<1>2. /\ {"returned", "request"} \subseteq Neutral
      /\ {"action_required", "neutral"} \subseteq Conclusion
      /\ "wait" \in At
  BY DEF Neutral, At, ReviewPlaces, Conclusion
<1>3. job[w].try = 0 /\ job[w].head # 0
  BY <1>1 DEF StandsAt, Shaped, ReviewPlaces, Outdated, Heads
<1>4. job[w].check # NoCheck /\ Go(w, "wait") => JobsOK'
  BY <1>2, <1>3, GoOK DEF ReviewPlaces
<1>5. Approves(w) => JobsOK'
  BY <1>1, <1>2, <1>4, GoNeutralOK, GoApproveOK, ConcludingOK DEF Approves
<1>6. QED
  BY <1>2, <1>5, GoNeutralOK, ConcludingOK DEF Decide

LEMMA PublishOK ==
  ASSUME JobsOK, pr \in PullRequest, NEW w \in Worker, Publish(w) \/ Republish(w)
  PROVE  JobsOK'
<1>1. job[w] \in Job /\ Shaped(job[w])
  BY DEF JobsOK
<1>2. "request" \in Neutral /\ "ledger" \in At /\ "cancelled" \in Conclusion
  BY DEF Neutral, At, ReviewPlaces, Conclusion
<1>3. CASE Finish(w, "cancelled")
  BY <1>2, <1>3, ConcludingOK
<1>4. CASE ~Outdated(w) /\ Decide(w)
  BY <1>4, DecideOK DEF Publish, Republish
<1>5. CASE Go(w, "request")
  BY <1>2, <1>5, GoNeutralOK
<1>6. CASE Publish(w) /\ Go(w, "ledger")
  BY <1>1, <1>2, <1>6, GoOK DEF Publish, StandsAt, Shaped, ReviewPlaces
<1>7. QED
  BY <1>3, <1>4, <1>5, <1>6 DEF Publish, Republish

(* A write to the ledger marks the finding for the others that read it.    *)
LEMMA WritesFindingOK ==
  ASSUME JobsOK, NEW w \in Worker, NEW f \in Findings, NEW j \in Job, Shaped(j),
         WritesFinding(w, f, j)
  PROVE  JobsOK'
<1>1. ASSUME NEW v \in Worker PROVE job'[v] \in Job /\ Shaped(job'[v])
  <2>1. CASE v = w
    BY <2>1 DEF WritesFinding
  <2>2. CASE v # w
    <3>1. job[v] \in Job /\ Shaped(job[v])
      BY DEF JobsOK
    <3>2. PICK b \in SUBSET Findings : job'[v] = [job[v] EXCEPT !.overwritten = b]
      BY <2>2, <3>1 DEF WritesFinding, Job
    <3>3. [job[v] EXCEPT !.overwritten = b] \in Job /\ Shaped([job[v] EXCEPT !.overwritten = b])
      BY <3>1 DEF Job, Shaped
    <3>4. QED
      BY <3>2, <3>3
  <2>3. QED
    BY <2>1, <2>2
<1>2. QED
  BY <1>1 DEF JobsOK, WritesFinding

(* The writer notes what it has stored, and nothing else of its job moves. *)
LEMMA StoredType ==
  ASSUME NEW j \in Job, Shaped(j), NEW f \in Findings
  PROVE  /\ Stored(j, f) \in Job /\ Shaped(Stored(j, f))
         /\ [j EXCEPT !.stored = @ \ {f}, !.overwritten = @ \ {f}] \in Job
         /\ Shaped([j EXCEPT !.stored = @ \ {f}, !.overwritten = @ \ {f}])
<1>1. /\ j.stored \cup {f} \in SUBSET Findings /\ j.stored \ {f} \in SUBSET Findings
      /\ j.overwritten \ {f} \in SUBSET Findings
  BY DEF Job
<1>2. ASSUME NEW a \in SUBSET Findings, NEW b \in SUBSET Findings
      PROVE  /\ [j EXCEPT !.stored = a, !.overwritten = b] \in Job
             /\ Shaped([j EXCEPT !.stored = a, !.overwritten = b])
  <2>1. [j EXCEPT !.stored = a, !.overwritten = b] \in Job
    BY DEF Job
  <2>2. Shaped([j EXCEPT !.stored = a, !.overwritten = b])
    BY DEF Job, Shaped
  <2>3. QED
    BY <2>1, <2>2
<1>3. QED
  BY <1>1, <1>2 DEF Stored

LEMMA PersistLedgerOK ==
  ASSUME JobsOK, NEW w \in Worker, PersistLedger(w) \/ AttachThread(w)
  PROVE  JobsOK'
<1>1. job[w] \in Job /\ Shaped(job[w])
  BY DEF JobsOK
<1>2. {"returned", "discard", "republish"} \subseteq At
  BY DEF At
<1>3. ASSUME NEW f \in Findings,
             \/ WritesFinding(w, f, Stored(job[w], f))
             \/ WritesFinding(w, f, [job[w] EXCEPT !.stored = @ \ {f}, !.overwritten = @ \ {f}])
      PROVE  JobsOK'
  BY <1>1, <1>3, StoredType, WritesFindingOK
<1>4. ASSUME NEW at \in {"returned", "discard", "republish"}, NEW a \in SUBSET Findings,
             StandsAt(w, "ledger"), LeavesLedger(w, at, a)
      PROVE  JobsOK'
  <2>1. [job[w] EXCEPT !.at = at, !.stored = a, !.overwritten = {}] \in Job
    BY <1>1, <1>2, JobUpdates
  <2>2. Shaped([job[w] EXCEPT !.at = at, !.stored = a, !.overwritten = {}])
    BY <1>1, <1>4 DEF StandsAt, Job, Shaped, ReviewPlaces
  <2>3. QED
    BY <1>4, <2>1, <2>2, MoveOK DEF LeavesLedger
<1>5. job[w].stored \subseteq Findings
  BY <1>1 DEF Job
<1>6. QED
  BY <1>3, <1>4, <1>5 DEF PersistLedger, AttachThread

(* A call that went through.                                               *)
LEMMA CallSucceedsOK ==
  ASSUME JobsOK, NEW w \in Worker, CallSucceeds(w)
  PROVE  JobsOK'
<1> DEFINE at == NextCall(job[w])
           c == ConclusionOf(job[w])
<1>1. job[w] \in Job /\ Shaped(job[w]) /\ job[w].at \in WriteCalls
  BY DEF JobsOK, CallSucceeds, Calls
<1>2. \/ at \in {"merge", "returned", "threw", "close", "finish"}
      \/ at = "schedule" /\ job[w].at = "wait"
  BY <1>1 DEF NextCall, WriteCalls
<1>3. at \in At
  BY <1>2 DEF At
<1>4. c \in {"none"} \cup Conclusion
  <2>1. job[w].conclusion \in {"none"} \cup Conclusion
    BY <1>1 DEF Job
  <2>2. QED
    BY <2>1 DEF ConclusionOf, Conclusion
<1> HIDE DEF at, c
<1>5. [job[w] EXCEPT !.at = at, !.conclusion = c] \in Job
  BY <1>1, <1>3, <1>4, JobUpdates
<1>6. Shaped([job[w] EXCEPT !.at = at, !.conclusion = c])
  BY <1>1, <1>2 DEF Job, Shaped, ReviewPlaces
<1>7. QED
  BY <1>5, <1>6, MoveOK DEF CallSucceeds, at, c

(* The recheck, which waits once more only before it is timed out.         *)
LEMMA RecheckOK ==
  ASSUME JobsOK, pr \in PullRequest, NEW w \in Worker,
         RegisterRecheck(w) \/ Recheck(w) \/ Schedule(w)
  PROVE  JobsOK'
<1>1. job[w] \in Job /\ Shaped(job[w]) /\ pr.head \in Heads
  BY DEF JobsOK, PullRequest
<1>2. /\ "returned" \in Neutral /\ {"recheck", "wait"} \subseteq At
      /\ {"cancelled", "action_required"} \subseteq Conclusion
  BY DEF Neutral, At, ReviewPlaces, Conclusion
<1>3. CASE RegisterRecheck(w)
  BY <1>1, <1>2, <1>3, GoOK DEF RegisterRecheck, StandsAt, Shaped, ReviewPlaces
<1>4. CASE Recheck(w)
  <2>1. job[w].check # NoCheck /\ job[w].try \in 0..MaxRechecks
    BY <1>1, <1>4 DEF Recheck, StandsAt, Shaped, Job
  <2>2. CASE Go(w, "wait") /\ ~Outdated(w) /\ FALSE \in TimedOut(w)
    <3>1. job[w].try # MaxRechecks
      BY <2>2, Zenon DEF TimedOut
    <3>2. job[w].head # 0 /\ job[w].try < MaxRechecks
      BY <1>1, <2>1, <2>2, <3>1 DEF Outdated, Heads
    <3>3. QED
      BY <1>2, <2>1, <2>2, <3>2, GoOK DEF ReviewPlaces
  <2>3. CASE \E c \in Conclusion : Finish(w, c) \/ Post(w, c)
    BY <2>3, ConcludingOK
  <2>4. CASE GoApprove(w)
    BY <1>1, <2>4, GoApproveOK
  <2>5. QED
    BY <1>2, <1>4, <2>2, <2>3, <2>4 DEF Recheck, TimedOut
<1>5. CASE Schedule(w)
  BY <1>2, <1>5, GoNeutralOK DEF Schedule
<1>6. QED
  BY <1>3, <1>4, <1>5

(* A call that failed.                                                     *)
LEMMA ThrownType ==
  ASSUME NEW j \in Job, Shaped(j)
  PROVE  Thrown(j) \in Job /\ Shaped(Thrown(j))
<1>1. PICK at \in {"returned", "threw", "abort"} : Thrown(j) = [j EXCEPT !.at = at]
  BY DEF Thrown
<1>2. at \in At
  BY DEF At
<1>3. [j EXCEPT !.at = at] \in Job
  BY <1>2, JobUpdates
<1>4. QED
  BY <1>1, <1>3 DEF Job, Shaped, ReviewPlaces

LEMMA FailureOK ==
  ASSUME JobsOK, NEW w \in Worker, CallFails(w) \/ CreateFails(w)
  PROVE  JobsOK'
<1>1. job[w] \in Job /\ Shaped(job[w])
  BY DEF JobsOK
<1>2. Thrown(job[w]) \in Job /\ Shaped(Thrown(job[w]))
  BY <1>1, ThrownType
<1>3. CASE CallFails(w)
  <2>1. ASSUME NEW f \in Findings, StandsAt(w, "ledger") PROVE
          Thrown(Stored(job[w], f)) \in Job /\ Shaped(Thrown(Stored(job[w], f)))
    <3>1. Stored(job[w], f) \in Job /\ Shaped(Stored(job[w], f))
      BY <1>1, StoredType
    <3>2. QED
      BY <3>1, ThrownType
  <2>2. QED
    BY <1>2, <1>3, <2>1, MoveOK, WritesFindingOK DEF CallFails
<1>4. CASE CreateFails(w)
  BY <1>1, <1>4, TrackedOK, MoveOK DEF CreateFails, StandsAt, Shaped, ReviewPlaces
<1>5. QED
  BY <1>3, <1>4

LEMMA HandlerStepOK ==
  ASSUME JobsOK, pr \in PullRequest, rec \in [Ids -> Record], NEW w \in Worker, HandlerStep(w)
  PROVE  JobsOK'
  BY ReadContextOK, BeforePlanOK, PlanOK, PublishOK, PersistLedgerOK, CallSucceedsOK, RecheckOK
     DEF HandlerStep

-----------------------------------------------------------------------------
(***************************************************************************)
(* What they do to the columns of the rows, to GitHub and to the counter.  *)
(***************************************************************************)
OthersOK ==
  /\ rec \in [Ids -> Record]
  /\ pr \in PullRequest
  /\ checks \in [CheckIds -> CheckRun]
  /\ approved \subseteq Heads
  /\ verdicts \subseteq Heads \X (GateVerdict \cup AgentVerdict)
  /\ ledger \in [Findings -> Ids \cup {0}]

LEMMA RecordsOK ==
  ASSUME OthersOK, JobsOK, NEW w \in Worker
  PROVE  RecordsTarget(w) \/ RecordsCheck(w) => OthersOK'
<1>1. job[w] \in Job
  BY DEF JobsOK
<1>2. ASSUME NEW i \in Ids, RecordsTarget(w) PROVE rec'[i] \in Record
  <2>1. rec[i] \in Record
    BY DEF OthersOK
  <2>2. [rec[i] EXCEPT !.kind = "review", !.head = job[w].head] \in Record
    BY <1>1, <2>1 DEF Record, Job
  <2>3. rec'[i] \in {rec[i], [rec[i] EXCEPT !.kind = "review", !.head = job[w].head]}
    BY <1>2 DEF RecordsTarget, OthersOK, Record
  <2>4. QED
    BY <2>1, <2>2, <2>3
<1>3. ASSUME NEW i \in Ids, RecordsCheck(w) PROVE rec'[i] \in Record
  <2>1. rec[i] \in Record
    BY DEF OthersOK
  <2>2. ASSUME NEW k \in {"none", "review", "agent", "ci_recheck"}
        PROVE  [rec[i] EXCEPT !.kind = k, !.head = job[w].head, !.check = job[w].check] \in Record
    BY <1>1, <2>1 DEF Record, Job
  <2>3. (IF job[w].kind = "command" THEN "review" ELSE job[w].kind) \in {"none", "review", "agent", "ci_recheck"}
    BY <1>1, <1>3 DEF Job
  <2>4. rec'[i] = rec[i] \/ rec'[i] = [rec[i] EXCEPT
           !.kind = IF job[w].kind = "command" THEN "review" ELSE job[w].kind,
           !.head = job[w].head, !.check = job[w].check]
    BY <1>3 DEF RecordsCheck, OthersOK
  <2>5. QED
    BY <2>1, <2>2, <2>3, <2>4
<1>4. (RecordsTarget(w) \/ RecordsCheck(w)) => rec' \in [Ids -> Record]
  BY <1>2, <1>3 DEF RecordsTarget, RecordsCheck, OthersOK
<1>5. QED
  BY <1>4 DEF RecordsTarget, RecordsCheck, github, OthersOK

LEMMA ChecksOK ==
  ASSUME OthersOK, NEW c \in CheckIds \cup {NoCheck}, NEW conclusion \in Conclusion \cup {"none"}
  PROVE  /\ Reopened(c) \in [CheckIds -> CheckRun]
         /\ Concluded(c, conclusion) \in [CheckIds -> CheckRun]
<1>1. checks \in [CheckIds -> CheckRun]
  BY DEF OthersOK
<1>2. Reopened(c) \in [CheckIds -> CheckRun]
  BY <1>1 DEF Reopened, CheckRun
<1>3. Concluded(c, conclusion) \in [CheckIds -> CheckRun]
  BY <1>1 DEF Concluded, CheckRun
<1>4. QED
  BY <1>2, <1>3

LEMMA CallsOK ==
  ASSUME OthersOK, JobsOK, NEW w \in Worker, Calls(w)
  PROVE  OthersOK'
<1>1. /\ job[w] \in Job /\ Shaped(job[w])
      /\ job[w].check \in CheckIds \cup {NoCheck} /\ job[w].other \in CheckIds \cup {NoCheck}
      /\ job[w].conclusion \in Conclusion \cup {"none"} /\ job[w].head \in Heads \cup {0}
  BY DEF JobsOK, Job
<1>2. {"failure", "cancelled"} \subseteq Conclusion
  BY DEF Conclusion
<1>3. checks' \in [CheckIds -> CheckRun]
  <2>1. /\ Concluded(job[w].check, job[w].conclusion) \in [CheckIds -> CheckRun]
        /\ Concluded(job[w].check, "failure") \in [CheckIds -> CheckRun]
        /\ Concluded(job[w].check, "cancelled") \in [CheckIds -> CheckRun]
        /\ Reopened(job[w].check) \in [CheckIds -> CheckRun]
        /\ Reopened(job[w].other) \in [CheckIds -> CheckRun]
        /\ checks \in [CheckIds -> CheckRun]
    BY <1>1, <1>2, ChecksOK DEF OthersOK
  <2>2. checks' \in {Concluded(job[w].check, job[w].conclusion), Concluded(job[w].check, "failure"),
                     Concluded(job[w].check, "cancelled"), Reopened(job[w].check),
                     Reopened(job[w].other), checks}
    BY DEF Calls
  <2>3. QED
    BY <2>1, <2>2
<1>4. approved' \subseteq Heads
  BY <1>1 DEF Calls, Shaped, OthersOK
<1>5. pr' \in PullRequest
  <2>1. pr \in PullRequest
    BY DEF OthersOK
  <2>2. [pr EXCEPT !.open = FALSE] \in PullRequest
    BY <2>1 DEF PullRequest
  <2>3. QED
    BY <2>1, <2>2 DEF Calls
<1>6. QED
  BY <1>3, <1>4, <1>5 DEF Calls, OthersOK

LEMMA ProgressOK ==
  ASSUME OthersOK, JobsOK, NEW w \in Worker, Progress(w)
  PROVE  OthersOK'
<1>1. job[w].check \in CheckIds \cup {NoCheck} /\ "none" \in Conclusion \cup {"none"}
  BY DEF JobsOK, Job
<1>2. Reopened(job[w].check) \in [CheckIds -> CheckRun]
  BY <1>1, ChecksOK
<1>3. QED
  BY <1>2 DEF Progress, OthersOK

LEMMA CreatesCheckOK ==
  ASSUME OthersOK, JobsOK, NEW w \in Worker, NEW c \in CheckIds, CreatesCheck(w, c)
  PROVE  OthersOK'
<1>1. job[w].head \in Heads \cup {0}
  BY DEF JobsOK, Job
<1>2. [status |-> "in_progress", head |-> job[w].head, conclusion |-> "none"] \in CheckRun
  BY <1>1 DEF CheckRun
<1>3. QED
  BY <1>2 DEF CreatesCheck, OthersOK

(* A verdict is noted for the HEAD that is the pull request's.             *)
LEMMA DecideOthersOK ==
  ASSUME OthersOK, JobsOK, NEW w \in Worker,
         StandsAt(w, "publish") \/ StandsAt(w, "republish"), ~Outdated(w), Decide(w)
  PROVE  OthersOK'
<1>1. job[w].verdict \in GateVerdict \cup AgentVerdict
  BY DEF JobsOK, Job, Shaped, StandsAt
<1>2. job[w].head \in Heads
  BY DEF Outdated, OthersOK, PullRequest
<1>3. QED
  BY <1>1, <1>2 DEF Decide, OthersOK

(* A finding is written by the review of the row at hand.                  *)
LEMMA WritesFindingOthersOK ==
  ASSUME TypeOK, OthersOK, NEW w \in Worker, NEW f \in Findings, NEW j,
         WritesFinding(w, f, j)
  PROVE  OthersOK'
<1>1. Me(w) \in Ids \cup {0}
  BY DEF TypeOK, Snapshot, Me
<1>2. ledger' \in [Findings -> Ids \cup {0}]
  BY <1>1 DEF WritesFinding, OthersOK
<1>3. QED
  BY <1>2 DEF WritesFinding, github, OthersOK

LEMMA HandlerStepOthersOK ==
  ASSUME TypeOK, OthersOK, JobsOK, NEW w \in Worker, HandlerStep(w)
  PROVE  OthersOK'
<1>1. CASE Reads(w)
  BY <1>1 DEF Reads, github, OthersOK
<1>2. CASE Publish(w) \/ Republish(w)
  BY <1>1, <1>2, DecideOthersOK DEF Publish, Republish
<1>3. CASE \E c \in CheckIds : CreateCheck(w, c)
  BY <1>3, CreatesCheckOK DEF CreateCheck
<1>4. CASE RecordTarget(w) \/ RecordCheck(w) \/ RegisterRecheck(w)
  BY <1>4, RecordsOK DEF RecordTarget, RecordCheck, RegisterRecheck
<1>5. CASE Think(w) \/ ReachVerdict(w)
  BY <1>5, ProgressOK DEF Think, ReachVerdict
<1>6. CASE CallSucceeds(w)
  BY <1>6, CallsOK DEF CallSucceeds
<1>7. CASE Schedule(w)
  BY <1>7 DEF Schedule, EnqueuesRecheck, github, OthersOK
<1>8. CASE PersistLedger(w) \/ AttachThread(w)
  <2>1. job[w].stored \subseteq Findings
    BY DEF JobsOK, Job
  <2>2. QED
    BY <1>1, <1>8, <2>1, WritesFindingOthersOK DEF PersistLedger, LeavesLedger, AttachThread
<1>9. QED
  BY <1>1, <1>2, <1>3, <1>4, <1>5, <1>6, <1>7, <1>8
     DEF HandlerStep, Ignore, ReadContext, FindActive, ClosedContext, ConflictContext,
         ProviderCooldown, SkipMerge, Recheck

LEMMA FailureOthersOK ==
  ASSUME TypeOK, OthersOK, JobsOK, NEW w \in Worker, CallFails(w) \/ CreateFails(w)
  PROVE  OthersOK'
<1>1. CASE Reads(w)
  BY <1>1 DEF Reads, github, OthersOK
<1>2. CASE CarriedOut(w)
  BY <1>2, CallsOK, RecordsOK DEF CarriedOut, EnqueuesRecheck, github, OthersOK
<1>3. CASE \E c \in CheckIds : CreatesCheck(w, c)
  BY <1>3, CreatesCheckOK
<1>4. QED
  BY <1>1, <1>2, <1>3, WritesFindingOthersOK DEF CallFails, CreateFails

(* Pushes, closings and results of CI.                                     *)
LEMMA PrEventOK ==
  ASSUME OthersOK, PrEvent
  PROVE  OthersOK'
<1>1. pr \in PullRequest
  BY DEF OthersOK
<1>2. pr.open \in BOOLEAN /\ pr.mergeable \in BOOLEAN /\ pr.events + 1 \in Nat
  BY <1>1 DEF PullRequest
<1>3. PICK next : /\ next.head \in Heads /\ next.open \in BOOLEAN /\ next.mergeable \in BOOLEAN
                  /\ next.ci \in {"none", "pending", "failing", "green"}
                  /\ pr' = [head |-> next.head, open |-> next.open, mergeable |-> next.mergeable,
                            ci |-> next.ci, events |-> pr.events + 1]
  <2>1. PICK next \in
          [head : {pr.head}, open : {~pr.open}, mergeable : {pr.mergeable}, ci : {pr.ci}]
          \cup [head : {pr.head}, open : {pr.open}, mergeable : {~pr.mergeable}, ci : {pr.ci}]
          \cup [head : {pr.head}, open : {pr.open}, mergeable : {pr.mergeable},
                ci : {"pending", "failing", "green"} \ {pr.ci}]
          \cup [head : {pr.head + 1} \cap Heads, open : {pr.open}, mergeable : {pr.mergeable},
                ci : {"none", "pending"}] :
        pr' = [head |-> next.head, open |-> next.open, mergeable |-> next.mergeable,
               ci |-> next.ci, events |-> pr.events + 1]
    BY DEF PrEvent
  <2>2. /\ next.head \in {pr.head} \cup Heads
        /\ next.ci \in {pr.ci, "none", "pending", "failing", "green"}
    OBVIOUS
  <2>3. next.open \in BOOLEAN /\ next.mergeable \in BOOLEAN
    BY <1>2
  <2>4. QED
    BY <1>1, <2>1, <2>2, <2>3 DEF PullRequest
<1>4. pr' \in PullRequest
  BY <1>2, <1>3 DEF PullRequest
<1>5. QED
  BY <1>4 DEF PrEvent, OthersOK

-----------------------------------------------------------------------------
LEMMA ShapeParts ==
  ShapeInv <=> /\ UniqueInv /\ RowKeysKnown
               /\ JobsOK /\ OthersOK /\ errors \in Nat
  BY DEF ShapeInv, ReviewTypeOK, UniqueInv, JobsOK, OthersOK

LEMMA NextShapeParts ==
  ASSUME UniqueInv', RowKeysKnown', JobsOK', OthersOK', errors' \in Nat
  PROVE  ShapeInv'
  BY DEF ShapeInv, ReviewTypeOK, UniqueInv, JobsOK, OthersOK

LEMMA ShapeInit == ReviewInit => ShapeInv
<1> SUFFICES ASSUME ReviewInit PROVE ShapeInv
  OBVIOUS
<1>1. UniqueInv
  BY UniqueInit DEF ReviewInit
<1>2. RowKeysKnown
  BY DEF ReviewInit, Init, RowKeysKnown, AbsentRow
<1>3. JobsOK
  <2>1. NoJob \in Job /\ Shaped(NoJob)
    BY NoJobType
  <2>2. QED
    BY <2>1 DEF ReviewInit, JobsOK
<1>4. OthersOK
  <2>1. NoRecord \in Record
    BY DEF NoRecord, Record
  <2>2. AbsentCheck \in CheckRun
    BY DEF AbsentCheck, CheckRun
  <2>3. pr \in PullRequest
    <3>1. 1 \in Heads
      BY DEF Heads
    <3>2. /\ pr = [head |-> pr.head, open |-> pr.open, mergeable |-> pr.mergeable,
                   ci |-> pr.ci, events |-> pr.events]
          /\ pr.head \in Heads /\ pr.events \in Nat /\ pr.ci \in {"none", "pending"}
      BY <3>1 DEF ReviewInit
    <3>3. pr.open \in BOOLEAN /\ pr.mergeable \in BOOLEAN
      BY DEF ReviewInit
    <3>4. QED
      BY <3>2, <3>3 DEF PullRequest
  <2>4. QED
    BY <2>1, <2>2, <2>3 DEF ReviewInit, OthersOK
<1>5. errors \in Nat
  BY DEF ReviewInit
<1>6. QED
  BY <1>1, <1>2, <1>3, <1>4, <1>5, ShapeParts

(* No step makes a row under an unknown key.                               *)
LEMMA StepKeysKnown ==
  ASSUME ShapeInv, [ReviewNext]_reviewVars
  PROVE  RowKeysKnown'
<1>1. UniqueInv /\ RowKeysKnown /\ \A w \in Worker : job[w] \in Job /\ Shaped(job[w])
  BY ShapeParts DEF JobsOK
<1>2. CASE UNCHANGED vars
  BY <1>1, <1>2 DEF vars, RowKeysKnown
<1>3. ASSUME NEW w \in Worker, StandsAt(w, "schedule"), EnqueuesRecheck(w) PROVE RowKeysKnown'
  BY <1>1, <1>3, NextRecheckKey, EnqueueKeysKnown DEF EnqueuesRecheck
<1>4. ASSUME NEW w \in Worker, HandlerStep(w) PROVE RowKeysKnown'
  BY <1>2, <1>3, <1>4, HandlerOnQueue DEF Schedule
<1>5. ASSUME NEW w \in Worker, CallFails(w) \/ CreateFails(w) PROVE RowKeysKnown'
  BY <1>2, <1>3, <1>5, FailureOnQueue
<1>6. ASSUME NEW k \in Requests, RequestJob(k) PROVE RowKeysKnown'
  BY <1>1, <1>6, RequestIsNext, EnqueueKeysKnown
<1>7. CASE QueueStep
  BY <1>1, <1>7, QueueStepKeys DEF SameKeys, RowKeysKnown
<1>8. QED
  BY <1>2, <1>4, <1>5, <1>6, <1>7 DEF ReviewNext, ReviewStep, PrEvent, reviewVars

LEMMA ShapeInductive == ShapeInv /\ [ReviewNext]_reviewVars => ShapeInv' /\ [Next]_vars
<1> SUFFICES ASSUME ShapeInv, [ReviewNext]_reviewVars PROVE ShapeInv' /\ [Next]_vars
  OBVIOUS
<1>1. UniqueInv /\ RowKeysKnown /\ JobsOK /\ OthersOK /\ errors \in Nat
  BY ShapeParts
<1>2. [Next]_vars
  BY <1>1, StepOfQueue DEF JobsOK
<1>3. UniqueInv' /\ TypeOK'
  BY <1>1, <1>2, UniqueInductive DEF UniqueInv
<1>4. RowKeysKnown'
  BY StepKeysKnown
<1>5. ASSUME NEW w \in Worker, HandlerStep(w), UNCHANGED errors PROVE ShapeInv'
  BY <1>1, <1>3, <1>4, <1>5, HandlerStepOK, HandlerStepOthersOK, NextShapeParts
     DEF OthersOK, UniqueInv
<1>6. ASSUME NEW w \in Worker, CallFails(w) \/ CreateFails(w) PROVE ShapeInv'
  <2>1. errors' \in Nat
    BY <1>1, <1>6 DEF CallFails, CreateFails, CountError
  <2>2. QED
    BY <1>1, <1>3, <1>4, <1>6, <2>1, FailureOK, FailureOthersOK, NextShapeParts
       DEF UniqueInv
<1>7. CASE PrEvent
  BY <1>1, <1>3, <1>4, <1>7, PrEventOK, NextShapeParts DEF PrEvent, JobsOK
<1>8. ASSUME FollowQueue,
             \A w \in Worker : (run'[w].id # run[w].id /\ run'[w].id # 0) =>
                run'[w].id \in Ids /\ rows[run'[w].id].status # "absent"
      PROVE  ShapeInv'
  BY <1>3, <1>4, <1>8, FollowQueueType DEF ShapeInv
<1>9. ASSUME NEW k \in Requests, RequestJob(k) PROVE ShapeInv'
  BY <1>8, <1>9, RequestIsNext DEF Enqueue
<1>10. CASE QueueStep
  BY <1>1, <1>3, <1>8, <1>10, QueueStepIsNext, TakenRowExists
<1>11. CASE UNCHANGED reviewVars
  BY <1>1, <1>3, <1>4, <1>11, NextShapeParts DEF reviewVars, github, JobsOK, OthersOK
<1>12. QED
  BY <1>2, <1>5, <1>6, <1>7, <1>9, <1>10, <1>11 DEF ReviewNext, ReviewStep

LEMMA ShapeAlways == ReviewSpec => []ShapeInv
  BY ShapeInit, ShapeInductive, PTL DEF ReviewSpec

(* The columns of the rows, the local variables of every handler and what  *)
(* is known of GitHub always have their types; so have the table and the   *)
(* loops beneath them.                                                     *)
THEOREM ReviewTypes == ReviewSpec => []ReviewTypeOK
<1>1. ShapeInv => ReviewTypeOK
  BY DEF ShapeInv
<1>2. QED
  BY <1>1, ShapeAlways, PTL

(* Reviews, agent answers and CI rechecks use the queue as the engine      *)
(* allows: whatever a handler awaits, and however its calls fail, the      *)
(* behaviour of rows, pods and loops is one of WorkflowEngine, so that all *)
(* that is proved of the engine holds of it.                               *)
THEOREM ReviewsUseTheQueue == ReviewSpec => Spec
<1>1. ReviewInit => Init
  BY DEF ReviewInit
<1>2. QED
  BY <1>1, ShapeAlways, ShapeInductive, PTL DEF ReviewSpec, Spec

(* And so a row of theirs is a job of the durable queue: it is worked on by *)
(* one worker at a time, outlives crashes, and is over once, provided a     *)
(* lease outlives the run that holds it.                                    *)
THEOREM ReviewsAreADurableQueue ==
  ASSUME LeaseOutlivesRun
  PROVE  ReviewSpec => ImplementsDurableJobs
BY ReviewsUseTheQueue, EngineIsADurableQueue, PTL
=============================================================================
