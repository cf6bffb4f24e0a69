--------------------------- MODULE WorkflowEngine ---------------------------
(***************************************************************************)
(* The MySQL workflow queue and the worker loops that drain it             *)
(* (src/src/workflow.ts). A row is one job; a pod runs one WorkflowEngine, *)
(* which is two loops: the "standard" lane and the "status" lane. What the *)
(* bot does with a leased row (PrBot.processEvent) is a single busy phase  *)
(* here: it returns, or throws one of the three kinds of error processOne  *)
(* tells apart. ReviewJobs opens that phase up.                            *)
(*                                                                         *)
(* Clock values are abstracted to the only comparisons the queries make:   *)
(*   due    next_run_at <= now           young  created_at is still inside *)
(*   lease  none / live / expired               the transient retry window *)
(***************************************************************************)
EXTENDS Naturals

CONSTANTS
  MaxRows,           \* bound: rows ever inserted (ids are 1..MaxRows)
  Keys,              \* delivery ids and synthetic dedupe keys
  Pods,              \* pod slots; a restarted pod reuses its slot
  Lanes,             \* the lanes a pod runs
  MaxAttempts,       \* workflowMaxAttempts, stored in every row
  LeaseOutlivesRun,  \* TRUE: no lease of a live worker ever expires
  MaxOutages,        \* bound: crashes and stops of pods
  MaxDbErrors,       \* bound: failed or unacknowledged database calls
  NoKey, Nobody      \* "no value" markers

ASSUME MaxAttemptsAssumption == MaxAttempts \in Nat \ {0}
ASSUME MaxRowsAssumption == MaxRows \in Nat
ASSUME LanesAssumption == Lanes \subseteq {"standard", "status"}
ASSUME NoValueAssumption == NoKey \notin Keys /\ Nobody \notin Pods

VARIABLES
  rows,      \* the table gemini_pr_bot_workflows
  pod,       \* state of each pod
  pc,        \* where each worker loop is
  run,       \* the WorkflowRun snapshot each loop holds
  outages, dbErrors

vars == <<rows, pod, pc, run, outages, dbErrors>>

Ids == 1..MaxRows
Worker == Pods \X Lanes
PodOf(w) == w[1]
LaneOf(w) == w[2]

Settled == {"completed", "failed"}

Row == [status : {"absent", "queued", "running", "completed", "failed"},
        key : Keys \cup {NoKey},
        lane : {"standard", "status"},
        attempts : 0..MaxAttempts,
        owner : Pods \cup {Nobody},
        lease : {"none", "live", "expired"},
        due : BOOLEAN,
        young : BOOLEAN]

AbsentRow == [status |-> "absent", key |-> NoKey, lane |-> "standard",
              attempts |-> 0, owner |-> Nobody, lease |-> "none",
              due |-> FALSE, young |-> TRUE]

(* The part of a WorkflowRun the engine reads after the lease transaction. *)
Snapshot == [id : Ids \cup {0}, attempts : 0..MaxAttempts]
NoRun == [id |-> 0, attempts |-> 0]

Phase == {"idle", "polling", "leasing", "busy", "failing", "recovering",
          "exited", "off"}

-----------------------------------------------------------------------------
(***************************************************************************)
(* The statements of MysqlWorkflowStore, as functions on one row.          *)
(***************************************************************************)

Released(r, status) ==
  [r EXCEPT !.status = status, !.owner = Nobody, !.lease = "none"]

CompletedRow(r) == Released(r, "completed")

FailedRowOneMore(r, attempts) ==                         \* mutant
  IF attempts <= MaxAttempts
  THEN [Released(r, "queued") EXCEPT !.due = FALSE]
  ELSE Released(r, "failed")

(* fail() decides with the attempts of the snapshot, not of the row. *)
FailedRow(r, attempts) ==
  IF attempts < MaxAttempts
  THEN [Released(r, "queued") EXCEPT !.due = FALSE]
  ELSE Released(r, "failed")

(* GREATEST(attempts - 1, 0); both defer statements have this body. *)
DeferredRow(r) ==
  [Released(r, "queued") EXCEPT
     !.attempts = IF @ > 0 THEN @ - 1 ELSE 0,
     !.due = FALSE]

ExpiredFailedRow(r) == Released(r, "failed")

LeasedRow(r, p) ==
  [r EXCEPT !.status = "running", !.attempts = @ + 1,
            !.owner = p, !.lease = "live"]

RecoveredRow(r, p) == [r EXCEPT !.owner = p, !.lease = "live"]

LeasableOverBudget(i, lane) ==                           \* mutant
  /\ rows[i].attempts <= MaxAttempts
  /\ rows[i].lane = lane
  /\ \/ rows[i].status = "queued" /\ rows[i].due
     \/ rows[i].status = "running" /\ rows[i].lease = "expired"

LeasableWhileLeased(i, lane) ==                          \* mutant
  /\ rows[i].attempts < MaxAttempts
  /\ rows[i].lane = lane
  /\ (rows[i].status = "queued" /\ rows[i].due) \/ rows[i].status = "running"

LeasableOnceSettled(i, lane) ==                          \* mutant
  /\ rows[i].attempts < MaxAttempts
  /\ rows[i].lane = lane
  /\ \/ rows[i].status # "running" /\ rows[i].due
     \/ rows[i].status = "running" /\ rows[i].lease = "expired"

(* The WHERE clauses of leaseNext and leaseExpiredFinalAttempt. *)
Leasable(i, lane) ==
  /\ rows[i].attempts < MaxAttempts
  /\ rows[i].lane = lane
  /\ \/ rows[i].status = "queued" /\ rows[i].due
     \/ rows[i].status = "running" /\ rows[i].lease = "expired"

FirstLeasableOfAnyLane(i, lane) ==                       \* mutant
  /\ Leasable(i, lane)
  /\ \A j \in Ids : (\E l \in Lanes : Leasable(j, l)) => i <= j

FirstLeasable(i, lane) ==          \* ORDER BY created_at ASC LIMIT 1
  /\ Leasable(i, lane)
  /\ \A j \in Ids : Leasable(j, lane) => i <= j

ExpiredPastFinal(i) ==                                   \* mutant
  /\ rows[i].status = "running"
  /\ rows[i].attempts > MaxAttempts
  /\ rows[i].lease = "expired"

ExpiredFinal(i) ==
  /\ rows[i].status = "running"
  /\ rows[i].attempts >= MaxAttempts
  /\ rows[i].lease = "expired"

KeyTakenUnsettled(k) ==                                  \* mutant
  \E i \in Ids : rows[i].status \in {"queued", "running"} /\ rows[i].key = k

KeyTaken(k) ==
  \E i \in Ids : rows[i].status # "absent" /\ rows[i].key = k

FreshId(i) ==                      \* AUTO_INCREMENT
  /\ rows[i].status = "absent"
  /\ \A j \in Ids : j < i => rows[j].status # "absent"

NewRow(k, lane, due) ==
  [AbsentRow EXCEPT !.status = "queued", !.key = k, !.lane = lane,
                    !.due = due]

(***************************************************************************)
(* INSERT IGNORE: a key already present in any state drops the insert.     *)
(***************************************************************************)
InsertIgnore(k, lane, due) ==
  IF KeyTaken(k)
  THEN UNCHANGED rows
  ELSE \E i \in Ids : /\ FreshId(i)
                      /\ rows' = [rows EXCEPT ![i] = NewRow(k, lane, due)]

-----------------------------------------------------------------------------
Init ==
  /\ rows = [i \in Ids |-> AbsentRow]
  /\ pod = [p \in Pods |-> "up"]
  /\ pc = [w \in Worker |-> "idle"]
  /\ run = [w \in Worker |-> NoRun]
  /\ outages = 0
  /\ dbErrors = 0

(***************************************************************************)
(* WorkflowEngine.enqueue / enqueueSynthetic: a webhook reaches some pod   *)
(* that is up. A synthetic job is inserted with a delay, so not yet due.   *)
(***************************************************************************)
Enqueue(k, lane, due) ==
  /\ \E p \in Pods : pod[p] # "down"
  /\ InsertIgnore(k, lane, due)
  /\ UNCHANGED <<pod, pc, run, outages, dbErrors>>

Goto(w, phase) == pc' = [pc EXCEPT ![w] = phase]

(***************************************************************************)
(* loop(): `running` is tested only at the head of an iteration. The       *)
(* standard lane first looks for an expired final attempt, then both lanes *)
(* call leaseNext; each call is an awaited query, answered in a later step.*)
(***************************************************************************)
BeginPoll(w) ==
  /\ pc[w] = "idle"
  /\ pod[PodOf(w)] = "up"
  /\ Goto(w, IF LaneOf(w) = "standard" THEN "polling" ELSE "leasing")
  /\ UNCHANGED <<rows, pod, run, outages, dbErrors>>

LeaseExpiredFinal(w, i) ==
  /\ pc[w] = "polling"
  /\ ExpiredFinal(i)
  /\ rows' = [rows EXCEPT ![i] = RecoveredRow(@, PodOf(w))]
  /\ run' = [run EXCEPT ![w] = [id |-> i, attempts |-> rows[i].attempts]]
  /\ Goto(w, "recovering")
  /\ UNCHANGED <<pod, outages, dbErrors>>

NoExpiredFinal(w) ==
  /\ pc[w] = "polling"
  /\ \A i \in Ids : ~ExpiredFinal(i)
  /\ Goto(w, "leasing")
  /\ UNCHANGED <<rows, pod, run, outages, dbErrors>>

LeaseNext(w, i) ==
  /\ pc[w] = "leasing"
  /\ FirstLeasable(i, LaneOf(w))
  /\ rows' = [rows EXCEPT ![i] = LeasedRow(@, PodOf(w))]
  /\ run' = [run EXCEPT ![w] = [id |-> i, attempts |-> rows[i].attempts + 1]]
  /\ Goto(w, "busy")
  /\ UNCHANGED <<pod, outages, dbErrors>>

NothingToLease(w) ==
  /\ pc[w] = "leasing"
  /\ \A i \in Ids : ~Leasable(i, LaneOf(w))
  /\ Goto(w, "idle")
  /\ UNCHANGED <<rows, pod, run, outages, dbErrors>>

(***************************************************************************)
(* processOne after the handler. Every statement is WHERE id = ?: it       *)
(* neither asks who owns the row nor what state the row is in.             *)
(***************************************************************************)
LetGo(w) ==
  /\ Goto(w, "idle")
  /\ run' = [run EXCEPT ![w] = NoRun]

Settle(w, r) ==
  /\ rows' = [rows EXCEPT ![run[w].id] = r]
  /\ LetGo(w)
  /\ UNCHANGED <<pod, outages, dbErrors>>

Complete(w) ==
  /\ pc[w] = "busy"
  /\ Settle(w, CompletedRow(rows[run[w].id]))

(* "busy": the handler threw; "failing": complete() itself threw. *)
Fail(w) ==
  /\ pc[w] \in {"busy", "failing"}
  /\ Settle(w, FailedRow(rows[run[w].id], run[w].attempts))

(* Only AI work raises AiProviderCooldownError; status rows do none. *)
DeferForProviderCooldown(w) ==
  /\ pc[w] = "busy"
  /\ LaneOf(w) = "standard"
  /\ Settle(w, DeferredRow(rows[run[w].id]))

DeferForTransientFailure(w) ==
  /\ pc[w] = "busy"
  /\ rows[run[w].id].young
  /\ Settle(w, DeferredRow(rows[run[w].id]))

FailExpiredFinalAttempt(w) ==
  /\ pc[w] = "recovering"
  /\ Settle(w, ExpiredFailedRow(rows[run[w].id]))

-----------------------------------------------------------------------------
(***************************************************************************)
(* Database errors. A statement that fails may still have been applied.    *)
(***************************************************************************)
CountDbError ==
  /\ dbErrors < MaxDbErrors
  /\ dbErrors' = dbErrors + 1

(* The lease transaction threw: caught in loop(), the worker forgets it. *)
LeaseLost(w) ==
  /\ CountDbError
  /\ \/ /\ pc[w] \in {"polling", "leasing"}
        /\ UNCHANGED rows
     \/ /\ pc[w] = "leasing"
        /\ \E i \in Ids : /\ FirstLeasable(i, LaneOf(w))
                          /\ rows' = [rows EXCEPT ![i] = LeasedRow(@, PodOf(w))]
     \/ /\ pc[w] = "polling"
        /\ \E i \in Ids : /\ ExpiredFinal(i)
                          /\ rows' = [rows EXCEPT ![i] = RecoveredRow(@, PodOf(w))]
  /\ Goto(w, "idle")
  /\ UNCHANGED <<pod, run, outages>>

(* complete() is inside the try: its error is handled as the handler's. *)
CompleteThrows(w) ==
  /\ pc[w] = "busy"
  /\ CountDbError
  /\ \/ UNCHANGED rows
     \/ rows' = [rows EXCEPT ![run[w].id] = CompletedRow(@)]
  /\ Goto(w, "failing")
  /\ UNCHANGED <<pod, run, outages>>

(* fail(), a defer or failExpiredFinalAttempt threw without effect. *)
SettleThrows(w) ==
  /\ pc[w] \in {"busy", "failing", "recovering"}
  /\ CountDbError
  /\ LetGo(w)
  /\ UNCHANGED <<rows, pod, outages>>

-----------------------------------------------------------------------------
(***************************************************************************)
(* Pods: SIGTERM (stop), the loops finishing, the kill of a pod, restart.  *)
(***************************************************************************)
CountOutage ==
  /\ outages < MaxOutages
  /\ outages' = outages + 1

Stop(p) ==
  /\ pod[p] = "up"
  /\ CountOutage
  /\ pod' = [pod EXCEPT ![p] = "stopping"]
  /\ UNCHANGED <<rows, pc, run, dbErrors>>

ExitLoop(w) ==
  /\ pc[w] = "idle"
  /\ pod[PodOf(w)] = "stopping"
  /\ Goto(w, "exited")
  /\ UNCHANGED <<rows, pod, run, outages, dbErrors>>

PodDown(p) ==
  /\ pod' = [pod EXCEPT ![p] = "down"]
  /\ pc' = [w \in Worker |-> IF PodOf(w) = p THEN "off" ELSE pc[w]]
  /\ run' = [w \in Worker |-> IF PodOf(w) = p THEN NoRun ELSE run[w]]
  /\ UNCHANGED rows

Exit(p) ==
  /\ pod[p] = "stopping"
  /\ \A w \in Worker : PodOf(w) = p => pc[w] = "exited"
  /\ PodDown(p)
  /\ UNCHANGED <<outages, dbErrors>>

(* The force-exit timer of shutdown(): a loop was still busy. *)
ForceExit(p) ==
  /\ pod[p] = "stopping"
  /\ \E w \in Worker : PodOf(w) = p /\ pc[w] # "exited"
  /\ PodDown(p)
  /\ UNCHANGED <<outages, dbErrors>>

(* Killed without notice: out of memory, node lost. *)
Crash(p) ==
  /\ pod[p] = "up"
  /\ CountOutage
  /\ PodDown(p)
  /\ UNCHANGED dbErrors

Restart(p) ==
  /\ pod[p] = "down"
  /\ pod' = [pod EXCEPT ![p] = "up"]
  /\ pc' = [w \in Worker |-> IF PodOf(w) = p THEN "idle" ELSE pc[w]]
  /\ UNCHANGED <<rows, run, outages, dbErrors>>

-----------------------------------------------------------------------------
(***************************************************************************)
(* Time. There is no lease renewal, so a lease may run out under a worker  *)
(* that is still busy unless the lease is assumed to outlive every run.    *)
(***************************************************************************)
Holds(w, i) == run[w].id = i

LeaseExpires(i) ==
  /\ rows[i].lease = "live"
  /\ LeaseOutlivesRun => \A w \in Worker : ~Holds(w, i)
  /\ rows' = [rows EXCEPT ![i].lease = "expired"]
  /\ UNCHANGED <<pod, pc, run, outages, dbErrors>>

BecomesDue(i) ==
  /\ rows[i].status = "queued"
  /\ ~rows[i].due
  /\ rows' = [rows EXCEPT ![i].due = TRUE]
  /\ UNCHANGED <<pod, pc, run, outages, dbErrors>>

RetryWindowCloses(i) ==
  /\ rows[i].status \notin {"absent"} \cup Settled
  /\ rows[i].young
  /\ rows' = [rows EXCEPT ![i].young = FALSE]
  /\ UNCHANGED <<pod, pc, run, outages, dbErrors>>

-----------------------------------------------------------------------------
WorkerStep(w) ==
  \/ BeginPoll(w)
  \/ \E i \in Ids : LeaseExpiredFinal(w, i)
  \/ NoExpiredFinal(w)
  \/ \E i \in Ids : LeaseNext(w, i)
  \/ NothingToLease(w)
  \/ Complete(w)
  \/ Fail(w)
  \/ DeferForProviderCooldown(w)
  \/ DeferForTransientFailure(w)
  \/ FailExpiredFinalAttempt(w)
  \/ ExitLoop(w)

DbErrorStep(w) == LeaseLost(w) \/ CompleteThrows(w) \/ SettleThrows(w)

PodStep(p) == Stop(p) \/ Exit(p) \/ ForceExit(p) \/ Crash(p) \/ Restart(p)

TimeStep(i) == LeaseExpires(i) \/ BecomesDue(i) \/ RetryWindowCloses(i)

Next ==
  \/ \E k \in Keys, lane \in Lanes, due \in BOOLEAN : Enqueue(k, lane, due)
  \/ \E w \in Worker : WorkerStep(w) \/ DbErrorStep(w)
  \/ \E p \in Pods : PodStep(p)
  \/ \E i \in Ids : TimeStep(i)

Spec == Init /\ [][Next]_vars

-----------------------------------------------------------------------------
(***************************************************************************)
(* Invariants.                                                             *)
(***************************************************************************)

(* Types of the variables; in particular no row is ever leased beyond its  *)
(* attempt budget.                                                         *)
TypeOK ==
  /\ rows \in [Ids -> Row]
  /\ pod \in [Pods -> {"up", "stopping", "down"}]
  /\ pc \in [Worker -> Phase]
  /\ run \in [Worker -> Snapshot]
  /\ outages \in Nat
  /\ dbErrors \in Nat

Working == {"busy", "failing", "recovering"}

(* Two loops, of one pod or of two, never work on the same row at the same *)
(* time, provided a lease outlives the run it covers: leaseNext and        *)
(* leaseExpiredFinalAttempt hand a row out only when nobody has it.        *)
OneWorkerPerRow ==
  \A v, w \in Worker :
    (v # w /\ run[v].id # 0) => run[v].id # run[w].id

(* A loop has a row in hand exactly while it works, and what processOne    *)
(* remembers of that row is still true when it settles it, although no     *)
(* statement checks that: same attempts, still running under this pod's    *)
(* lease (or already completed by a complete() whose acknowledgement was   *)
(* lost).                                                                  *)
SnapshotIsCurrent ==
  \A w \in Worker :
    /\ run[w].id # 0 <=> pc[w] \in Working
    /\ pc[w] \in Working =>
         LET r == rows[run[w].id] IN
         /\ r.attempts = run[w].attempts
         /\ \/ r.status = "running" /\ r.lease = "live" /\ r.owner = PodOf(w)
            \/ pc[w] = "failing" /\ r.status = "completed"

(* No unsettled row drops out of every query: a queued row has budget left *)
(* for leaseNext and a running one has a lease that can expire.            *)
NoStrandedRow ==
  \A i \in Ids :
    /\ rows[i].status = "queued" => rows[i].attempts < MaxAttempts
    /\ rows[i].status = "running" => rows[i].lease # "none"

(* One delivery, or one synthetic key, is one row for ever: retries of the *)
(* webhook and concurrent inserts by two pods add nothing.                 *)
UniqueDelivery ==
  \A i, j \in Ids :
    (i # j /\ rows[i].status # "absent" /\ rows[j].status # "absent")
      => rows[i].key # rows[j].key

-----------------------------------------------------------------------------
(***************************************************************************)
(* Action properties and the abstract queue.                               *)
(***************************************************************************)

(* A completed or failed row is re-opened by nobody, except that the       *)
(* worker whose complete() reported an error may requeue it although the   *)
(* statement had been applied.                                             *)
SettledIsFinal ==
  [][\A i \in Ids :
       (rows[i].status \in Settled /\ rows'[i].status # rows[i].status)
         => \E w \in Worker : pc[w] = "failing" /\ Holds(w, i)]_vars

HeldBy(i) == {w \in Worker : Holds(w, i)}

jobHolder ==
  [i \in Ids |-> IF HeldBy(i) = {} THEN Nobody
                 ELSE CHOOSE w \in Worker : Holds(w, i)]

(* A row some worker has in hand is active, whatever its status says. *)
jobPhase ==
  [i \in Ids |-> IF HeldBy(i) # {} THEN "active"
                 ELSE IF rows[i].status = "absent" THEN "none"
                 ELSE IF rows[i].status \in Settled THEN "done"
                 ELSE "pending"]

Abstract == INSTANCE DurableJobs
              WITH Jobs <- Ids, Workers <- Worker, NoWorker <- Nobody,
                   phase <- jobPhase, holder <- jobHolder

(* The queue, with its leases, retries, crashes and lost acknowledgements, *)
(* implements the abstract durable queue: one holder at a time, nothing    *)
(* done is ever taken again.                                               *)
ImplementsDurableJobs == Abstract!Spec

-----------------------------------------------------------------------------
(***************************************************************************)
(* Liveness. The loops are promise chains that keep running; every awaited *)
(* call has a timeout, so a busy worker settles; the clock advances; the   *)
(* deployment restarts pods and kills those that outstay their grace.      *)
(* The strong fairness is the one assumption about the outside: providers  *)
(* do not cool down every time for ever. GitHub may fail every time: its   *)
(* retry window closes.                                                    *)
(***************************************************************************)
Clock ==
  \A i \in Ids : /\ WF_vars(LeaseExpires(i))
                 /\ WF_vars(BecomesDue(i))
                 /\ WF_vars(RetryWindowCloses(i))

Deployment ==
  \A p \in Pods : WF_vars(Exit(p)) /\ WF_vars(ForceExit(p)) /\ WF_vars(Restart(p))

WorkerFairness(w) ==
  /\ WF_vars(WorkerStep(w))
  /\ SF_vars(Complete(w) \/ Fail(w) \/ DeferForTransientFailure(w))

FairSpec ==
  Spec /\ Clock /\ Deployment /\ \A w \in Worker : WorkerFairness(w)

(* Every enqueued row is eventually completed or failed, through any       *)
(* number of crashes, restarts and database errors the bounds allow.       *)
EveryRowSettles ==
  \A i \in Ids : rows[i].status = "queued" ~> rows[i].status \in Settled

(* A row the seori_pr_bot_workflow_ready_rows gauge counts (queueMetrics:  *)
(* queued and next_run_at <= now) does not stay ready for ever: some loop  *)
(* leases it. It fails when a lease can run out under its worker: the late *)
(* worker's fail() requeues, by its old snapshot, a row whose budget       *)
(* another worker has meanwhile used up, and no query finds it any more.   *)
ReadyRow(i) == rows[i].status = "queued" /\ rows[i].due
ReadyRowsAreLeased == \A i \in Ids : ReadyRow(i) ~> ~ReadyRow(i)

(* Only the status loops are required to run: the standard loops may sit   *)
(* in an AI call for ever.                                                 *)
StatusLaneSpec ==
  Spec /\ Clock /\ Deployment
  /\ \A w \in Worker : LaneOf(w) = "status" => WorkerFairness(w)

(* A queued status row is picked up without the help of any standard loop, *)
(* however many standard rows are older than it.                           *)
StatusRowsDoNotWait ==
  \A i \in Ids :
    (rows[i].lane = "status" /\ rows[i].status = "queued")
      ~> rows[i].status # "queued"
=============================================================================
