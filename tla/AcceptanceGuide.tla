-------------------------- MODULE AcceptanceGuide --------------------------
(***************************************************************************)
(* The acceptance-guide mode, for one pull request: the job that publishes *)
(* the guide once, as one review thread per item and a summary comment     *)
(* (src/src/bot.ts runAcceptanceGuideOnce, runReview, publishAcceptance-   *)
(* Guide), and the status reconciliation that afterwards derives the check *)
(* run from the threads (src/src/status-reconciliation.ts). Jobs come from *)
(* the abstract queue that WorkflowEngine implements. Every awaited call   *)
(* is a step. Stops (SIGTERM) of a running review are ReviewJobs' subject; *)
(* here a pod only crashes. A row that throws is tried again: the attempt  *)
(* budget is WorkflowEngine's subject.                                     *)
(***************************************************************************)
EXTENDS Naturals, FiniteSets

CONSTANTS
  GuideJobs,         \* rows of pull_request events, numbered as inserted
  StatusJobs,        \* rows of status reconciliation events
  Loops,             \* the worker loops <<pod, lane>> that serve this PR
  Items,             \* the items a guide may ask about
  MaxHead,           \* bound: pushes to the PR
  MaxChecks,         \* bound: check runs ever created
  MaxFaults,         \* bound: calls that fail, and crashes of pods, together
  MaxEvents,         \* bound: changes of the PR and its threads
  StatusDuringPublish,  \* FALSE: no status event comes while the guide is posted
  Nobody

ASSUME JobNumbers ==
  /\ GuideJobs \subseteq Nat \ {0} /\ 1 \in GuideJobs
  /\ 0 \notin StatusJobs /\ StatusJobs \cap GuideJobs = {}
ASSUME ItemNumbers == Items \subseteq Nat /\ IsFiniteSet(Items)
ASSUME GuideBounds == MaxHead \in Nat \ {0} /\ MaxChecks \in Nat /\ MaxFaults \in Nat
ASSUME LoopShape ==
  /\ \A w \in Loops : w = <<w[1], w[2]>> /\ w[2] \in {"standard", "status"}
  /\ Nobody \notin Loops

VARIABLES
  phase, holder,     \* the queue: see DurableJobs
  row,               \* what a guide job's row remembers
  pull,              \* the pull request
  thread,            \* the guide's review threads, per item
  notes,             \* markers of the bot's summary comments
  checks,            \* the bot's check runs
  demanded,          \* heads the bot requested changes of
  task,              \* where each loop is in its handler, and its variables
  serial,            \* per pod: whose turn it is in serialize()
  lock,              \* who holds the MySQL lock of this PR
  faults             \* errors and crashes so far; how many crashed before the guide

vars == <<phase, holder, row, pull, thread, notes, checks, demanded, task, serial,
          lock, faults>>
queueVars == <<phase, holder>>
github == <<pull, thread, notes, checks, demanded>>
locks == <<serial, lock>>

Jobs == GuideJobs \cup StatusJobs
PodOf(w) == w[1]
LaneOf(w) == w[2]
Heads == 1..MaxHead
CheckIds == 1..MaxChecks

Queue == INSTANCE DurableJobs WITH Jobs <- Jobs, Workers <- Loops, NoWorker <- Nobody

(* earlier: the jobs that were under way when the row was inserted.        *)
NewRow == [check |-> 0, target |-> 0, started |-> FALSE, earlier |-> {}]

Conclusion == {"none", "success", "action_required", "neutral", "cancelled", "failure"}

(* output: what distinguishes one report from another; a reconciler writes *)
(* the reason with the numbers it read, of open and of resolved threads.   *)
NoOutput == <<"none", 0, 0>>
NoCheck == [head |-> 0, status |-> "absent", conclusion |-> "none", output |-> NoOutput]
Report(head, conclusion, output) ==
  [head |-> head, status |-> "completed", conclusion |-> conclusion, output |-> output]

(* broken: a call of this run failed, so it reports or throws accordingly. *)
Idle == [at |-> "idle", job |-> 0, head |-> 0, check |-> 0, plan |-> "think",
         items |-> {}, posted |-> {}, broken |-> FALSE, inconclusive |-> FALSE,
         markers |-> {}, read |-> [i \in Items |-> "none"], latest |-> NoCheck]

Init ==
  /\ Queue!Init
  /\ row = [j \in GuideJobs |-> NewRow]
  /\ pull = [head |-> 1, open |-> TRUE, mergeable |-> TRUE, events |-> 0]
  /\ thread = [i \in Items |-> "none"]
  /\ notes = {}
  /\ checks = [c \in CheckIds |-> NoCheck]
  /\ demanded = {}
  /\ task = [w \in Loops |-> Idle]
  /\ serial = [p \in {PodOf(w) : w \in Loops} |-> Nobody]
  /\ lock = Nobody
  /\ faults = [errors |-> 0, crashes |-> 0, early |-> 0]

-----------------------------------------------------------------------------
(***************************************************************************)
(* The queue around a handler.                                             *)
(***************************************************************************)
Lane(j) == IF j \in GuideJobs THEN "standard" ELSE "status"

Move(w, t) == task' = [task EXCEPT ![w] = t]
Go(w, at) == Move(w, [task[w] EXCEPT !.at = at])
StandsAt(w, at) == task[w].at = at
Reads == UNCHANGED <<queueVars, row, github, locks>>

(* A row is taken with the check run id it has at that moment.             *)
Lease(w, j) ==
  /\ StandsAt(w, "idle")
  /\ Lane(j) = LaneOf(w)
  /\ Queue!Take(j, w)
  /\ Move(w, [Idle EXCEPT !.at = IF j \in GuideJobs THEN "marker" ELSE "ignore",
                          !.job = j,
                          !.check = IF j \in GuideJobs THEN row[j].check ELSE 0])
  /\ row' = IF j \in GuideJobs THEN [row EXCEPT ![j].started = TRUE] ELSE row
  /\ UNCHANGED <<github, locks, faults>>

Settle(w) ==
  /\ task[w].at \in {"returned", "threw"}
  /\ Queue!Release({task[w].job})
  /\ phase'[task[w].job] = IF StandsAt(w, "returned") THEN "done" ELSE "pending"
  /\ Move(w, Idle)
  /\ UNCHANGED <<row, github, locks, faults>>

FaultsLeft == faults.errors + faults.crashes < MaxFaults

(* Every thread body carries the publication marker, and so does the       *)
(* summary.                                                                *)
Published == "published" \in notes \/ \E i \in Items : thread[i] # "none"

(* A dead connection gives its GET_LOCK back.                              *)
Crash(p) ==
  LET gone == {w \in Loops : PodOf(w) = p}
      lost == {task[w].job : w \in gone} \ {0}
  IN  /\ FaultsLeft
      /\ faults' = [faults EXCEPT !.crashes = @ + 1,
                                  !.early = IF Published THEN @ ELSE @ + 1]
      /\ lost # {}
      /\ Queue!Release(lost)
      /\ \A j \in lost : phase'[j] = "pending"
      /\ task' = [w \in Loops |-> IF w \in gone THEN Idle ELSE task[w]]
      /\ serial' = [serial EXCEPT ![p] = Nobody]
      /\ lock' = IF lock \in gone THEN Nobody ELSE lock
      /\ UNCHANGED <<row, github>>

-----------------------------------------------------------------------------
(***************************************************************************)
(* The guide job. A publication marker, in a thread or in the summary,      *)
(* makes a later job only refresh the check.                               *)
(***************************************************************************)
Marker(w) ==
  /\ StandsAt(w, "marker")
  /\ Go(w, IF Published THEN "turn" ELSE "context")
  /\ Reads

(* runReview: context, target, and the search for an older active review.  *)
Context(w) ==
  /\ StandsAt(w, "context")
  /\ IF ~pull.open /\ task[w].check = 0 THEN Go(w, "returned")
     ELSE Move(w, [task[w] EXCEPT
                     !.at = "target", !.head = pull.head,
                     !.plan = IF ~pull.open THEN "closed"
                              ELSE IF pull.mergeable THEN "think" ELSE "conflict"])
  /\ Reads

RecordsTarget(w) ==
  /\ row' = [row EXCEPT ![task[w].job].target = task[w].head]
  /\ UNCHANGED <<queueVars, github, locks>>

Target(w) ==
  /\ StandsAt(w, "target")
  /\ RecordsTarget(w)
  /\ Go(w, "find")

OlderOfAnyAge(w) ==                                \* mutant
  {i \in GuideJobs : i < task[w].job /\ row[i].target = task[w].head}

(* Older reviews of this HEAD: running, queued, or finished since this row *)
(* was inserted.                                                           *)
Older(w) ==
  {i \in GuideJobs :
     /\ i < task[w].job
     /\ row[i].target = task[w].head
     /\ phase[i] = "done" => i \in row[task[w].job].earlier}

Rank(i) == CASE phase[i] = "active" -> 1 [] phase[i] = "pending" -> 2 [] OTHER -> 3

First(w, i) ==
  /\ i \in Older(w)
  /\ \A k \in Older(w) : Rank(i) < Rank(k) \/ (Rank(i) = Rank(k) /\ i <= k)

Tracked(t) == [t EXCEPT !.at = t.plan]

(* A queued older review answers only for the same trigger: opened,        *)
(* reopened and synchronize differ. One whose pod died still counts as     *)
(* running until its lease expires.                                        *)
Find(w) ==
  /\ StandsAt(w, "find")
  /\ \/ \E i \in GuideJobs :
          /\ First(w, i)
          /\ Move(w, IF phase[i] = "done" \/ row[i].check = 0
                     THEN [task[w] EXCEPT !.at = "returned"]
                     ELSE [task[w] EXCEPT !.at = "join", !.check = row[i].check])
     \/ /\ \A i \in GuideJobs : First(w, i) => phase[i] = "pending"
        /\ Move(w, IF task[w].check = 0 THEN [task[w] EXCEPT !.at = "create"]
                   ELSE Tracked(task[w]))
  /\ Reads

-----------------------------------------------------------------------------
(***************************************************************************)
(* Check runs.                                                             *)
(***************************************************************************)
Reopened(c) ==                                     \* updateInProgressCheck
  IF c = 0 THEN checks
  ELSE [checks EXCEPT ![c].status = "in_progress", ![c].conclusion = "none",
                      ![c].output = NoOutput]

Updates(changed) ==
  /\ checks' = changed
  /\ UNCHANGED <<queueVars, row, pull, thread, notes, demanded, locks>>

Join(w) ==
  /\ StandsAt(w, "join")
  /\ Updates(Reopened(task[w].check))
  /\ Go(w, "returned")

Unused(c) ==
  /\ checks[c].status = "absent"
  /\ \A d \in CheckIds : d < c => checks[d].status # "absent"

Creates(w, c) ==
  /\ Unused(c)
  /\ Updates([checks EXCEPT ![c] = [NoCheck EXCEPT !.head = task[w].head,
                                                   !.status = "in_progress"]])

Create(w) ==
  /\ StandsAt(w, "create")
  /\ \E c \in CheckIds :
       Creates(w, c) /\ Move(w, [task[w] EXCEPT !.at = "record", !.check = c])

RecordsCheck(w) ==
  /\ row' = [row EXCEPT ![task[w].job].check = task[w].check]
  /\ UNCHANGED <<queueVars, github, locks>>

Record(w) ==
  /\ StandsAt(w, "record")
  /\ RecordsCheck(w)
  /\ Move(w, Tracked(task[w]))

Outdated(w) == ~pull.open \/ pull.head # task[w].head

(* The context was of a closed PR, or of one with a merge conflict.        *)
ClosedContext(w) ==
  /\ StandsAt(w, "closed")
  /\ Go(w, IF Outdated(w) THEN "cancel" ELSE "returned")
  /\ Reads

ConflictContext(w) ==
  /\ StandsAt(w, "conflict")
  /\ Go(w, IF Outdated(w) \/ pull.mergeable THEN "cancel" ELSE "demand")
  /\ Reads

(* requestChangesPullRequest.                                              *)
Demands(w) ==
  /\ StandsAt(w, "demand")
  /\ demanded' = demanded \cup {task[w].head}
  /\ UNCHANGED <<queueVars, row, pull, thread, notes, checks, locks>>

Demand(w) == Demands(w) /\ Go(w, "insist")

(* The model has answered: items to ask about, or nothing that could be    *)
(* validated. Progress reports put the check in progress.                  *)
Think(w) ==
  /\ StandsAt(w, "think")
  /\ \/ \E items \in SUBSET Items : Move(w, [task[w] EXCEPT !.at = "current", !.items = items])
     \/ Move(w, [task[w] EXCEPT !.at = "current", !.inconclusive = TRUE])
  /\ Updates(Reopened(task[w].check))

(* No acceptance criteria and no defect review: one item, without a model. *)
NoCriteria(w) ==
  /\ StandsAt(w, "think")
  /\ \E i \in Items : Move(w, [task[w] EXCEPT !.at = "publish", !.items = {i}])
  /\ Reads

(* currentStatusForPublish, by the caller and by publishAcceptanceGuide.   *)
Current(w) ==
  /\ task[w].at \in {"current", "publish"}
  /\ Go(w, IF Outdated(w) THEN "cancel"
           ELSE IF StandsAt(w, "current") THEN "publish" ELSE "post")
  /\ Reads

(* The threads, one call after another.                                    *)
NextItem(w, i) ==
  /\ i \in task[w].items \ task[w].posted
  /\ \A k \in task[w].items \ task[w].posted : i <= k

PostsThread(w, i) ==
  /\ StandsAt(w, "post")
  /\ NextItem(w, i)
  /\ thread' = [thread EXCEPT ![i] = "open"]
  /\ UNCHANGED <<queueVars, row, pull, notes, checks, demanded, locks>>

PostThread(w, i) ==
  /\ PostsThread(w, i)
  /\ Move(w, [task[w] EXCEPT !.posted = @ \cup {i}])

(* The PR has no changed file to attach a thread to.                       *)
NoPath(w) ==
  /\ StandsAt(w, "post")
  /\ task[w].posted = {} /\ task[w].items # {}
  /\ Move(w, [task[w] EXCEPT !.posted = task[w].items, !.broken = TRUE])
  /\ Reads

Summary(w) ==
  {"published"} \cup (IF task[w].broken THEN {"incomplete"} ELSE {})

PostsSummary(w) ==
  /\ StandsAt(w, "post")
  /\ task[w].posted = task[w].items
  /\ notes' = notes \cup Summary(w)
  /\ UNCHANGED <<queueVars, row, pull, thread, checks, demanded, locks>>

PostSummary(w) == PostsSummary(w) /\ Go(w, "conclude")

OutcomeOfPosted(t) ==                              \* mutant
  IF t.inconclusive THEN "neutral"
  ELSE IF t.items # {} /\ ~t.broken THEN "action_required" ELSE "success"

OutcomeOfGuide(t) ==
  IF t.inconclusive \/ t.broken THEN "neutral"
  ELSE IF t.items # {} THEN "action_required" ELSE "success"

Outcome(w) ==
  CASE StandsAt(w, "cancel") -> "cancelled"
    [] StandsAt(w, "abort") -> "failure"
    [] StandsAt(w, "insist") -> "action_required"
    [] OTHER -> OutcomeOfGuide(task[w])

Concludes(w) ==
  /\ task[w].at \in {"conclude", "insist", "cancel", "abort"}
  /\ Updates(IF task[w].check = 0 THEN checks
             ELSE [checks EXCEPT ![task[w].check] = Report(@.head, Outcome(w), <<"guide", 0, 0>>)])

Conclude(w) ==
  /\ Concludes(w)
  /\ Go(w, IF StandsAt(w, "abort") THEN "threw" ELSE "returned")

-----------------------------------------------------------------------------
(***************************************************************************)
(* Status reconciliation: in turn within the process, then under the       *)
(* MySQL lock, read everything afresh and write once.                      *)
(***************************************************************************)
Ignore(w) ==                                       \* shouldIgnoreClosedPullRequest
  /\ StandsAt(w, "ignore")
  /\ Go(w, IF pull.open THEN "turn" ELSE "returned")
  /\ Reads

Turn(w) ==
  /\ StandsAt(w, "turn")
  /\ serial[PodOf(w)] = Nobody
  /\ serial' = [serial EXCEPT ![PodOf(w)] = w]
  /\ Go(w, "lock")
  /\ UNCHANGED <<queueVars, row, github, lock>>

LockNeverTaken(w) == FALSE                         \* mutant
LockTaken(w) == lock # Nobody

GetLock(w) ==
  /\ StandsAt(w, "lock")
  /\ ~LockTaken(w)
  /\ lock' = w
  /\ Go(w, "pull")
  /\ UNCHANGED <<queueVars, row, github, serial>>

Throws(w) == Move(w, [task[w] EXCEPT !.at = "leave", !.broken = TRUE])

ReadPull(w) ==
  /\ StandsAt(w, "pull")
  /\ Move(w, [task[w] EXCEPT !.at = IF pull.open THEN "publication" ELSE "leave",
                             !.head = pull.head])
  /\ Reads

ReadPublication(w) ==
  /\ StandsAt(w, "publication")
  /\ Move(w, [task[w] EXCEPT
                !.at = "threads",
                !.markers = (IF Published THEN {"published"} ELSE {}) \cup (notes \cap {"incomplete"})])
  /\ Reads

ReadThreads(w) ==
  /\ StandsAt(w, "threads")
  /\ IF pull.head # task[w].head THEN Throws(w)
     ELSE Move(w, [task[w] EXCEPT !.at = "checks", !.read = thread])
  /\ Reads

OfHead(h) == {c \in CheckIds : checks[c].head = h}
LatestOf(h) == CHOOSE c \in OfHead(h) : \A d \in OfHead(h) : d <= c

ReadChecks(w) ==
  /\ StandsAt(w, "checks")
  /\ Move(w, IF OfHead(task[w].head) = {}
             THEN [task[w] EXCEPT !.at = "reread", !.check = 0, !.latest = NoCheck]
             ELSE LET c == LatestOf(task[w].head)
                  IN  [task[w] EXCEPT !.at = "reread", !.check = c, !.latest = checks[c]])
  /\ Reads

InState(read, how) == Cardinality({i \in Items : read[i] = how})

Findings(w) ==
  LET open == InState(task[w].read, "open") IN
  IF "published" \notin task[w].markers
  THEN Report(task[w].head, "action_required", <<"GUIDE_NOT_PUBLISHED", 0, 0>>)
  ELSE IF open > 0
       THEN Report(task[w].head, "action_required",
                   <<"UNRESOLVED_GUIDE_THREADS", open, InState(task[w].read, "resolved")>>)
  ELSE IF "incomplete" \in task[w].markers
       THEN Report(task[w].head, "neutral", <<"GUIDE_PUBLICATION_INCOMPLETE", 0, 0>>)
  ELSE Report(task[w].head, "success",
              <<"GUIDE_THREADS_RESOLVED", 0, InState(task[w].read, "resolved")>>)

Reread(w) ==
  /\ StandsAt(w, "reread")
  /\ IF pull.open /\ pull.head # task[w].head THEN Throws(w)
     ELSE Go(w, IF ~pull.open \/ task[w].latest = Findings(w) THEN "leave" ELSE "write")
  /\ Reads

Writes(w) ==
  /\ StandsAt(w, "write")
  /\ IF task[w].check # 0
     THEN Updates([checks EXCEPT ![task[w].check] = Findings(w)])
     ELSE \E c \in CheckIds : Unused(c) /\ Updates([checks EXCEPT ![c] = Findings(w)])

Write(w) == Writes(w) /\ Go(w, "leave")

(* A connection whose RELEASE_LOCK fails is destroyed.                     *)
Leaves(w) ==
  /\ StandsAt(w, "leave")
  /\ lock' = IF lock = w THEN Nobody ELSE lock
  /\ serial' = [serial EXCEPT ![PodOf(w)] = Nobody]
  /\ UNCHANGED <<queueVars, row, github>>

Leave(w) == Leaves(w) /\ Go(w, IF task[w].broken THEN "threw" ELSE "returned")
LeaveFails(w) == Leaves(w) /\ Go(w, "threw")

-----------------------------------------------------------------------------
(***************************************************************************)
(* Failing calls. Any of them may have been carried out all the same.      *)
(***************************************************************************)
CountError ==
  /\ FaultsLeft
  /\ faults' = [faults EXCEPT !.errors = @ + 1]

BeforeTry == {"marker", "context", "target", "find", "join", "record", "ignore"}
InTry == {"closed", "conflict", "demand", "insist", "think", "current", "publish",
          "conclude", "cancel"}
InLock == {"lock", "pull", "publication", "threads", "checks", "reread", "write", "leave"}

Thrown(w) ==
  IF task[w].at \in InLock THEN Throws(w)
  ELSE Go(w, IF task[w].at \in BeforeTry \cup {"abort"} THEN "threw" ELSE "abort")

CarriedOut(w) ==
  \/ StandsAt(w, "target") /\ RecordsTarget(w)
  \/ StandsAt(w, "record") /\ RecordsCheck(w)
  \/ StandsAt(w, "join") /\ Updates(Reopened(task[w].check))
  \/ Demands(w)
  \/ PostsSummary(w)
  \/ Concludes(w)
  \/ Writes(w)

CallFails(w) ==
  /\ \/ task[w].at \in BeforeTry \cup InTry \cup {"abort"} \cup (InLock \ {"leave"})
     \/ StandsAt(w, "post") /\ task[w].posted = task[w].items
  /\ UNCHANGED <<queueVars, row, github, locks>> \/ CarriedOut(w)
  /\ Thrown(w)

(* A failed post is noted and passed over.                                 *)
PostFails(w, i) ==
  /\ StandsAt(w, "post") /\ NextItem(w, i)
  /\ UNCHANGED <<queueVars, row, github, locks>> \/ PostsThread(w, i)
  /\ Move(w, [task[w] EXCEPT !.posted = @ \cup {i}, !.broken = TRUE])

(* createInProgressCheck swallows its error: the job goes on untracked.    *)
CreateFails(w) ==
  /\ StandsAt(w, "create")
  /\ UNCHANGED <<queueVars, row, github, locks>> \/ \E c \in CheckIds : Creates(w, c)
  /\ Move(w, Tracked(task[w]))

-----------------------------------------------------------------------------
(***************************************************************************)
(* The pull request. Every event but a closing, or a conflict that comes   *)
(* and goes with the base branch, is a webhook that becomes a row.         *)
(***************************************************************************)
Submit(j) ==
  /\ Queue!Submit(j)
  /\ row' = IF j \in StatusJobs THEN row
            ELSE [row EXCEPT ![j].earlier =
                    {i \in GuideJobs : row[i].started /\ phase[i] # "done"}]

NextGuideJob(j) == j \in GuideJobs /\ \A i \in GuideJobs : i < j => phase[i] # "none"

Happens(p) ==
  /\ pull.events < MaxEvents
  /\ pull' = [p EXCEPT !.events = @ + 1]
  /\ UNCHANGED <<notes, checks, demanded, task, locks, faults>>

Opened ==
  /\ \A j \in GuideJobs : phase[j] = "none"
  /\ Submit(1)
  /\ UNCHANGED <<github, task, locks, faults>>

Later(j) == NextGuideJob(j) /\ j # 1 /\ Submit(j)

Push ==
  /\ pull.head < MaxHead /\ pull.open
  /\ Happens([pull EXCEPT !.head = @ + 1])
  /\ \E j \in GuideJobs : Later(j)
  /\ UNCHANGED thread

Close ==
  /\ pull.open
  /\ Happens([pull EXCEPT !.open = FALSE])
  /\ UNCHANGED <<queueVars, row, thread>>

Reopen ==
  /\ ~pull.open
  /\ Happens([pull EXCEPT !.open = TRUE])
  /\ \E j \in GuideJobs : Later(j)
  /\ UNCHANGED thread

ConflictChanges ==
  /\ Happens([pull EXCEPT !.mergeable = ~@])
  /\ UNCHANGED <<queueVars, row, thread>>

(* Under the assumption, threads are touched, and status commands given,   *)
(* only once the guide is out and its job has concluded.                   *)
Publishing ==
  \E w \in Loops : LaneOf(w) = "standard"
                   /\ task[w].at \in {"think", "current", "publish", "post", "conclude", "abort"}
Quiet == StatusDuringPublish \/ (Published /\ ~Publishing)

OnlyResolved(i) == thread[i] = "open"              \* mutant
Reported(i) == TRUE        \* isStatusReconciliationEvent: resolved and unresolved

ThreadChanges(i) ==
  /\ Quiet
  /\ thread[i] # "none"
  /\ Happens(pull)
  /\ thread' = [thread EXCEPT ![i] = IF @ = "open" THEN "resolved" ELSE "open"]
  /\ IF Reported(i) THEN \E j \in StatusJobs : Submit(j)
     ELSE UNCHANGED <<queueVars, row>>

StatusCommand ==
  /\ Quiet
  /\ Happens(pull)
  /\ \E j \in StatusJobs : Submit(j)
  /\ UNCHANGED thread

-----------------------------------------------------------------------------
Handler(w) ==
  \/ Marker(w) \/ Context(w) \/ Target(w) \/ Find(w) \/ Join(w) \/ Create(w) \/ Record(w)
  \/ ClosedContext(w) \/ ConflictContext(w) \/ Demand(w)
  \/ Think(w) \/ NoCriteria(w) \/ Current(w)
  \/ \E i \in Items : PostThread(w, i)
  \/ NoPath(w) \/ PostSummary(w) \/ Conclude(w)
  \/ Ignore(w) \/ Turn(w) \/ GetLock(w)
  \/ ReadPull(w) \/ ReadPublication(w) \/ ReadThreads(w) \/ ReadChecks(w)
  \/ Reread(w) \/ Write(w) \/ Leave(w)

Runs(w) ==
  \/ \E j \in Jobs : Lease(w, j)
  \/ Settle(w)
  \/ Handler(w) /\ UNCHANGED faults

Fails(w) ==
  /\ CountError
  /\ CallFails(w) \/ CreateFails(w) \/ LeaveFails(w) \/ \E i \in Items : PostFails(w, i)

(* Loops that poll an empty queue.                                         *)
AllJobsEnded == \A j \in Jobs : phase[j] \in {"none", "done"}
AtRest == AllJobsEnded /\ UNCHANGED vars

Next ==
  \/ \E w \in Loops : Runs(w) \/ Fails(w)
  \/ AtRest
  \/ \E p \in {PodOf(w) : w \in Loops} : Crash(p)
  \/ Opened \/ Push \/ Close \/ Reopen \/ ConflictChanges \/ StatusCommand
  \/ \E i \in Items : ThreadChanges(i)

Spec == Init /\ [][Next]_vars

(* Loops keep running and awaited calls end.                               *)
FairSpec == Spec /\ \A w \in Loops : WF_vars(Runs(w))

-----------------------------------------------------------------------------
Places ==
  {"idle", "returned", "threw", "create", "post", "abort", "turn"} \cup BeforeTry \cup InTry \cup InLock
ThreadState == {"none", "open", "resolved"}
Marks == {"published", "incomplete"}
Reason == {"none", "guide", "GUIDE_NOT_PUBLISHED", "UNRESOLVED_GUIDE_THREADS",
           "GUIDE_PUBLICATION_INCOMPLETE", "GUIDE_THREADS_RESOLVED"}
Check == [head : Heads \cup {0}, status : {"absent", "in_progress", "completed"},
          conclusion : Conclusion, output : Reason \X Nat \X Nat]
Row == [check : CheckIds \cup {0}, target : Heads \cup {0}, started : BOOLEAN,
        earlier : SUBSET GuideJobs]
Task == [at : Places, job : Jobs \cup {0}, head : Heads \cup {0}, check : CheckIds \cup {0},
         plan : {"think", "closed", "conflict"}, items : SUBSET Items, posted : SUBSET Items,
         broken : BOOLEAN, inconclusive : BOOLEAN, markers : SUBSET Marks,
         read : [Items -> ThreadState], latest : Check]

Types ==
  /\ phase \in [Jobs -> {"none", "pending", "active", "done"}]
  /\ holder \in [Jobs -> Loops \cup {Nobody}]
  /\ row \in [GuideJobs -> Row]
  /\ pull \in [head : Heads, open : BOOLEAN, mergeable : BOOLEAN, events : Nat]
  /\ thread \in [Items -> ThreadState] /\ notes \subseteq Marks /\ demanded \subseteq Heads
  /\ checks \in [CheckIds -> Check]
  /\ task \in [Loops -> Task]
  /\ serial \in [{PodOf(w) : w \in Loops} -> Loops \cup {Nobody}]
  /\ lock \in Loops \cup {Nobody}
  /\ faults \in [errors : Nat, crashes : Nat, early : Nat]

(* Values and places. A check run is concluded exactly if it is completed. *)
(* A reconciler has its pod's turn, and the PR's lock, from its first read *)
(* to its last call.                                                       *)
TypeOK ==
  /\ Types
  /\ \A c \in CheckIds : checks[c].status = "completed" <=> checks[c].conclusion # "none"
  /\ \A w \in Loops : task[w].at \in InLock =>
       serial[PodOf(w)] = w /\ (task[w].at \notin {"lock", "leave"} => lock = w)

Unresolved == {i \in Items : thread[i] = "open"}

(* The check run GitHub shows for the HEAD says what the threads say.      *)
Matches ==
  /\ OfHead(pull.head) # {}
  /\ LET shown == checks[LatestOf(pull.head)] IN
     /\ shown.status = "completed"
     /\ Unresolved # {} <=> shown.conclusion = "action_required"

(* A job that was cut off before its guide was out runs again under the     *)
(* check run it had (bot.ts:1661), though a newer one may be shown by now.  *)
InOneGo == faults.errors = 0 /\ faults.early = 0

(* Once the guide is out and every row has been worked off, the required   *)
(* check of the current HEAD is action_required exactly if a guide thread  *)
(* is unresolved, whatever reconcilers ran side by side and whichever read *)
(* first, and whatever crashed since: none writes an older reading over a  *)
(* newer one. (Not so if a call failed, or a pod crashed before the guide  *)
(* was out: the last write may be lost, or go to an older check run.)      *)
CheckMatchesThreads ==
  (AllJobsEnded /\ pull.open /\ Published /\ InOneGo) => Matches

(* A call that failed, or whose answer was lost, may leave the HEAD with   *)
(* no check run or one that does not conclude, but never, once the rows    *)
(* are worked off, with a success over an unresolved thread.               *)
SuccessMeansResolved ==
  (AllJobsEnded /\ pull.open /\ OfHead(pull.head) # {} /\ Unresolved # {})
    => checks[LatestOf(pull.head)].conclusion # "success"

(* The request that came last, and those of whose reviews it may have to    *)
(* make do: a review that was under way when the request came answers it,  *)
(* if it is of the same HEAD, and so do those that answered that one.      *)
LastJob == CHOOSE j \in GuideJobs :
  phase[j] # "none" /\ \A k \in GuideJobs : phase[k] # "none" => k <= j
WithThoseBefore(S) == \A j \in S : row[j].earlier \subseteq S
Answering(j) ==
  {i \in GuideJobs : \A S \in SUBSET GuideJobs : j \in S /\ WithThoseBefore(S) => i \in S}

CancelledByOneOf(S) ==
  \E i \in S : /\ row[i].check # 0
               /\ checks[row[i].check].head = pull.head
               /\ checks[row[i].check].conclusion = "cancelled"

(* When every row of an open pull request has been worked off, no pod      *)
(* crashed and no call failed, it has its guide, or its HEAD was told of a *)
(* merge conflict, or a review that answers the last request has cancelled *)
(* its check of the HEAD: a request is not answered by a review that was   *)
(* over before. (After a crash it may be: a job run again that finds the   *)
(* pull request closed does nothing, and counts as the older review of the *)
(* job that the reopening started.)                                        *)
GuideIsNotLost ==
  (AllJobsEnded /\ pull.open /\ faults.crashes + faults.errors = 0
     /\ \E j \in GuideJobs : phase[j] = "done")
    => \/ Published
       \/ pull.head \in demanded
       \/ CancelledByOneOf(Answering(LastJob))

(* Whatever is wrong on the check is put right, or the pull request is     *)
(* closed, unless a call fails or the guide was not posted in one go: the  *)
(* last write of a failed job may be the one that was needed.              *)
WrongCheckIsRepaired ==
  (pull.open /\ Published /\ ~Matches) ~> (~pull.open \/ Matches \/ ~InOneGo)
=============================================================================
