----------------------------- MODULE ReviewJobs -----------------------------
(***************************************************************************)
(* What a worker does with a leased row: the busy phase of WorkflowEngine  *)
(* opened up (src/src/bot.ts: runReview with runStructuredReview, runAgent,*)
(* coalescing, the tracked check, handleCiRecheck), for one pull request.  *)
(* Every awaited call to GitHub, to MySQL or to the model is a step of its *)
(* own, so pushes, closings, CI results, other workers, shutdowns and      *)
(* crashes fall between any two of them. Conservative gate mode: the       *)
(* acceptance-guide mode never approves and is not this module's subject.  *)
(*                                                                         *)
(* The kinds of job                                                        *)
(*   "review"    pull_request opened / reopened / synchronize              *)
(*   "command"   a comment asking for /review                              *)
(*   "agent"     a comment with another request                            *)
(*   "ci_recheck" the synthetic row keyed <<check run, head, attempt>>     *)
(***************************************************************************)
EXTENDS WorkflowEngine, FiniteSets

CONSTANTS
  Requests,         \* delivery ids of webhooks that ask for a job
  JobKind,          \* [Requests -> {"review", "command", "agent"}]
  Ask,              \* [Requests -> source and text of the request]
  Findings,         \* what a review of the PR may find, by fingerprint
  MaxRequests,      \* bound: webhooks that arrive
  MaxHead,          \* bound: pushes to the PR
  MaxChecks,        \* bound: check runs ever created
  MaxRechecks,      \* bound: CI rechecks until CI_RECHECK_TIMEOUT_MS is over
  MaxEvents,        \* bound: changes of the PR and of its CI
  MaxCallErrors,    \* bound: calls of a handler that fail or lose their answer
  MaxFaults         \* bound: outages and failed calls together

Heads == 1..MaxHead
CheckIds == 1..MaxChecks
NoCheck == 0
RecheckKeys == CheckIds \X Heads \X (1..MaxRechecks)

ASSUME RequestKeys ==
  Requests \cup RecheckKeys \subseteq Keys /\ Requests \cap RecheckKeys = {}
ASSUME RequestShape ==
  /\ JobKind \in [Requests -> {"review", "command", "agent"}]
  /\ DOMAIN Ask = Requests
ASSUME StandardLane == Lanes = {"standard"}
ASSUME ReviewBounds == MaxHead \in Nat \ {0} /\ MaxChecks \in Nat /\ MaxRechecks \in Nat \ {0}

VARIABLES
  rec,       \* the columns of each row only the handler reads or writes
  job,       \* where each worker is in its handler, and its local variables
  pr,        \* the pull request as GitHub has it
  checks,    \* the bot's check runs
  approved,  \* heads the bot submitted an approving review for
  verdicts,  \* <<head, verdict>> of every review that came to publish one
  ledger,    \* the row whose review wrote each finding of the ledger last
  errors     \* failed calls of handlers so far

github == <<pr, checks, approved, verdicts>>
reviewVars == <<vars, rec, job, github, ledger, errors>>

Record == [kind : {"none", "review", "agent", "ci_recheck"},
           head : Heads \cup {0},
           check : CheckIds \cup {NoCheck},
           started : 0..MaxRows,       \* started_at, completed_at as the
           completed : 0..MaxRows]     \* number of rows inserted by then
NoRecord == [kind |-> "none", head |-> 0, check |-> NoCheck,
             started |-> 0, completed |-> 0]

(* "UNREACHED": the model's answers could not be validated.                *)
GateVerdict == {"PASS", "FAIL", "FOLLOW_UP", "ABSTAIN", "UNREACHED"}
AgentVerdict == {"approve", "close", "comment"}

Conclusion == {"success", "action_required", "neutral", "cancelled", "failure"}

At == {"none", "ignore", "context", "target", "find", "coalesce", "create",
       "record", "closed", "conflict", "think", "verdict", "publish", "ledger",
       "discard", "republish", "request", "post", "approve", "close", "wait",
       "schedule", "finish", "merge", "abort", "register", "recheck", "expired",
       "returned", "threw", "cooldown"}

Job == [at : At, kind : {"none", "review", "command", "agent", "ci_recheck"},
        head : Heads \cup {0}, check : CheckIds \cup {NoCheck},
        other : CheckIds \cup {NoCheck}, try : 0..MaxRechecks,
        plan : {"none", "closed", "conflict", "think"},
        verdict : {"none"} \cup GateVerdict \cup AgentVerdict,
        conclusion : {"none"} \cup Conclusion,
        stored : SUBSET Findings,       \* those its review has written,
        overwritten : SUBSET Findings]  \* and those another has, since it read
                                        \* or wrote them
NoJob == [at |-> "none", kind |-> "none", head |-> 0, check |-> NoCheck,
          other |-> NoCheck, try |-> 0, plan |-> "none", verdict |-> "none",
          conclusion |-> "none", stored |-> {}, overwritten |-> {}]

PullRequest == [head : Heads, open : BOOLEAN, mergeable : BOOLEAN,
                ci : {"none", "pending", "failing", "green"}, events : Nat]
CheckRun == [status : {"absent", "in_progress", "completed"},
             head : Heads \cup {0}, conclusion : {"none"} \cup Conclusion]
AbsentCheck == [status |-> "absent", head |-> 0, conclusion |-> "none"]

ReviewTypeOK ==
  /\ TypeOK
  /\ rec \in [Ids -> Record]
  /\ job \in [Worker -> Job]
  /\ pr \in PullRequest
  /\ checks \in [CheckIds -> CheckRun]
  /\ approved \subseteq Heads
  /\ verdicts \subseteq Heads \X (GateVerdict \cup AgentVerdict)
  /\ ledger \in [Findings -> Ids \cup {0}]
  /\ errors \in Nat

ReviewInit ==
  /\ Init
  /\ rec = [i \in Ids |-> NoRecord]
  /\ job = [w \in Worker |-> NoJob]
  /\ pr \in [head : {1}, open : {TRUE}, mergeable : {TRUE},
             ci : {"none", "pending"}, events : {0}]
  /\ checks = [c \in CheckIds |-> AbsentCheck]
  /\ approved = {}
  /\ verdicts = {}
  /\ ledger = [f \in Findings |-> 0]               \* older rows have no writer here
  /\ errors = 0

-----------------------------------------------------------------------------
(***************************************************************************)
(* The queue around the handler.                                           *)
(***************************************************************************)
RowsInserted == Cardinality({i \in Ids : rows[i].status # "absent"})
Me(w) == run[w].id
Stopping(w) == pod[PodOf(w)] = "stopping"         \* PrBot.shuttingDown

IsRecheck(k) == k \in RecheckKeys

(* leaseNext stamps started_at once, complete() stamps completed_at.       *)
Stamped(i) ==
  [rec[i] EXCEPT
     !.started = IF @ = 0 /\ rows'[i].status = "running" THEN RowsInserted ELSE @,
     !.completed = IF rows'[i].status = "completed" /\ rows[i].status # "completed"
                   THEN RowsInserted ELSE @]

(* processEvent starts with the row's payload and the check_run_id the     *)
(* lease transaction read.                                                 *)
Started(i) ==
  LET k == rows[i].key IN
  IF IsRecheck(k)
  THEN [NoJob EXCEPT !.at = "register", !.kind = "ci_recheck",
                     !.check = k[1], !.head = k[2], !.try = k[3]]
  ELSE [NoJob EXCEPT !.at = IF JobKind[k] = "review" THEN "context" ELSE "ignore",
                     !.kind = JobKind[k], !.check = rec[i].check]

(* What the handler's side of the state becomes when the queue moves: a    *)
(* worker that takes a row up starts, one that lets it go forgets.         *)
FollowQueue ==
  /\ rec' = [i \in Ids |-> Stamped(i)]
  /\ job' = [w \in Worker |->
               IF run'[w].id = run[w].id THEN job[w]
               ELSE IF run'[w].id = 0 THEN NoJob
               ELSE IF pc'[w] = "recovering"
                    THEN [NoJob EXCEPT !.at = "expired",
                                       !.check = rec[run'[w].id].check]
                    ELSE Started(run'[w].id)]
  /\ UNCHANGED <<github, ledger, errors>>

StandsAt(w, how) == job[w].at = how

(* A webhook asks for a job.                                               *)
RequestJob(k) ==
  /\ Cardinality({i \in Ids : rows[i].key \in Requests}) < MaxRequests
  /\ Enqueue(k, "standard", TRUE)
  /\ FollowQueue

Settles(w) ==
  \/ StandsAt(w, "returned") /\ pc[w] = "busy" /\ (Complete(w) \/ CompleteThrows(w))
  \/ StandsAt(w, "threw") /\ (Fail(w) \/ DeferForTransientFailure(w))
  \/ StandsAt(w, "cooldown") /\ DeferForProviderCooldown(w)
  \/ StandsAt(w, "returned") /\ FailExpiredFinalAttempt(w)
  \/ pc[w] = "failing" /\ Fail(w)
  \/ job[w].at \in {"threw", "cooldown", "returned"} /\ SettleThrows(w)

Polls(w) ==
  \/ BeginPoll(w)
  \/ \E i \in Ids : LeaseExpiredFinal(w, i)
  \/ NoExpiredFinal(w)
  \/ \E i \in Ids : LeaseNext(w, i)
  \/ NothingToLease(w)
  \/ LeaseLost(w)
  \/ ExitLoop(w)

QueueStep ==
  /\ \/ \E w \in Worker : Polls(w) \/ Settles(w)
     \/ \E p \in Pods : PodStep(p)
     \/ \E i \in Ids : TimeStep(i)
  /\ FollowQueue

-----------------------------------------------------------------------------
(***************************************************************************)
(* The handler. Move: its next local state. A handler step that does not   *)
(* insert a row leaves the whole engine alone.                             *)
(***************************************************************************)
Move(w, j) == job' = [job EXCEPT ![w] = j]
Go(w, at) == Move(w, [job[w] EXCEPT !.at = at])
Finish(w, conclusion) ==
  Move(w, [job[w] EXCEPT !.at = "finish", !.conclusion = conclusion])
Post(w, conclusion) ==
  Move(w, [job[w] EXCEPT !.at = "post", !.conclusion = conclusion])

(* An approval is submitted for the HEAD of the status that was just read. *)
GoApprove(w) == Move(w, [job[w] EXCEPT !.at = "approve", !.head = pr.head])

Reads(w) == UNCHANGED <<vars, rec, github, ledger>>

(* shouldIgnoreClosedPullRequest, before a command is obeyed.              *)
Ignore(w) ==
  /\ StandsAt(w, "ignore")
  /\ Go(w, IF pr.open THEN "context" ELSE "returned")
  /\ Reads(w)

(* createTrackedCheck: the row's check run is used if it has one.          *)
Tracked(j) == [j EXCEPT !.at = j.plan]
AlwaysCreate(j) == [j EXCEPT !.at = "create"]      \* mutant
CheckOrCreate(j) ==
  IF j.check = NoCheck THEN [j EXCEPT !.at = "create"] ELSE Tracked(j)

(* buildPullRequestContext pins the HEAD the job is about.                 *)
ReadContext(w) ==
  /\ StandsAt(w, "context")
  /\ IF Stopping(w) \/ (~pr.open /\ job[w].check = NoCheck)
     THEN Go(w, "returned")
     ELSE LET j == [job[w] EXCEPT
                      !.head = pr.head,
                      !.plan = IF ~pr.open THEN "closed"
                               ELSE IF ~pr.mergeable THEN "conflict" ELSE "think"]
          IN  Move(w, IF j.kind = "agent" THEN CheckOrCreate(j)
                      ELSE [j EXCEPT !.at = "target"])
  /\ Reads(w)

RecordsTarget(w) ==                                \* recordWorkflowTarget
  /\ rec' = [rec EXCEPT ![Me(w)].kind = "review", ![Me(w)].head = job[w].head]
  /\ UNCHANGED <<vars, github, ledger>>

RecordTarget(w) ==
  /\ StandsAt(w, "target")
  /\ RecordsTarget(w)
  /\ Go(w, "find")

(* The WHERE clause of findActiveReviewWorkflow and its ORDER BY.          *)
SameReview(w, i) == rec[i].kind = "review" /\ rec[i].head = job[w].head

ActiveAnyAge(w, i) ==                              \* mutant
  /\ i # Me(w)
  /\ SameReview(w, i)
  /\ rows[i].status \in {"queued", "running"}

Active(w, i) ==
  /\ i < Me(w)
  /\ SameReview(w, i)
  /\ \/ rows[i].status = "queued"
     \/ rows[i].status = "running" /\ rows[i].lease # "expired"
     \/ /\ rows[i].status = "completed"
        /\ rec[i].started \in 1..(Me(w) - 1)
        /\ rec[i].completed >= Me(w)

StatusRank(i) == CASE rows[i].status = "running" -> 1
                   [] rows[i].status = "queued" -> 2
                   [] OTHER -> 3

FirstActive(w, i) ==
  /\ Active(w, i)
  /\ \A h \in Ids : Active(w, h) =>
        \/ StatusRank(i) < StatusRank(h)
        \/ StatusRank(i) = StatusRank(h) /\ i <= h

(* A queued older review answers only for the same source and text; NoKey  *)
(* stands for a trigger the payload does not tell.                         *)
ShouldCoalesce(w, i) ==
  rows[i].status = "queued" => Ask[rows[i].key] \in {NoKey, Ask[rows[Me(w)].key]}

FindActive(w) ==
  /\ StandsAt(w, "find")
  /\ \/ \E i \in Ids :
          /\ FirstActive(w, i)
          /\ ShouldCoalesce(w, i)
          /\ IF rows[i].status = "completed" \/ rec[i].check = NoCheck
             THEN Go(w, "returned")
             ELSE Move(w, [job[w] EXCEPT !.at = "coalesce", !.other = rec[i].check])
     \/ /\ ~\E i \in Ids : FirstActive(w, i) /\ ShouldCoalesce(w, i)
        /\ Move(w, CheckOrCreate(job[w]))
  /\ Reads(w)

RecordsCheck(w) ==                                 \* recordCheckRun
  /\ rec' = [rec EXCEPT ![Me(w)] =
               [@ EXCEPT !.kind = IF job[w].kind = "command" THEN "review"
                                  ELSE job[w].kind,
                         !.head = job[w].head, !.check = job[w].check]]
  /\ UNCHANGED <<vars, github, ledger>>

RecordCheck(w) ==
  /\ StandsAt(w, "record")
  /\ RecordsCheck(w)
  /\ Move(w, Tracked(job[w]))

(* currentStatusForPublish: the PR was closed or pushed to meanwhile.      *)
OutdatedIfClosed(w) == ~pr.open                    \* mutant
Outdated(w) == ~pr.open \/ pr.head # job[w].head

(* The context showed a closed PR. One that is open again is left alone.   *)
ClosedContext(w) ==
  /\ StandsAt(w, "closed")
  /\ IF Outdated(w) THEN Finish(w, "cancelled") ELSE Go(w, "returned")
  /\ Reads(w)

ConflictContext(w) ==
  /\ StandsAt(w, "conflict")
  /\ IF Outdated(w) \/ pr.mergeable \/ Stopping(w)
     THEN Finish(w, "cancelled")
     ELSE Go(w, "request")
  /\ Reads(w)

-----------------------------------------------------------------------------
Reopened(c) ==                                     \* updateInProgressCheck
  IF c = NoCheck THEN checks
  ELSE [checks EXCEPT ![c].status = "in_progress", ![c].conclusion = "none"]

Concluded(c, conclusion) ==                        \* completeCheck
  IF c = NoCheck THEN checks
  ELSE [checks EXCEPT ![c].status = "completed", ![c].conclusion = conclusion]

(* The gate reports its progress on the check run while it works; the      *)
(* reports are update calls whose errors are swallowed.                    *)
Progress(w) ==
  /\ checks' = IF job[w].kind = "agent" THEN checks ELSE Reopened(job[w].check)
  /\ UNCHANGED <<vars, rec, pr, approved, verdicts, ledger>>

(* The ledger snapshot is read first.                                      *)
Think(w) ==
  /\ StandsAt(w, "think")
  /\ Move(w, [job[w] EXCEPT !.at = "verdict", !.stored = {}, !.overwritten = {}])
  /\ Progress(w)

(* The model has answered. A shutdown is noticed here, except on the path  *)
(* that reports a review whose answers could not be validated.             *)
ReachVerdict(w) ==
  /\ StandsAt(w, "verdict")
  /\ \E v \in IF job[w].kind = "agent" THEN AgentVerdict ELSE GateVerdict :
       IF Stopping(w) /\ v # "UNREACHED"
       THEN Finish(w, "cancelled")
       ELSE Move(w, [job[w] EXCEPT !.at = "publish", !.verdict = v])
  /\ Progress(w)

ProviderCooldown(w) ==
  /\ StandsAt(w, "verdict")
  /\ job[w].kind = "agent"
  /\ Go(w, "cooldown")
  /\ Reads(w)

(* What is published, by the status that was just read.                    *)
Approves(w) ==
  IF pr.ci = "failing" THEN Post(w, "action_required")
  ELSE IF pr.ci = "pending" \/ (pr.ci = "none" /\ job[w].kind = "review")
       THEN Go(w, IF job[w].check = NoCheck THEN "returned" ELSE "wait")
  ELSE IF ~pr.mergeable THEN Post(w, "action_required")
  ELSE GoApprove(w)

Decide(w) ==
  LET v == job[w].verdict IN
  /\ verdicts' = verdicts \cup {<<job[w].head, v>>}
  /\ CASE v \in {"PASS", "approve"} -> Approves(w)
       [] v = "ABSTAIN" -> Post(w, "neutral")
       [] v = "close" /\ pr.mergeable -> Go(w, "request")
       [] OTHER -> Post(w, "action_required")
  /\ UNCHANGED <<vars, rec, pr, checks, approved, ledger>>

Publish(w) ==
  /\ StandsAt(w, "publish")
  /\ IF Outdated(w) THEN Finish(w, "cancelled") /\ Reads(w)
     ELSE IF job[w].kind = "agent" \/ job[w].verdict = "UNREACHED" THEN Decide(w)
     ELSE Go(w, IF pr.mergeable THEN "ledger" ELSE "request") /\ Reads(w)

(* Each finding is written by a transaction of its own, and each writer    *)
(* marks it for the others that have read or written it already.           *)
ReadLedger(v) == job[v].at \in {"verdict", "publish", "ledger"} /\ job[v].kind # "agent"

WritesFinding(w, f, j) ==                          \* upsertReviewGateFinding
  /\ ledger' = [ledger EXCEPT ![f] = Me(w)]
  /\ job' = [v \in Worker |->
               IF v = w THEN j
               ELSE [job[v] EXCEPT !.overwritten = IF ReadLedger(v) THEN @ \cup {f} ELSE @]]
  /\ UNCHANGED <<vars, rec, github>>

Stored(j, f) == [j EXCEPT !.stored = @ \cup {f}, !.overwritten = @ \ {f}]

LeavesLedger(w, at, stored) ==
  /\ Move(w, [job[w] EXCEPT !.at = at, !.stored = stored, !.overwritten = {}])
  /\ Reads(w)

(* persistReviewGateLedger: the review's findings are written one by one,  *)
(* then listed again and compared with what it wrote. A finding that       *)
(* another review has written since makes the swap fail, or the comparison *)
(* if it was stored by then, unless the rows are equal; what was stored    *)
(* stays. The check is then closed, if it is not closed already.           *)
PersistLedger(w) ==
  /\ StandsAt(w, "ledger")
  /\ \/ \E f \in Findings \ job[w].stored : WritesFinding(w, f, Stored(job[w], f))
     \/ LeavesLedger(w, "republish",                  \* no other, or equal rows
                     IF job[w].verdict = "FAIL" THEN job[w].stored ELSE {})
     \/ /\ job[w].overwritten # {}
        /\ LeavesLedger(w, IF \/ job[w].check = NoCheck
                              \/ checks[job[w].check].status = "completed"
                           THEN "returned" ELSE "discard", {})

(* refreshPublishedReviewGateThreads: a published failure writes its       *)
(* findings once more, for the ids of their threads.                       *)
AttachThread(w) ==
  /\ StandsAt(w, "post") /\ job[w].verdict = "FAIL"
  /\ \E f \in job[w].stored :
       WritesFinding(w, f, [job[w] EXCEPT !.stored = @ \ {f}, !.overwritten = @ \ {f}])

Republish(w) ==
  /\ StandsAt(w, "republish")
  /\ IF Outdated(w) THEN Finish(w, "cancelled") /\ Reads(w)
     ELSE IF pr.mergeable THEN Decide(w)
     ELSE Go(w, "request") /\ Reads(w)

-----------------------------------------------------------------------------
(***************************************************************************)
(* handleCiRecheck.                                                        *)
(***************************************************************************)
RegisterRecheck(w) ==
  /\ StandsAt(w, "register")
  /\ RecordsCheck(w)
  /\ Go(w, "recheck")

(* isCiRecheckTimedOut compares clocks; MaxRechecks is when it must be so. *)
NeverTimedOut(w) == {FALSE}                        \* mutant
TimedOut(w) == {TRUE, job[w].try = MaxRechecks}

Recheck(w) ==
  /\ StandsAt(w, "recheck")
  /\ IF Outdated(w) THEN Finish(w, "cancelled")
     ELSE IF ~pr.mergeable THEN Finish(w, "action_required")
     ELSE IF pr.ci = "failing" THEN Post(w, "action_required")
     ELSE IF pr.ci = "pending"
          THEN \E late \in TimedOut(w) :
                 IF late THEN Post(w, "action_required") ELSE Go(w, "wait")
     ELSE GoApprove(w)
  /\ Reads(w)

(* enqueueSynthetic under the dedupe key of the next attempt.              *)
SameRecheck(w) == <<job[w].check, job[w].head, IF job[w].try = 0 THEN 1 ELSE job[w].try>>  \* mutant
NextRecheck(w) == <<job[w].check, job[w].head, job[w].try + 1>>

EnqueuesRecheck(w) ==
  /\ Enqueue(NextRecheck(w), "standard", FALSE)
  /\ UNCHANGED <<rec, github, ledger>>

Schedule(w) ==
  /\ StandsAt(w, "schedule")
  /\ EnqueuesRecheck(w)
  /\ Go(w, "returned")

-----------------------------------------------------------------------------
(***************************************************************************)
(* The calls that change something at GitHub.                              *)
(***************************************************************************)
CreatesCheck(w, c) ==                              \* createInProgressCheck
  /\ checks[c].status = "absent"
  /\ \A d \in CheckIds : d < c => checks[d].status # "absent"
  /\ checks' = [checks EXCEPT ![c] = [status |-> "in_progress", head |-> job[w].head,
                                      conclusion |-> "none"]]
  /\ UNCHANGED <<vars, rec, pr, approved, verdicts, ledger>>

CreateCheck(w, c) ==
  /\ StandsAt(w, "create")
  /\ CreatesCheck(w, c)
  /\ Move(w, [job[w] EXCEPT !.at = "record", !.check = c])

WriteCalls == {"finish", "discard", "abort", "expired", "wait", "coalesce", "approve",
               "close", "merge", "request", "post"}

(* A pull request that left the state just read is not merged.             *)
Mergeable(w) == ~Outdated(w) /\ pr.mergeable /\ pr.ci \in {"none", "green"}

(* What the call at hand does there. A comment, and a review that requests *)
(* changes, leaves nothing behind that the handlers read.                  *)
Calls(w) ==
  LET j == job[w] IN
  /\ j.at \in WriteCalls
  /\ checks' = CASE j.at = "finish" -> Concluded(j.check, j.conclusion)
                 [] j.at \in {"abort", "expired"} -> Concluded(j.check, "failure")
                 [] j.at = "discard" -> Concluded(j.check, "cancelled")
                 [] j.at = "wait" -> Reopened(j.check)
                 [] j.at = "coalesce" -> Reopened(j.other)
                 [] OTHER -> checks
  /\ approved' = IF j.at = "approve" THEN approved \cup {j.head} ELSE approved
  /\ pr' = IF j.at = "close" \/ (j.at = "merge" /\ Mergeable(w))
           THEN [pr EXCEPT !.open = FALSE] ELSE pr
  /\ UNCHANGED <<vars, rec, verdicts, ledger>>

(* A passing agent job and its rechecks squash-merge; the gate never does. *)
SquashMerges(j) ==
  /\ j.conclusion = "success"
  /\ \/ j.kind = "agent"
     \/ j.kind = "ci_recheck"
        /\ \E i \in Ids : rec[i].kind = "agent" /\ rec[i].check = j.check

NextCall(j) ==
  CASE j.at = "finish" -> IF SquashMerges(j) THEN "merge" ELSE "returned"
    [] j.at \in {"merge", "discard", "expired", "coalesce"} -> "returned"
    [] j.at = "abort" -> "threw"
    [] j.at = "wait" -> "schedule"
    [] j.at = "request" -> IF j.verdict = "close" THEN "close" ELSE "finish"
    [] j.at \in {"close", "approve", "post"} -> "finish"

ConclusionOf(j) ==
  CASE j.at = "approve" -> "success"
    [] j.at \in {"request", "close"} -> "action_required"
    [] OTHER -> j.conclusion

CallSucceeds(w) ==
  /\ Calls(w)
  /\ Move(w, [job[w] EXCEPT !.at = NextCall(job[w]), !.conclusion = ConclusionOf(job[w])])

(* Auto-merge may be off, or rule the PR out (draft, another base branch). *)
SkipMerge(w) ==
  /\ StandsAt(w, "merge")
  /\ Go(w, "returned")
  /\ Reads(w)

-----------------------------------------------------------------------------
(***************************************************************************)
(* Any awaited call may fail, and may have been carried out all the same.  *)
(* Inside the try of runReview and runAgent the check is then concluded as *)
(* a failure before the error goes on to the queue.                        *)
(***************************************************************************)
CountError ==
  /\ errors < MaxCallErrors
  /\ errors' = errors + 1

BeforeTry == {"ignore", "context", "target", "find", "coalesce", "record"}

AtCall(j) ==
  /\ j.at \notin {"none", "returned", "threw", "cooldown", "create"}
  /\ j.check = NoCheck => j.at \notin {"finish", "abort", "expired"}

Thrown(j) ==
  [j EXCEPT !.at =
     IF @ \in {"discard", "expired"} THEN "returned"       \* logged, not thrown
     ELSE IF @ = "abort" \/ @ \in BeforeTry \/ j.kind = "ci_recheck" THEN "threw"
     ELSE "abort"]

CarriedOut(w) ==
  \/ Calls(w)
  \/ StandsAt(w, "target") /\ RecordsTarget(w)
  \/ job[w].at \in {"record", "register"} /\ RecordsCheck(w)
  \/ StandsAt(w, "schedule") /\ EnqueuesRecheck(w)

CallFails(w) ==
  /\ AtCall(job[w])
  /\ CountError
  /\ \/ (Reads(w) \/ CarriedOut(w)) /\ Move(w, Thrown(job[w]))
     \/ /\ StandsAt(w, "ledger")
        /\ \E f \in Findings \ job[w].stored :
             WritesFinding(w, f, Thrown(Stored(job[w], f)))

(* createInProgressCheck swallows its error: the job goes on untracked.    *)
CreateFails(w) ==
  /\ StandsAt(w, "create")
  /\ CountError
  /\ Reads(w) \/ \E c \in CheckIds : CreatesCheck(w, c)
  /\ Move(w, Tracked(job[w]))

-----------------------------------------------------------------------------
(***************************************************************************)
(* The pull request and its CI, which change at any time.                  *)
(***************************************************************************)
PrEvent ==
  /\ pr.events < MaxEvents
  /\ \E next \in
          [head : {pr.head}, open : {~pr.open}, mergeable : {pr.mergeable}, ci : {pr.ci}]
          \cup [head : {pr.head}, open : {pr.open}, mergeable : {~pr.mergeable}, ci : {pr.ci}]
          \cup [head : {pr.head}, open : {pr.open}, mergeable : {pr.mergeable},
                ci : {"pending", "failing", "green"} \ {pr.ci}]
          \cup [head : {pr.head + 1} \cap Heads, open : {pr.open}, mergeable : {pr.mergeable},
                ci : {"none", "pending"}] :
       pr' = [head |-> next.head, open |-> next.open, mergeable |-> next.mergeable,
              ci |-> next.ci, events |-> pr.events + 1]
  /\ UNCHANGED <<vars, rec, job, checks, approved, verdicts, ledger, errors>>

-----------------------------------------------------------------------------
HandlerStep(w) ==
  \/ Ignore(w) \/ ReadContext(w)
  \/ RecordTarget(w) \/ FindActive(w)
  \/ \E c \in CheckIds : CreateCheck(w, c)
  \/ RecordCheck(w)
  \/ ClosedContext(w) \/ ConflictContext(w)
  \/ Think(w) \/ ReachVerdict(w) \/ ProviderCooldown(w)
  \/ Publish(w) \/ PersistLedger(w) \/ Republish(w) \/ AttachThread(w)
  \/ CallSucceeds(w) \/ SkipMerge(w)
  \/ RegisterRecheck(w) \/ Recheck(w) \/ Schedule(w)

ReviewStep ==
  \/ \E k \in Requests : RequestJob(k)
  \/ QueueStep
  \/ \E w \in Worker : HandlerStep(w) /\ UNCHANGED errors
  \/ \E w \in Worker : CallFails(w) \/ CreateFails(w)
  \/ PrEvent

(* Bound: outages and failed calls together; a database error comes alone.  *)
FaultsAreBounded == outages + errors + MaxFaults * dbErrors <= MaxFaults

ReviewNext == ReviewStep /\ FaultsAreBounded'

ReviewSpec == ReviewInit /\ [][ReviewNext]_reviewVars

-----------------------------------------------------------------------------
(* Every approving review is of a HEAD whose review, or agent answer, came *)
(* to publish a pass: a push, a retry, another worker or a late recheck    *)
(* never turns the pass of one HEAD into the approval of another.          *)
ApprovalsFollowPass ==
  \A h \in approved : \E v \in {"PASS", "approve"} : <<h, v>> \in verdicts

(* A check run in progress that was recorded is never forgotten: an        *)
(* unfinished row carries it (its own, or that of the recheck it is), or a *)
(* worker has it in hand.                                                  *)
Unfinished(i) == rows[i].status \in {"queued", "running"}
Carries(i, c) ==
  /\ Unfinished(i)
  /\ rec[i].check = c \/ (IsRecheck(rows[i].key) /\ rows[i].key[1] = c)
InHand(c) == \E w \in Worker : run[w].id # 0 /\ job[w].check = c

PendingCheckIsCarried ==
  \A c \in CheckIds :
    (checks[c].status = "in_progress" /\ \E i \in Ids : rec[i].check = c)
      => InHand(c) \/ \E i \in Ids : Carries(i, c)

(* A check run in progress that neither a row nor the worker that just     *)
(* created it knows is what was left by a pod that died, or by a call that *)
(* failed, between creating and recording it: every other retry reports on *)
(* the check run it has.                                                   *)
Orphaned(c) ==
  checks[c].status = "in_progress" /\ ~InHand(c) /\ \A i \in Ids : rec[i].check # c
OrphansAreOfOutages ==
  Cardinality({c \in CheckIds : Orphaned(c)}) <= outages + errors

(* Once a row has a check run it keeps it: a retry after a crash, an error *)
(* or a lost lease reports on the same one.                                *)
CheckIsKept ==
  [][\A i \in Ids : rec[i].check # NoCheck => rec'[i].check = rec[i].check]_reviewVars

(* When every row is completed and the PR has stood still, its HEAD was    *)
(* reviewed: coalescing never drops the last of several requests, and of   *)
(* two reviews that race for one finding at most one is discarded. Racing  *)
(* for several, both may be: each is told that a newer result was stored   *)
(* (bot.ts:1741), and the ledger is left with findings of either.          *)
Reviewed(h) == \E v \in GateVerdict : <<h, v>> \in verdicts

MixedLedger ==
  \E f, g \in Findings : ledger[f] # 0 /\ ledger[g] # 0 /\ ledger[f] # ledger[g]

RequestsLeadToReview ==
  (/\ RowsInserted > 0
   /\ \A i \in Ids : rows[i].status \in {"absent", "completed"}
   /\ pr.events = 0)
    => Reviewed(pr.head) \/ MixedLedger

(* A check run reports on the HEAD it was created for: an approval that    *)
(* concludes it is of that HEAD.                                           *)
SuccessIsOfItsHead ==
  \A c \in CheckIds : checks[c].conclusion = "success" => checks[c].head \in approved

-----------------------------------------------------------------------------
(***************************************************************************)
(* Liveness. The assumptions are those of WorkflowEngine: loops and        *)
(* handlers keep running, time passes, pods come back. CI may never end:   *)
(* the rechecks give up.                                                   *)
(***************************************************************************)
WorkerRuns(w) ==
  \/ (Polls(w) \/ Settles(w)) /\ FollowQueue
  \/ HandlerStep(w) /\ UNCHANGED errors

FairReviewSpec ==
  /\ ReviewSpec
  /\ \A w \in Worker : WF_reviewVars(WorkerRuns(w))
  /\ \A i \in Ids : /\ WF_reviewVars(LeaseExpires(i) /\ FollowQueue)
                    /\ WF_reviewVars(BecomesDue(i) /\ FollowQueue)
  /\ \A p \in Pods : WF_reviewVars((Exit(p) \/ ForceExit(p) \/ Restart(p)) /\ FollowQueue)

(* A check run does not stay in progress for ever, waiting for CI or for   *)
(* the worker that reports on it.                                          *)
EveryCheckFinishes ==
  \A c \in CheckIds : checks[c].status = "in_progress" ~> checks[c].status = "completed"
=============================================================================
