---------------------------- MODULE StaleMonitor ----------------------------
(***************************************************************************)
(* StaleReviewMonitor (src/src/stale.ts): every pod now and then reads the *)
(* open pull requests and, where the bot's last word on the HEAD is an old *)
(* request for action, either queues one follow-up of a response that did  *)
(* not mention the bot or closes the PR. Composed with what the follow-up  *)
(* does: handleStaleReviewSelfTrigger and runAgent (src/src/bot.ts), run   *)
(* by the workflow engine, whose model call goes through ProviderFallback. *)
(*                                                                         *)
(* A PR's timeline is a sequence of entries in the order GitHub stamps     *)
(* them: `at` counts the distinct timestamps of one PR, and the first      *)
(* aged[p] entries are older than STALE_REVIEW_THRESHOLD. A text is what   *)
(* its hidden marker says.                                                 *)
(***************************************************************************)
EXTENDS ProviderFallback, Sequences, SequencesExt

CONSTANTS Prs,
          Heads,          \* 1..n, each a push on top of the one before
          OtherSays,      \* what the bot's other jobs write
          Statuses,       \* what GitHub may report of checks and conflicts
          MaxPerScan,     \* config.staleReviewMaxPrsPerScan
          MaxAttempts,    \* config.workflowMaxAttempts
          MaxTalk,        \* bound: entries that are no follow-up's request
          MaxUpsets       \* bound: pushes, changes of the status, failed
                          \* calls, crashes and stops

Asks == {"fatal", "status", "conflict"}
(* kind=stale-self-trigger, with its blocked_kind. *)
FollowUps == {"again-review", "again-status", "again-conflict"}
(* "settled": no-action-required, or the legacy kind=review, which counts  *)
(* as one.                                                                 *)
Says == Asks \cup FollowUps \cup {"settled"}

Calm == [ci |-> "green", conflict |-> FALSE]

ASSUME StaleAssumption ==
  /\ Heads \subseteq Nat \ {0} /\ 1 \in Heads
  /\ OtherSays \subseteq Says
  /\ Statuses \subseteq [ci : {"green", "pending", "failing"}, conflict : BOOLEAN]
  /\ Calm \in Statuses
  /\ MaxPerScan \in Nat \ {0} /\ MaxAttempts \in Nat \ {0}
  /\ MaxTalk \in Nat /\ MaxUpsets \in Nat

VARIABLES pr,             \* what GitHub reports of a PR
          talk, aged,     \* its timeline
          rows,           \* the follow-up jobs, by their dedupe key
          scan,           \* the scan of each pod
          job,            \* the follow-up each pod is running
          upsets          \* how many so far

staleVars == <<pr, talk, aged, rows, scan, job, upsets, cooling, failed>>

Stamps == Nat \ {0}
Key == Prs \X Heads \X Stamps
NoKey == <<>>

Entry == [by : {"bot"}, says : Says, head : Heads, at : Stamps]
           \cup [by : {"human", "commit"}, says : {"-"}, head : Heads, at : Stamps]

(* on: the PR and HEAD in hand, and the time of the response to follow up, *)
(* 0 when there is none; ask: what the signal says.                        *)
IdleScan == [stage |-> "idle", todo |-> {}, on |-> NoKey, ask |-> "-"]
IdleJob == [stage |-> "idle", key |-> NoKey, head |-> 1, says |-> "-"]

StaleTypeOK ==
  /\ ProviderTypeOK
  /\ pr \in [Prs -> [open : BOOLEAN, head : Heads, status : Statuses]]
  /\ \A p \in Prs : /\ talk[p] \in Seq(Entry)
                    /\ aged[p] \in 0..Len(talk[p])
                    /\ \A i \in DOMAIN talk[p] : i > 1 => talk[p][i].at - talk[p][i - 1].at \in {0, 1}
  /\ DOMAIN rows \subseteq Key
  /\ \A k \in DOMAIN rows :
       /\ rows[k].status \in {"queued", "running", "done", "handed", "dropped", "failed"}
       /\ rows[k].attempts \in 0..MaxAttempts
       /\ rows[k].wait \in 0..(MaxCooldown + 1)
       /\ rows[k].spent \in 0..MaxAttempts
       /\ rows[k].status = "running" <=> \E s \in Pods : job[s].key = k
  /\ \A s \in Pods :
       /\ scan[s].stage \in {"idle", "listing", "status", "queueing", "closing"}
       /\ scan[s].stage \in {"idle", "listing"} <=> scan[s].on = NoKey
       /\ scan[s].todo \subseteq Prs \X Heads
       /\ job[s].stage \in {"idle", "conflict", "asking", "publishing", "posting"}
       /\ job[s].stage = "idle" <=> job[s].key = NoKey
  /\ upsets \in 0..MaxUpsets

StaleInit ==
  /\ pr = [p \in Prs |-> [open |-> TRUE, head |-> 1, status |-> Calm]]
  /\ talk = [p \in Prs |-> <<>>]
  /\ aged = [p \in Prs |-> 0]
  /\ rows = <<>>
  /\ scan = [s \in Pods |-> IdleScan]
  /\ job = [s \in Pods |-> IdleJob]
  /\ upsets = 0
  /\ ProviderInit

-----------------------------------------------------------------------------
(***************************************************************************)
(* The timeline.                                                           *)
(***************************************************************************)
LastAt(p) == IF talk[p] = <<>> THEN 0 ELSE Last(talk[p]).at

(* The next entry may share the second of the last one. *)
NextStamps(p) ==
  {LastAt(p) + 1} \cup (IF aged[p] < Len(talk[p]) THEN {LastAt(p)} ELSE {})

Write(p, by, says, head) ==
  /\ \E at \in NextStamps(p) :
       talk' = [talk EXCEPT ![p] =
                  Append(@, [by |-> by, says |-> says, head |-> head, at |-> at])]
  /\ UNCHANGED aged

(* A response counts by its time alone; of the commits, those the branch   *)
(* had when they were listed.                                              *)
Responses(t, i, tip) ==
  {j \in DOMAIN t : /\ t[j].at > t[i].at
                    /\ \/ t[j].by = "human"
                       \/ t[j].by = "commit" /\ t[j].head <= tip}

States(t, h) == {i \in DOMAIN t : t[i].by = "bot" /\ t[i].head = h}

SignalInAnyTie(t, h) ==                                  \* mutant
  LET latest == {i \in States(t, h) : \A j \in States(t, h) : t[j].at <= t[i].at}
  IN  IF latest = {} \/ t[Min(latest)].says = "settled" THEN 0 ELSE Min(latest)

(* latestReviewSignal: the latest state of the HEAD; in a tie a settled    *)
(* one wins. 0 when it is settled or there is none.                        *)
Signal(t, h) ==
  LET latest == {i \in States(t, h) : \A j \in States(t, h) : t[j].at <= t[i].at}
  IN  IF latest = {} \/ \E i \in latest : t[i].says = "settled"
      THEN 0
      ELSE Min(latest)

(* The time of the last response, 0 when there is none to follow up: after *)
(* a follow-up none is looked for.                                         *)
ToFollowUp(t, i, tip) ==
  IF t[i].says \in FollowUps THEN 0
  ELSE Max({0} \cup {t[j].at : j \in Responses(t, i, tip)})

(* A request about checks or a conflict lapses when GitHub shows none. *)
StillBlocked(p, says) ==
  CASE says \in {"status", "again-status"} -> pr[p].status.ci # "green"
    [] says \in {"conflict", "again-conflict"} -> pr[p].status.conflict
    [] OTHER -> TRUE

-----------------------------------------------------------------------------
(***************************************************************************)
(* A scan: one awaited group of GitHub calls per step. Any that fails ends *)
(* the whole scan.                                                         *)
(***************************************************************************)
Leaves(s) == UNCHANGED <<pr, talk, aged, rows, job, upsets, cooling, failed>>

GoTo(s, todo) ==
  scan' = [scan EXCEPT ![s] =
             IF todo = {} THEN IdleScan
             ELSE [IdleScan EXCEPT !.stage = "listing", !.todo = todo]]

NextInList(s) == GoTo(s, scan[s].todo)

(* The listing also tells the HEADs. At most MaxPerScan PRs are looked at; *)
(* their order (least recently updated first) is left open.                *)
StartScan(s) ==
  /\ scan[s].stage = "idle"
  /\ LET open == {p \in Prs : pr[p].open}
     IN  \E some \in kSubset(Min({MaxPerScan, Cardinality(open)}), open) :
           GoTo(s, {<<p, pr[p].head>> : p \in some})
  /\ Leaves(s)

OldOnceAnswered(p, i) == i \in 1..aged[p] /\ i < Len(talk[p])  \* mutant

Old(p, i) == i \in 1..aged[p]

(* findStaleReviewAction up to the age of the signal. *)
ReadTimeline(s, p, h) ==
  /\ scan[s].stage = "listing" /\ <<p, h>> \in scan[s].todo
  /\ LET rest   == scan[s].todo \ {<<p, h>>}
         signal == Signal(talk[p], h)
     IN  IF Old(p, signal)
         THEN scan' = [scan EXCEPT ![s] =
                [stage |-> "status", todo |-> rest,
                 on |-> <<p, h, ToFollowUp(talk[p], signal, pr[p].head)>>,
                 ask |-> talk[p][signal].says]]
         ELSE GoTo(s, rest)
  /\ Leaves(s)

(* ... and from the status of the PR on. *)
ReadStatus(s) ==
  /\ scan[s].stage = "status"
  /\ IF StillBlocked(scan[s].on[1], scan[s].ask)
     THEN scan' = [scan EXCEPT ![s].stage =
                     IF scan[s].on[3] = 0 THEN "closing" ELSE "queueing"]
     ELSE NextInList(s)
  /\ Leaves(s)

(* staleSelfTriggerDedupeKey and INSERT IGNORE: whatever became of the     *)
(* first row of a response, there is no second.                            *)
QueueFollowUp(s) ==
  /\ scan[s].stage = "queueing"
  /\ rows' = [k \in DOMAIN rows \cup {scan[s].on} |->
                IF k \in DOMAIN rows THEN rows[k]
                ELSE [status |-> "queued", attempts |-> 0, wait |-> 0, spent |-> 0]]
  /\ NextInList(s)
  /\ UNCHANGED <<pr, talk, aged, job, upsets, cooling, failed>>

(* requestChangesPullRequest, whose text the scanner does not read, and    *)
(* closePullRequest.                                                       *)
ClosePr(s) ==
  /\ scan[s].stage = "closing"
  /\ pr' = [pr EXCEPT ![scan[s].on[1]].open = FALSE]
  /\ NextInList(s)
  /\ UNCHANGED <<talk, aged, rows, job, upsets, cooling, failed>>

ScanStep(s) ==
  \/ StartScan(s) \/ ReadStatus(s)
  \/ \E p \in Prs, h \in Heads : ReadTimeline(s, p, h)
  \/ QueueFollowUp(s) \/ ClosePr(s)

-----------------------------------------------------------------------------
(***************************************************************************)
(* The follow-up job.                                                      *)
(***************************************************************************)
Upset == upsets < MaxUpsets /\ upsets' = upsets + 1

EndJob(s) == job' = [job EXCEPT ![s] = IdleJob]

Settle(s, status) ==
  /\ rows' = [rows EXCEPT ![job[s].key].status = status]
  /\ EndJob(s)

OneMoreThanMax(r) ==                                     \* mutant
  [r EXCEPT !.status = IF r.attempts <= MaxAttempts THEN "queued" ELSE "failed",
            !.wait = 1, !.spent = @ + 1]

(* The engine's fail(): another attempt after a backoff, or none. *)
OneMoreOrNone(r) ==
  [r EXCEPT !.status = IF r.attempts < MaxAttempts THEN "queued" ELSE "failed",
            !.wait = 1, !.spent = @ + 1]

Retry(s) ==
  /\ rows' = [rows EXCEPT ![job[s].key] = OneMoreOrNone(@)]
  /\ EndJob(s)

DueIfNeverTried(r) == r.status = "queued" /\ r.wait = 0 /\ r.attempts = 0  \* mutant

Due(r) == r.status = "queued" /\ r.wait = 0

(* The lease and the job's first read of the PR: of its HEAD of now, which *)
(* need not be the one the job was queued for.                             *)
Begin(s, k) ==
  /\ job[s].stage = "idle"
  /\ Due(rows[k])
  /\ LET now == pr[k[1]]
     IN  IF now.open
         THEN /\ rows' = [rows EXCEPT ![k].status = "running", ![k].attempts = @ + 1]
              /\ job' = [job EXCEPT ![s] =
                   [stage |-> IF now.status.conflict THEN "conflict" ELSE "asking",
                    key |-> k, head |-> now.head, says |-> "-"]]
         ELSE /\ rows' = [rows EXCEPT ![k].status = "dropped", ![k].attempts = @ + 1]
              /\ UNCHANGED job
  /\ UNCHANGED <<pr, talk, aged, scan, upsets, cooling, failed>>

(* currentStatusForPublish *)
Current(s) == LET p == job[s].key[1] IN pr[p].open /\ pr[p].head = job[s].head

(* What is to be posted is decided on a read of the PR, and posted by the  *)
(* calls after it.                                                         *)
Decide(s, says) ==
  /\ job' = [job EXCEPT ![s].stage = "posting", ![s].says = says]
  /\ UNCHANGED rows

Discard(s) == Settle(s, "dropped")

AnswerConflict(s) ==
  /\ job[s].stage = "conflict"
  /\ IF Current(s) /\ pr[job[s].key[1]].status.conflict
     THEN Decide(s, "again-conflict")
     ELSE Discard(s)
  /\ UNCHANGED <<pr, talk, aged, scan, upsets, cooling, failed>>

(* What the agent may answer; "no findings": the words of an approval      *)
(* without its marker.                                                     *)
Answers == {"approve", "no findings", "comment", "close"}

(* runAgent's model call. *)
Answered(s, v, says) ==
  /\ job[s].stage = "asking"
  /\ ProviderAnswers(s, v)
  /\ job' = [job EXCEPT ![s].stage = "publishing", ![s].says = says]
  /\ UNCHANGED <<pr, talk, aged, rows, scan, upsets>>

NotAnswered(s, v, ticks) ==
  /\ job[s].stage = "asking"
  /\ ProviderFails(s, v, ticks)
  /\ UNCHANGED <<pr, talk, aged, rows, scan, job, upsets>>

NobodyAnswered(s) ==
  /\ job[s].stage = "asking"
  /\ AllProvidersFailed(s)
  /\ Retry(s)
  /\ UNCHANGED <<pr, talk, aged, scan, upsets>>

DeferredRowSpent(r, ticks) ==                            \* mutant
  [r EXCEPT !.status = "queued", !.wait = ticks]

DeferredRow(r, ticks) ==
  [r EXCEPT !.status = "queued", !.attempts = @ - 1, !.wait = ticks]

(* deferForProviderCooldown gives the attempt back. *)
Deferred(s) ==
  /\ job[s].stage = "asking"
  /\ AllProvidersCooling(s)
  /\ rows' = [rows EXCEPT ![job[s].key] = DeferredRow(@, RetryAfter(s))]
  /\ EndJob(s)
  /\ UNCHANGED <<pr, talk, aged, scan, upsets>>

(* What the agent's text means for the PR as it is now. *)
WeighAnswer(s) ==
  /\ job[s].stage = "publishing"
  /\ LET status  == pr[job[s].key[1]].status
         nothing == job[s].says \in {"approve", "no findings"}
     IN  CASE ~Current(s) -> Discard(s)
           [] Current(s) /\ nothing /\ status.ci = "failing" -> Decide(s, "again-status")
           [] Current(s) /\ nothing /\ status.ci = "pending" -> Settle(s, "handed")
           [] Current(s) /\ job[s].says = "approve" /\ status = Calm -> Decide(s, "settled")
           [] Current(s) /\ job[s].says = "close" /\ ~status.conflict -> Decide(s, "close")
           [] OTHER -> Decide(s, "again-review")
  /\ UNCHANGED <<pr, talk, aged, scan, upsets, cooling, failed>>

(* The check run of the job is completed after that: when it fails, what   *)
(* was posted stands and the job is tried again.                           *)
Post(s) ==
  /\ job[s].stage = "posting"
  /\ LET p == job[s].key[1]
     IN  IF job[s].says = "close"
         THEN pr' = [pr EXCEPT ![p].open = FALSE] /\ UNCHANGED <<talk, aged>>
         ELSE Write(p, "bot", job[s].says, job[s].head) /\ UNCHANGED pr
  /\ \/ /\ Settle(s, IF job[s].head = job[s].key[2] THEN "done" ELSE "dropped")
        /\ UNCHANGED upsets
     \/ Upset /\ Retry(s)
  /\ UNCHANGED <<scan, cooling, failed>>

JobStep(s) ==
  \/ \E k \in DOMAIN rows : Begin(s, k)
  \/ AnswerConflict(s) \/ WeighAnswer(s) \/ Post(s)
  \/ \E v \in Providers : \/ \E says \in Answers : Answered(s, v, says)
                          \/ \E ticks \in Cooldowns : NotAnswered(s, v, ticks)
  \/ NobodyAnswered(s) \/ Deferred(s)

-----------------------------------------------------------------------------
(***************************************************************************)
(* Failures, and the world outside.                                        *)
(***************************************************************************)
ScanFails(s) ==
  /\ scan[s].stage # "idle"
  /\ Upset
  /\ scan' = [scan EXCEPT ![s] = IdleScan]
  /\ UNCHANGED <<pr, talk, aged, rows, job, cooling, failed>>

JobFails(s) ==
  /\ job[s].stage # "idle"
  /\ Upset
  /\ Retry(s)
  /\ failed' = [failed EXCEPT ![s] = {}]
  /\ UNCHANGED <<pr, talk, aged, scan, cooling>>

(* The pod is killed; another attempt once the lease has run out. *)
Crash(s) ==
  /\ Upset
  /\ IF job[s].stage = "idle" THEN UNCHANGED <<rows, job>> ELSE Retry(s)
  /\ scan' = [scan EXCEPT ![s] = IdleScan]
  /\ ProviderTableLost(s)
  /\ UNCHANGED <<pr, talk, aged>>

(* SIGTERM: a scan under way is awaited; a job finds shuttingDown set at   *)
(* its next look, returns without a word and is completed.                 *)
Stop(s) ==
  /\ job[s].stage # "idle"
  /\ Upset
  /\ Settle(s, "dropped")
  /\ ProviderTableLost(s)
  /\ UNCHANGED <<pr, talk, aged, scan>>

Tick ==
  /\ \/ \E s \in Pods, v \in Providers : cooling[s][v] > 0
     \/ \E k \in DOMAIN rows : rows[k].wait > 0
  /\ cooling' = [s \in Pods |-> CooledBy1(s)]
  /\ rows' = [k \in DOMAIN rows |-> [rows[k] EXCEPT !.wait = IF @ > 0 THEN @ - 1 ELSE 0]]
  /\ UNCHANGED <<pr, talk, aged, scan, job, upsets, failed>>

(* The threshold passes for the entries of one more second. *)
Age(p) ==
  /\ aged[p] < Len(talk[p])
  /\ aged' = [aged EXCEPT ![p] =
       Max({i \in DOMAIN talk[p] : talk[p][i].at = talk[p][aged[p] + 1].at})]
  /\ UNCHANGED <<pr, talk, rows, scan, job, upsets, cooling, failed>>

MayTalk(p) ==
  /\ pr[p].open
  /\ Cardinality({i \in DOMAIN talk[p] : talk[p][i].says \notin FollowUps}) < MaxTalk

HumanResponds(p) ==
  /\ MayTalk(p)
  /\ Write(p, "human", "-", 1)
  /\ UNCHANGED <<pr, rows, scan, job, upsets, cooling, failed>>

OtherJobWrites(p, says) ==
  /\ MayTalk(p)
  /\ Write(p, "bot", says, pr[p].head)
  /\ UNCHANGED <<pr, rows, scan, job, upsets, cooling, failed>>

(* A new commit, dated now or long before it is pushed; or a force-push    *)
(* back to an older HEAD.                                                  *)
Push(p, h) ==
  /\ MayTalk(p) /\ h # pr[p].head
  /\ Upset
  /\ pr' = [pr EXCEPT ![p].head = h]
  /\ \/ UNCHANGED <<talk, aged>>
     \/ h > pr[p].head /\ Write(p, "commit", "-", h)
  /\ UNCHANGED <<rows, scan, job, cooling, failed>>

StatusChanges(p) ==
  /\ pr[p].open
  /\ Upset
  /\ \E status \in Statuses \ {pr[p].status} : pr' = [pr EXCEPT ![p].status = status]
  /\ UNCHANGED <<talk, aged, rows, scan, job, cooling, failed>>

Outside(p) ==
  \/ Age(p) \/ HumanResponds(p) \/ StatusChanges(p)
  \/ \E says \in OtherSays : OtherJobWrites(p, says)
  \/ \E h \in Heads : Push(p, h)

StaleNext ==
  \/ \E s \in Pods : ScanStep(s) \/ JobStep(s) \/ ScanFails(s) \/ JobFails(s) \/ Crash(s) \/ Stop(s)
  \/ \E p \in Prs : Outside(p)
  \/ Tick

StaleFairness ==
  /\ \A s \in Pods : WF_staleVars(ScanStep(s)) /\ WF_staleVars(JobStep(s))
  /\ \A p \in Prs : WF_staleVars(Age(p))
  /\ WF_staleVars(Tick)

StaleSpec == StaleInit /\ [][StaleNext]_staleVars /\ StaleFairness

-----------------------------------------------------------------------------
(* A PR that was answered is closed on a follow-up only: when a scan reads *)
(* a PR and means to close it, the bot's last word on that HEAD is a       *)
(* request older than the threshold, nothing said in the same second       *)
(* settles it, and a person or a commit came after it only if the request  *)
(* is itself the follow-up of an earlier response. README.md:58 and the    *)
(* comment posted with a closing (stale.ts:531) promise "no new commit or  *)
(* human response" of every closing; after a follow-up the code does not   *)
(* look for either (stale.ts:353).                                         *)
LastWord(p, h, i) ==
  /\ i \in States(talk[p], h) /\ talk[p][i].says # "settled"
  /\ \A j \in States(talk[p], h) :
       talk[p][j].at >= talk[p][i].at =>
         talk[p][j].at = talk[p][i].at /\ talk[p][j].says # "settled"

CameAfter(p, i) ==
  \E j \in DOMAIN talk[p] :
    /\ talk[p][j].at > talk[p][i].at
    /\ \/ talk[p][j].by = "human"
       \/ talk[p][j].by = "commit" /\ talk[p][j].head <= pr[p].head

AnsweredIsClosedOnFollowUp ==
  [][\A s \in Pods :
       scan[s].on = NoKey /\ scan'[s].on # NoKey =>
         LET on == scan'[s].on
         IN  on[3] = 0 => \E i \in 1..aged[on[1]] :
               /\ LastWord(on[1], on[2], i)
               /\ CameAfter(on[1], i) => talk[on[1]][i].says \in FollowUps]_staleVars

(* A job that found every provider cooling down has used up no attempt: a  *)
(* row runs out of attempts by attempts that failed.                       *)
DeferralsAreFree ==
  \A k \in DOMAIN rows :
    rows[k].attempts = rows[k].spent + (IF rows[k].status \in {"queued", "failed"} THEN 0 ELSE 1)

OfHead(p) == Signal(talk[p], pr[p].head)

Pending(p) ==
  /\ pr[p].open
  /\ OfHead(p) # 0
  /\ StillBlocked(p, talk[p][OfHead(p)].says)

LastResponse(p) == ToFollowUp(talk[p], OfHead(p), pr[p].head)

Unanswered(p) ==
  /\ Pending(p)
  /\ LastResponse(p) # 0
  /\ LET k == <<p, pr[p].head, LastResponse(p)>>
     IN  k \in DOMAIN rows => rows[k].status \in {"queued", "running", "done"}

(* A response that did not mention the bot is followed up: it does not     *)
(* stay unanswered while the request and what it asks for stay as they     *)
(* are, unless the one job queued for it gave up, came to nothing or left  *)
(* its approval to a CI recheck.                                           *)
ResponseIsFollowedUp == \A p \in Prs : Unanswered(p) ~> ~Unanswered(p)

Lingers(p) == Pending(p) /\ LastResponse(p) = 0

(* A request that stays with no response to follow up, because nobody has  *)
(* answered or because it is itself a follow-up, closes the PR in the end. *)
LingeringPrIsClosed == \A p \in Prs : Lingers(p) ~> ~Lingers(p)
=============================================================================
