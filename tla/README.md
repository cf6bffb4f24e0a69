# A formal model of seori-pr-bot

TLA+ modules, TLC runs and TLAPS proofs about the bot in `src/src`: its
MySQL workflow queue, the review, agent and CI-recheck jobs that the queue
runs, the gate that decides a review and the ledger of its findings, the
acceptance-guide mode with its status reconciliation, and the monitor that
follows up or closes pull requests nobody works on. Paths of
the form `bot.ts:1260` are relative to `src/src/`; `README.md:56` is the
repository's own `src/README.md`.

## The system

A webhook (`index.ts`) becomes a row of `gemini_pr_bot_workflows`
(`workflow.ts`). Every pod runs two loops, the *standard* lane and the
*status* lane, that lease rows, hand them to `PrBot.processEvent` (`bot.ts`),
and complete, requeue or fail them. A handler reads the pull request from
GitHub (`github.ts`), asks a model, and publishes: comments, approving
reviews, requests for changes, and a check run named `Seori Review`, whose id
is stored in the row so that a retry reports on the same one. Pods share
nothing but MySQL and GitHub. Two pods run at once during every rollout
(one replica, rolling update with surge), and a lease (600 s) can be shorter
than the run it covers (a model call may take 450 s and there are several).

### Inventory

| Component | State it keeps | Operations | Talks to | What makes it correct |
|---|---|---|---|---|
| Workflow store and engine (`workflow.ts`, `workflow-retry.ts`) | table of rows: status, key, attempts, lease owner and expiry, due time, check run id, target; per loop the `WorkflowRun` it holds | enqueue (INSERT IGNORE), leaseNext, leaseExpiredFinalAttempt, complete, fail, the two deferrals, failExpiredFinalAttempt, stop, recordTarget, recordCheckRun, findActiveReview | handlers, both pods through MySQL | one worker per row; settlements based on current facts; nothing stranded, nothing reopened; everything settles; status rows do not wait for reviews |
| Review, agent and recheck jobs (`bot.ts`) | local variables across dozens of awaited calls; `activeChecks`; `shuttingDown` | runReview, runStructuredReview, runAgent, coalesceReviewRequest, createTrackedCheck, deferApprovalUntilCiSettles, handleCiRecheck, approveAndNotify, maybeSquashMerge | store, GitHub, model | approvals only of reviewed HEADs; check runs neither forgotten nor orphaned, always concluded, of the right HEAD; requests lead to a review |
| Acceptance guide and status reconciliation (`bot.ts`, `acceptance-guide.ts`, `status-reconciliation.ts`) | review threads and marker comments at GitHub; `pending` promises per process; a MySQL named lock | runAcceptanceGuideOnce, publishAcceptanceGuide, reconcile | GitHub, MySQL, store | the check says what the threads say; the guide is given, once, completely; a failure does not look like a success |
| Process (`index.ts`, `dedupe.ts`) | `TtlSet` of deliveries, shutdown timer | webhook endpoint, SIGTERM, force exit | store, bot | graceful stop; duplicates filtered (finally by the table) |
| Finding ledger (`review-finding-ledger.ts`, `review-turn.ts`, parts of `bot.ts` and `workflow.ts`) | findings per PR with fingerprint, state, HEAD, context hash, thread | snapshot, dismissal, reconcile, compare-and-swap upsert, attaching thread ids | review jobs | no older evaluation overwrites a newer one; fixed and dismissed findings stay so |
| Stale monitor (`stale.ts`) | none across scans; the follow-up rows' keys | scan, self-trigger, close, the follow-up job | GitHub, store, agent | an answered PR is closed only after a follow-up; in the end every PR with nothing to follow up is closed; responses are followed up |
| Provider routing (`ai-client.ts`, `minimax-client.ts`) | cooldown table and request under way, in memory | runWithProviderFallback | models | a cooling provider is skipped; all cooling defers the row without using up an attempt |
| Structured gate (`review-gate*.ts`, `review-grounding.ts`, `review-acceptance-coverage.ts`, `minimax-*.ts`, parts of `bot.ts`) | recorded runs (`gemini_pr_bot_review_runs`) | menu, extraction, verification, grounding, verdict, disclosure, cache | model, store | a PASS only of what this HEAD proves; what was proven is not asked for again; a recorded run can be read and reused; an inconclusive verdict says what is missing |
| Prompts and formatting, repository context, metrics, notifications, configuration | – | – | – | – |

Hard behaviours: interleaving of two pods; a pod that dies, or is told to
stop, between any two calls; a call that was carried out although it failed;
facts read many calls before they are used (HEAD, CI, older reviews, whether a
guide exists, attempts, a timeline); evidence carried over from other HEADs; rows settled by id without an owner check; keys that
repeat. `PROJECT.json` lists them one by one under `hazards`, with the line
where each bites and the properties that would catch it.

## Modules

| Module | Models | Composition |
|---|---|---|
| `DurableJobs` | what a durable queue promises: submit, take, release | abstract specification |
| `WorkflowEngine` | the table, the statements of `MysqlWorkflowStore`, the loops, pods, lost answers | implements `DurableJobs` (`ImplementsDurableJobs`) |
| `ReviewJobs` | the handler between lease and settlement, in conservative gate mode | EXTENDS `WorkflowEngine`: same rows, same crashes |
| `AcceptanceGuide` | the guide job and the reconcilers | uses `DurableJobs` as its queue (INSTANCE) |
| `FindingLedger` | the findings of a pull request under several reviews | stands alone; `ReviewJobs` has its outcome |
| `GateGrounding` | what counts as proven, given the files of one HEAD: pure operators | used by `ReviewGate` |
| `ReviewGate` | the gate over the reviews of a pull request: recorded runs, cache, verdict, publication | EXTENDS `GateGrounding`; `FindingLedger` and `ReviewJobs` have its outcome |
| `ProviderFallback` | one request through the model providers, and the cooldown table of a pod | used by `StaleMonitor` |
| `StaleMonitor` | the scans and the follow-up jobs they queue | EXTENDS `ProviderFallback`: the job's model call |
| `MCReviewJobs`, `MCAcceptanceGuide`, `MCFindingLedger`, `MCReviewGate`, `MCStaleMonitor` | instances for TLC (`WorkflowEngine` needs none) | |
| `WorkflowEngineProofs` | types, unique deliveries, exclusion and what follows from it, the refinement of `DurableJobs` | EXTENDS `WorkflowEngine` |
| `ReviewJobsProofs` | types of the handlers; they use the queue as the engine allows | EXTENDS `ReviewJobs`, `WorkflowEngineProofs` |
| `ReviewChecksProofs` | approvals, check runs kept and orphaned | EXTENDS `ReviewJobsProofs` |
| `ReviewRequestsProofs` | while nothing fails: requests lead to a review, a success is of its HEAD, check runs in progress are carried | EXTENDS `ReviewChecksProofs` |
| `AcceptanceGuideProofs` | types, turns and locks; the check and the threads; no guide is lost | EXTENDS `AcceptanceGuide` |
| `FindingLedgerProofs` | types and what a review decides; later HEADs win; clean approvals; findings end and return for a cause | EXTENDS `FindingLedger` |
| `ReviewGateProofs` | a PASS is proven on its HEAD; verdicts and items agree; line numbers; types; recorded runs decode; proofs stay; reused passes pass again | EXTENDS `ReviewGate` |
| `StaleMonitorProofs` | deferrals cost no attempt; types; an answered PR is closed on a follow-up only | EXTENDS `StaleMonitor` |

**WorkflowEngine.** `rows[i]` is a table row. The clock is reduced to the
comparisons the queries make: `due` (`next_run_at <= now`), `lease` (none,
live, expired) and `young` (inside the transient retry window). `run[w]` is the
`WorkflowRun` loop `w` holds, with the attempts it read; `pc[w]` says where
`loop()` is. Each statement is a function from row to row (`CompletedRow`,
`FailedRow`, ...), each transaction an action (`LeaseNext`, `LeaseExpiredFinal`,
`Complete`, ...). `busy` is the whole of `processEvent`, which returns or throws
one of the three errors `processOne` tells apart. `CompleteThrows`,
`SettleThrows` and `LeaseLost` are calls that fail before or after they took
effect. Whatever one transaction locks (`FOR UPDATE SKIP LOCKED`) is atomic.

**ReviewJobs** opens `busy` up. `job[w].at` is the next awaited call, so
everything else in the system may happen between two calls. `rec[i]` are the columns of a
row that only handlers use. The model's answer is any verdict. `FollowQueue`
ties the handler to the engine's actions: a worker that takes up a row starts
its handler, one whose pod dies forgets it. A review writes its findings one
transaction at a time (`WritesFinding`) and compares them only afterwards
(`PersistLedger`): `ledger[f]` is the row that wrote finding `f` last, and
`job[w].overwritten` are the findings another review has written since this one
read or wrote them. Any of them may make the compare-and-swap or the comparison
fail; whether it does depends on what exactly was found, which is left open.

**AcceptanceGuide** needs of the queue only what `DurableJobs` says, so it runs
on that abstraction (jobs are taken once at a time and may be given back any
number of times; the attempt budget does not count there). `thread[i]` is the
guide's thread on item `i`, `notes` the markers of summary comments, `serial`
the promise chain of `serialize`, `lock` MySQL's `GET_LOCK`. A check's `output`
is kept as far as reconcilers compare it. `faults` counts failed calls,
crashes, and among these the `early` ones, before the guide is out: a guide
none of which hit is given `InOneGo`, and of those `CheckMatchesThreads` and
`WrongCheckIsRepaired` speak. A review that finds an older one of its HEAD leaves
the answer to it, which may have left it to a yet older one: `Answering` is that
chain, and `GuideIsNotLost` follows it.

**FindingLedger** is what `runStructuredReview` (conservative mode) does between
reading its context and publishing its verdict. `rows[f]` is the row of
fingerprint `f`; `code[h]` says which evidence the files of HEAD `h` contain:
the version of the lines that a fatal finding quotes, or whether a test is
missing. `context` is what the context hash covers of the findings (state,
quote, refutation), so two reviews of one HEAD have the same context exactly if
they read the same ledger. What the model and the loading of files contribute is
chosen freely in `Judges`: which findings are raised and reworded, which tests
are found, which files were loaded. A push changes the evidence of at least one
finding. `Upsert` is one transaction; between two of
them anything may happen. A review that throws, crashes or is stopped ends
(`Stops`); it is run again as a new review. `Start` reads the HEAD and the rows
in one step, and checks of the HEAD belong to the step before them: in both
cases a push in between ends the review before it has done anything else.

**GateGrounding** takes the text matchers as constants: `Proofs[k]` are the sets
of test lines that prove criterion `k`, `LineFacts` what a line of code does.
What is left is the part a test hardly reaches: which rows are on the bounded
menu (pins of earlier evidence first, the ranking of the rest open), how a cited
row is found again by line or by a unique quote, what one line or a bundle
proves, and how a claimed defect's root, chain and verifier evidence are rebound
to the lines of the file before they are judged. One test and one product file
stand for all.

**ReviewGate** runs these operators review after review. `heads` are the files of
every HEAD so far, `rows` the recorded runs in the order of insertion (a run
counts for later ones once its job is completed: `live`), `run` the review under
way: `ask` before the model is called, `publish` after the run has been recorded,
`post` after the ledger has been written. `Conclude` is the whole way from the
answers to the recorded run, for a fresh answer (`Ask`) as for a cached one
(`Reuse`). An answer is any the strict parser lets through (`WellFormed`);
either pass, any verifier, either read of earlier runs and the recording may
fail, and the job may be stopped or crash. Reviews run one after another here;
the ledger opens and resolves findings but leaves refutations, regressions and
the compare-and-swap to `FindingLedger`. Guide mode, which records runs the same
way and keeps no ledger, is not in it.

**StaleMonitor.** `talk[p]` is the timeline of a pull request: what the bot asked
for on which HEAD (the hidden marker), what people said, when commits are dated;
`at` are seconds, which two entries may share. A step of a scan is one group of
awaited calls, so everybody else may act between reading the timeline, reading
the status and closing. A follow-up row is its dedupe key (PR, HEAD, time of the
response); a row is `dropped` when its job returned without a word and `handed`
when it left its approval to a CI recheck. Requesting changes and closing are
one step, as are the lease and the job's first read. **ProviderFallback** is the
job's model call: `cooling[s][v]` is counted in ticks, and a request in which
nobody could be asked defers the row (`DeferredRow`), one in which somebody
failed uses up an attempt. The other jobs of a process share its cooldown table;
only the follow-up jobs feed it here, with any cooldown at any request.

`map` in `PROJECT.json` gives the source lines of every definition.

## Runs

Passing runs:

| Run | Asks | Bounds |
|---|---|---|
| `engine_exclusive` | are rows held by one worker, settled on current facts, never stranded, duplicated or reopened; does the engine so implement `DurableJobs`; does every row settle? | 2 pods, 2 rows, 2 attempts, 1 outage, 1 database error |
| `engine_status_lane` | are status rows leased without any standard loop running? | 1 pod, 2 lanes, 2 rows, 1 outage, 1 database error |
| `review_pushes` | approvals, check runs and HEADs under changes of the PR; does every check conclude? | 1 review and its rechecks, 2 HEADs, 3 changes, 2 rechecks; CI may stay pending for ever |
| `review_faults` | approvals, kept and orphaned check runs, with crashes and SIGTERMs or with a failing call anywhere, in a review, a command or an agent job (approval, close and squash-merge) | 1 pod, 1 review or agent job, 1 finding, 1 recheck, 2 faults (outages, or one of them a failed call; or 1 database error alone), 1 change |
| `review_coalescing` | do requests for one HEAD lead to a review, unless reviews write over each other's findings? | 2 pods, an automatic review and a `/review`, 2 findings, 3 rows (a review that schedules its recheck has published its verdict already) |
| `guide_status` | does the check end up saying what the threads say, is no guide lost, is it never green over an unresolved thread, and is it put right while no call fails? | 2 guide jobs, 1 status job on 2 pods, 2 items, 2 HEADs, 2 changes, 1 fault (a crash or a failed call) |
| `ledger_overlap` | do findings open and close for a cause only, whatever reviews interleave or stop; does an approval meet no open finding? | 3 reviews, one of which starts beside another or stops; 2 findings (one fatal, one missing test), 2 HEADs, 2 versions of lines, 1 thread, 1 answer of a maintainer |
| `stale_followup` | is a PR somebody answered closed only when the last request is a follow-up, and every PR with nothing to follow up in the end; is a response followed up; are deferrals free? | 1 PR, 1 pod, 1 provider with a cooldown of 2 ticks, 2 HEADs, 3 remarks besides follow-ups, 2 attempts, 1 upset (a push, a change of the status, a failed call, a crash or a stop) |
| `review_gate` | does a PASS hold of its HEAD, does evidence survive pushes while it is there, can recorded runs be read and reused, do line numbers matter, does an inconclusive verdict say why? | 2 recorded runs, 2 criteria (the second proven by two lines together, and peripheral), menus of 2 rows, a fatal and an advisory claim, 1 push or rewording, 1 fault |

The bounds are where the hazards need them: two attempts make the last attempt
differ from the others, two workers and two rows let one row be taken while the
other is worked on, two HEADs make a push, and two reconcilers are what a lost
update takes. The ledger needs three reviews: one that opens a finding, one that
dismisses it, and one that sees its lines change; two findings make a
half-written ledger. The gate needs a first review that proves something and a
second one that finds it again, reuses it or no longer finds it; its three
contents are an incomplete one, a complete one, and one in which a proof is
gone, another has moved and a line of a claim occurs twice. A rejected claim
counts for no more than one never made, so its checks confirm or are undecided.
The stale monitor needs a follow-up that is deferred, fails once and is tried
again, and a third remark that shares a second with another. Every property has
a mutant, a plausible bug in a mapped definition, that TLC finds under the same
bounds. `review_coalescing` uses the symmetry of pods and of findings
(`review_faults` has one finding, for the writes that fail halfway; the other
runs of `ReviewJobs` have none), `ledger_overlap` that of reviewers.
In `review_faults` and `review_coalescing` a row ages only under a job that has
failed (`ACTION_CONSTRAINT AgesWhenRead`): that is where the age is read, it
depends on nothing else and no invariant asks for more than its type, so a row that aged
earlier comes to the same. `review_pushes` lets rows age at any time. A
system at rest has an explicit idle step, so deadlock is checked everywhere but in
`stale_followup` and `review_gate`, in which everything is over once the pull
request is closed or the bound of recorded runs is reached.

Violation runs, each a disagreement between the code and the repository's own
documentation (`findings` in `PROJECT.json` quotes the lines):

| Run | What it shows |
|---|---|
| `engine_overlap` | with a lease shorter than its run, a late `fail()` requeues a row with no attempts left: ready for ever |
| `stop_leaves_check` | a resumed review returns early on SIGTERM; the row is completed, its check stays pending |
| `guide_races_status` | the publisher writes its conclusion without the lock |

### Where the code promises less than its documentation

Modelling met more such places. They are why some properties carry a condition
or a run leaves an actor out; the models contain the behaviour, and each can be
seen by stating the claim as an invariant under the bounds given.

- A command retried after the PR was closed is ignored, its check run pending
  (`bot.ts:518`; one command, one change, one outage).
- A crash between creating and recording a check run orphans it (`bot.ts:1664`);
  `OrphansAreOfOutages` says that nothing else does.
- A review run again after a crash schedules its recheck under a key that a
  finished recheck already has, and INSERT IGNORE drops it: the check is carried
  by no row (`workflow.ts:608`, `bot.ts:1841`; `PendingCheckIsCarried` with one outage).
- Of two pods the newer request may look for an older review before that one has
  recorded its target, and both call the model (`bot.ts:1272`).
- One failed call is enough for nobody to review a HEAD: a review writes the
  findings and then fails, the other review of the HEAD discards its verdict as
  stale (`bot.ts:2787`) and completes, and the retry of the first is coalesced
  into that completed row. `README.md:234` describes the coalescing;
  `RequestsLeadToReview` speaks of runs in which nothing fails.
- No failure at all is needed for that when there are two findings. Two reviews
  of one HEAD that read the same rows pass each other's compare-and-swap
  (`workflow.ts:374`), write their findings one by one, and only then list and
  compare them (`bot.ts:3440`, `bot.ts:3453`). If A writes the first, B both, and
  A the second, each finds a finding of the other's: both discard, each saying on
  its check that a newer result of the same HEAD has been stored
  (`bot.ts:1741`), both rows complete, and nobody has reviewed the HEAD.
  `RequestsLeadToReview` therefore excepts the ledger that is left then, with
  findings of two rows (`MixedLedger`); without the exception TLC finds the
  interleaving under the bounds of `review_coalescing`, and with one finding
  there is none.
- Coalescing may reopen the check of a review that has just concluded it
  (`bot.ts:1451`; `PendingCheckIsCarried` with two pods and two requests).
- A review resumed after a push concludes the old HEAD's check run with success
  (`bot.ts:1661`; `SuccessIsOfItsHead` with an outage).
- Two reviews of one HEAD that read the same rows have the same context, and the
  compare-and-swap takes the second for the first (`workflow.ts:374`): it may
  store a finding open that the first has just resolved, and approve while the
  first has opened another. `ApprovalMeetsNoOpenFinding` therefore speaks of
  reviews that no other ran beside. It may even close a finding whose lines are
  in the HEAD: both read it with lines that are gone, one stores it again with
  the lines that are there now, and the other then resolves it for the old ones.
  `OpenEndsForCause` and `RefutedStaysRefuted` therefore leave out a row that is
  overwritten by a review that knows its twin (`OverwritesTwin`). The exception
  is not needed within the bounds of `ledger_overlap`: TLC finds the case with 1
  finding, 2 reviewers at a time, 5 reviews, 2 HEADs and 2 incidents.
- A review of an older HEAD that writes first makes the compare-and-swap refuse
  the review of the current HEAD, and is then cancelled itself because the HEAD
  has changed: nobody publishes a verdict, although the discarded review reports
  that a newer result of the same HEAD has been stored (`bot.ts:1741`).
- An old `/seori refute` reply refutes a finding again that regression evidence
  has reopened, at the next review, and from then on regressions are looked for
  relative to the new refutation (`bot.ts:3174`).
- The comment of `reconcileReviewFindingLedger` names two ways of resolving a
  finding. Called from `bot.ts` the one by a complete inventory never applies:
  an open finding is proven absent, listed as present, or makes the inventory
  incomplete (`bot.ts:3208`).
- "The newest previously Host-grounded row whose exact evidence still
  revalidates" (`review-acceptance-coverage.ts:366`) is the newest grounded row,
  tried once: if it fails on this HEAD, an older one that would hold is not
  looked at (`bot.ts:2480`). `ProvenStaysProven` speaks of the newest.
- The pins of earlier evidence may outnumber the menu (four per criterion and up
  to 80 criteria against 240 rows), and what does not fit is asked for again;
  hence the condition on the menu's size in `ProvenStaysProven`. Whether a quote
  is unique is looked up on the menu when it is first accepted and in the whole
  file when it is pinned, so a row accepted with a wrong line may not be found
  again if its line occurs twice; hence the assumption `DistinctTests` of the
  theorem `ProofsStay`.
- Where a menu cuts off test lines, a pass that is reused need not pass again: the
  pins of earlier evidence change the menu, and a supporting line that the
  recorded run could not see may be found now and complete a bundle, or break
  one. Hence the assumption `WholeMenus` of the theorem `PassesAreRepeated`.
- A missing test stays open for ever once its criterion has been reworded or
  removed, and a rewording discards every recorded proof (`bot.ts:3278`).
- A fatal defect that a verifier confirmed and the host could not ground is
  dropped, and the gate may pass (`bot.ts:2590` only words the comment).
- The context hash covers the findings and the criteria, not the conversation: a
  contributor's answer alone has the recorded verdict repeated.
- `README.md:58` says that stale PRs are closed when a request "has had no new
  commit or human response for more than 24 hours", and the comment posted with
  the closing says so of the PR at hand (`stale.ts:531`). If the last request is
  itself a follow-up, the scan closes without looking for either
  (`stale.ts:353`): an author who answers or pushes after it, without mentioning
  the bot, is closed all the same. `AnsweredIsClosedOnFollowUp` admits exactly this
  case; without it (`CameAfter` taken as never) TLC finds the closing under the
  bounds of `stale_followup`.
- A response has one follow-up for ever: if that job gives up, does nothing or
  leaves its approval to a recheck, the response is not followed up again and
  the PR is not closed (`stale.ts:545`; hence the condition in
  `ResponseIsFollowedUp`). A push or an answer between the last read and
  `closePullRequest` is not seen (`AnsweredIsClosedOnFollowUp` speaks of what was
  read).
- In guide mode: after a crash a reopened PR may be coalesced into a job that did
  nothing (`bot.ts:1260`; hence the condition in `GuideIsNotLost`); a job run
  again after a crash between two threads never posts the rest, because one
  thread already carries the publication marker (`bot.ts:1121`); a job cut
  off before its guide is out reports under the check run it had, while a newer
  job's check of the HEAD keeps what it says (`bot.ts:1661`; hence `InOneGo`); of
  three jobs the last may be answered by the second and that one by the first
  (`bot.ts:1272`; hence `Answering`); two standard loops and a push in between
  post two guides, after which the check may be wrong, a success unearned or the
  guide lost (`bot.ts:1121`; hence `OneGuideLoop`); a guide that could not be
  generated turns from neutral to success at the next reconciliation
  (`status-reconciliation.ts:215`); a merge conflict still requests changes
  (`bot.ts:1305`).

### Assumptions of the runs

*LeaseOutlivesRun.* In all runs but `engine_overlap` no lease of a living
worker expires. The code does not guarantee it: no statement checks the owner,
and several model calls may take longer than the lease. `engine_overlap` shows
one consequence; the other runs and the exclusion theorems say what holds when
operators keep `WORKFLOW_LEASE_MS` above the longest run. Leases of dead pods
expire in every run.

*StatusDuringPublish.* In the passing guide runs no thread is touched and no
status command given while the guide is being posted; `guide_races_status`
drops this.

*OneGuideLoop.* All guide runs, and the guide's theorems, have one standard loop
that takes the rows of the pull request. Nothing in the code keeps two pods from
doing so during a rollout; it holds while the second pod's loop is busy with
another pull request or there is one pod.

*Fairness.* Loops are promise chains that never end while the process runs, and
every awaited call has a timeout, hence weak fairness of each worker. The clock
advances (weak fairness of expiry and due times). The deployment kills pods
that outlive their grace period and starts new ones. In the engine's `FairSpec`
strong fairness of the outcomes that are not a provider cooldown is added:
cooldowns defer a row without limit, so without it a row may wait for ever.
GitHub may answer 5xx every time, because its retry window closes. CI may stay
pending: rechecks time out. `engine_status_lane` assumes nothing of standard
loops. In `stale_followup` the scan loop, the job loop, the passing of the
threshold and of cooldowns are weakly fair (timers of a process that is
restarted when it dies; the bound on upsets ends the crashes); that a provider
ever answers is not assumed, nor anything of people.

## Proofs

Every theorem holds for all values of the constants that satisfy the modules'
assumptions (the budget of attempts is positive, bounds are natural numbers,
numbers are numbers, markers are not values, answers have the shape the strict
parser gives them). Further assumptions are named with the theorem. Each argument
is the same: an invariant that implies the property and that the initial states
and every step satisfy; what is interesting is what the invariant has to say.

**The queue** (`WorkflowEngineProofs`)

- `TypeCorrect`, including that no row is leased beyond its budget.
- `DeliveriesAreUnique`. Uniqueness of keys is not inductive alone: a statement
  writes the row a worker *remembers*, and if that row did not exist the write
  would create one. `UniqueInv` adds that whatever a worker holds exists.
- `RowsHaveOneWorker`, `SnapshotsAreCurrent`, `NoRowIsStranded` and
  `SettledRowsStay`, if leases outlive runs. None is inductive: two workers on
  one row are excluded because a held row is running under a live lease, which
  needs the snapshots to be current; snapshots are current because nobody else
  writes the row, which needs exclusion; a row stays within reach of a query
  because `fail()` counts with a current snapshot. `ExclusiveInv` is their
  conjunction with `TypeOK` and with the fact that the loops of a dead pod are
  off. `SettledRowsStay` is an action property that follows from the invariant.
- `EngineIsADurableQueue`, if leases outlive runs: `Spec` implements
  `DurableJobs`. A row is a job; a worker whose snapshot is of a running row
  holds it, and by the exclusion it is the only one. Each statement is a step of
  the queue or a stutter; an unheard `complete()` leaves the job with its holder.

**Reviews** (`ReviewJobsProofs`, `ReviewChecksProofs`, `ReviewRequestsProofs`)

- `ReviewTypes`. The shape of a handler says what its place implies: a verdict is
  published only once there is one, a recheck scheduled only within the bounds.
- `ReviewsUseTheQueue`, `ReviewSpec => Spec`: every step of a handler is a step of
  the engine or leaves rows, loops and pods alone. So all of the above carries
  over, and with it `ReviewsAreADurableQueue`, if leases outlive runs.
- `ApprovalsArePasses`, with no assumption on leases. A pass is remembered in two
  places until it becomes an approval: by the handler that waits for CI and by
  the recheck row that waits in its place. `ApprovalInv` says of both that the
  HEAD they are for has passed.
- `ChecksAreKept`, if leases outlive runs: a step may write the check run of a
  row only if the row has none, because what its one worker remembers of it is
  what is in the row (`CheckInv`).
- `OrphansHaveACause`, if leases outlive runs. A check run is unknown to rows
  between being created and being recorded; `LeftInv` counts the check runs that
  have been left behind there, and the pods that are stopping, against the
  outages and failed calls. `RecordedInv` says whose every other check run is.
- `QuietPrIsReviewed`, if leases outlive runs and nothing fails: the proof follows
  the oldest row. Nobody is before it, so it is never coalesced; it can only be
  dropped for a finding another review has written since. `AssuredInv` says what
  holds once any finding has been written: the HEAD is reviewed, a review is
  about to publish, one that still has the ledger open wrote some finding last,
  or the ledger is mixed. The last writer of a finding leaves without a verdict only
  if another finding is marked as overwritten, and a marked finding is another
  row's (`MarksStay`): then the ledger is mixed, and what is mixed stays so until
  somebody writes again (`AssuredStays`). With a failed call the conclusion is
  false (see above).
- `SuccessesAreOfTheirHead`, if leases outlive runs, nothing fails and no agent
  job is asked for. `OnceInv`: then every row is taken up once, so a job never
  starts with a check run created for a HEAD the pull request may have left (a
  retry does, and so does an agent job after the cooldown of its providers).
  `HeadInv` adds that the check run a job or a queued recheck has was created
  for the HEAD it is about, and that a job concludes with success only after it
  has approved that HEAD. Requests, pods, pushes and coalescing are unrestricted.
- `PendingChecksAreCarried`, if, besides, there is one request (with two it
  fails, see above). `ChainInv`: the rows are that request and its rechecks,
  numbered by attempt, and only the last is unfinished; so the row a recheck
  inserts is new and INSERT IGNORE does not drop it. `CarriedInv`: a check run in
  progress is known to a handler that has not returned or to a queued recheck of
  it, for a handler returns only with a completed check run or by scheduling
  (`HandlerReturns`).

**Guide** (`AcceptanceGuideProofs`)

- `GuideTypes`, with whoever has the turn of its process and the lock.
- `SuccessIsEarned`, `CheckIsRight` and `GuideIsKept` for one standard loop
  (`OneGuideLoop`) and no status event while the guide is posted. `GuideInv` has
  nine parts. Who is at work holds its job (`QueueInv`); HEADs and check runs are
  numbered as they come, and a conclusion is that of the newest (`HeadInv`); what
  has been posted is what was planned (`PlanInv`); before the guide is out there
  is no thread and no success (`PublicationInv`); the check run of a review that
  nothing has cut off is its own and the newest (`OwnCheckInv`); what a
  reconciler has read of the check runs still holds when it writes, because only
  the holder of the lock writes then (`LookedInv`). The last part is the heart:
  whenever something is wrong on the check of the HEAD, or somebody has read the
  threads before they changed, a job is pending or a loop is still to look again
  (`RepairInv`). When all rows are worked off nobody is, so nothing is wrong.
- For `GuideIsKept`, `RequestInv` is added: as long as no guide is out, the last
  request waits, is at work on the HEAD, or is answered, by itself or by the
  chain of older reviews it left the answer to.

**Ledger** (`FindingLedgerProofs`)

- `LedgerTypes`. `JudgedIsDecided` says once what the gate and the reconciliation
  decide, whatever the model answers, and is cited by the rest.
- `LaterHeadsWin`. That the compare-and-swap never goes back takes more than its
  guard: it accepts a row equal to the one *read*, so `EvaluationInv` says that
  what a review read is not newer than its HEAD and that what it writes is of its
  HEAD; it accepts an absent row, so absent rows were never evaluated; and a
  thread id may be attached much later, so what is kept for it is not newer than
  the HEAD of the pull request.
- `ApprovalsAreClean`. A review that has been alone so far (`Undisturbed`) read
  the rows as they are, writes nothing open, leaves out only what is absent, and
  goes on only if the second listing shows what it wrote. No assumption is made
  on what refused or stopped reviews left behind.
- `OpenFindingsEndForCause` and `RefutationsStand`, two action properties. The
  step that changes a row happens many calls after the decision, so `CauseInv`
  says of every review that is about to write that each finding it closes or
  opens, compared with what it *read*, has its cause in the files of its HEAD or
  in a dismissal; that the row it overwrites is the one it read, twins aside, is
  what the compare-and-swap gives. The causes stay while the review waits,
  because pushes keep the files of older HEADs and nobody takes a dismissal back
  (`Grows`). `RefutedBy` adds that a refutation is of a HEAD that exists, in a row
  a review read of one no newer than its own: what "a later HEAD" refers to.

**Gate** (`ReviewGateProofs`)

- `PassesAreProven`, `GateSpec => PassIsProven`. The menu is of lines of the HEAD
  under review, so `GroundedHasProof` makes every criterion taken as proven one
  that this HEAD's tests prove, wherever the evidence was first cited;
  `PassMeansClean` says what a verdict of PASS excludes; `PassInv` carries both
  from the recorded run to its publication, over pushes, stops and crashes, and
  says that the findings the verdict was about are then the ledger.
- `VerdictsHaveItems`. `ItemsTellUnresolved` compares the verdict's conditions
  with the list of items one by one.
- `DriftsAreHarmless`. A quote that is one line of the file is bound to that line
  from any hint (`RebindIsBound`), so claims with the same quotes become the same
  claim (`ReboundIsBound`, `QuotesDecide`), for chains and evidence of any length.
- `GateTypes`. That the ledger has one finding per identity rests on how a review
  joins what it finds to what it read (`LedgerStaysOK`).
- `RecordedRunsDecode`. What is kept of an answer is picked by rank: the n-th of
  the kept places is the n-th least (by the least element, and by counting), so
  ids are again 1, 2, 3, ..., each verification meets its candidate, and a
  missing test is kept only where the merged coverage still lacks it. `ReadInv`
  says this of every recorded run and of the earlier coverage a review has read.
- `ProofsStay`, if no file has a test line twice (`DistinctTests`): the pins put
  every cited line that is still in the file on the menu, there a quote is found
  by itself alone, and so the newest proof is found to hold whatever else the
  model cites. `KnownInv` adds to `ReadInv` that what a review has read of the
  earlier runs is what the completed runs still say.
- `PassesAreRepeated`, if no menu leaves a line of the test out (`WholeMenus`):
  two reviews of a HEAD then choose from the same rows (`MenuIsWhole`). `IsPass`
  says of the answers in a recorded run, and of what it records alone, all that
  makes them pass, and `RowsPass` that the answers of every recorded PASS are
  such; `PassAgain` shows that with these answers a review of the same HEAD,
  criteria and findings passes, whatever the earlier coverage it has read. It
  rests on the merge of earlier evidence leaving a proven criterion as it is, and
  on the second filtering dropping only candidates that do not count
  (`FilteredPicks`: the kept places are exactly the wanted ones).

**Stale monitor** (`StaleMonitorProofs`)

- `DeferralsCostNothing`. The row a job writes when it ends has to be the one it
  took: `FreeInv` adds that a pod with a job holds a running row that no other
  pod holds.
- `MonitorTypes` adds the types (`StaleInv`); that attempts stay within the budget
  needs the exclusion in `FreeInv`.
- `FollowUpCloses`, an action property: the signal a scan finds is the latest of
  its HEAD, and the response it finds the last one, both as chosen by the
  operators from the timeline it read (`SignalIsLatest`, `ResponseIsLast`); where
  none was found, either none came or the request is a follow-up.

Only model-checked:

- liveness, which needs fairness: `EveryRowSettles`, `StatusRowsDoNotWait`,
  `EveryCheckFinishes`, `ResponseIsFollowedUp`, `LingeringPrIsClosed`,
  `WrongCheckIsRepaired`.

## Not modelled

- `ReviewJobs`: `/approve`, `/help`, answers, inline threads, the dependency
  fast path, the legacy (unstructured) review; the text of anything.
- `AcceptanceGuide`: the `/review` command in guide mode, the fast path, a
  SIGTERM inside a guide job, the attempt budget.
- `FindingLedger`: advisory findings, merge conflicts and closing the pull
  request (they end a review where a push does), the computation of fingerprints
  and hashes, guide mode (which reads the ledger and does not write it), and a
  pod without a database.
- `ReviewGate`: what the text matchers decide (constants of the model), evidence
  of regressions, merge conflicts, two reviews at a time, guide mode, the legacy
  gate without structured answers, wording and layout.
- `StaleMonitor`: a scan that stops at `MaxPerScan` or at a PR whose calls fail,
  with other PRs behind it (one PR in the run); reopened PRs; the follow-up in
  guide mode, which only refreshes the guide's check (`bot.ts:904`).
- `ProviderFallback`: the weights of the order, and what is sent and parsed.
- The second opinion (a pure choice between two answers), repository context,
  metrics, notifications, configuration: see `components` in `PROJECT.json`.
- The in-memory store (used without a database URL) and the `TtlSet`: the table's unique key decides.

## Plan

1. *Commands*: `/approve` with `approvePullRequest`'s validation, `/review` in
   guide mode, the dependency fast path and the recheck in guide mode.
2. *Stale monitor* with two pull requests: what one that fails costs the other.
3. *Proofs*: `PendingCheckIsCarried` for several requests, should coalescing read
   the check run again before it reopens it.
