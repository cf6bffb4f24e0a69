--------------------------- MODULE FindingLedger ---------------------------
(***************************************************************************)
(* The ledger of review findings of one pull request: what a structured    *)
(* review in conservative gate mode does between reading its context and   *)
(* publishing its verdict (src/src/bot.ts, runStructuredReview), with      *)
(* reconcileReviewFindingLedger (review-finding-ledger.ts) and the         *)
(* compare-and-swap of upsertReviewGateFinding (workflow.ts).              *)
(*                                                                         *)
(* A finding is its semantic fingerprint; fingerprints are numbers because *)
(* the ledger is written in their order. All of them are of the blocking   *)
(* kinds. A quote stands for the evidence of a finding: the version of the *)
(* quoted lines of a fatal one; for a missing test, 1 while it is missing. *)
(*                                                                         *)
(* Reviews run side by side when a lease runs out under one of them (see   *)
(* WorkflowEngine), and a review that stops anywhere is run again.         *)
(***************************************************************************)
EXTENDS Integers, Sequences, FiniteSets

CONSTANTS
  Findings,         \* fingerprints, as numbers
  MissingTests,     \* those of kind missing_tests; the others are fatal
  Reviewers,        \* handlers that can run at the same time
  MaxHead,          \* bound: pushes
  MaxQuote,         \* bound: versions of the lines of a finding
  MaxReviews,       \* bound: reviews
  MaxThreads,       \* bound: review threads
  MaxIncidents,     \* bound: reviews that start beside another, or stop
  MaxAnswers        \* bound: what maintainers do to threads

ASSUME LedgerBounds ==
  /\ MaxHead \in Nat \ {0} /\ MaxQuote \in Nat \ {0}
  /\ MaxReviews \in Nat /\ MaxIncidents \in Nat /\ MaxThreads \in Nat /\ MaxAnswers \in Nat
ASSUME LedgerFindings ==
  Findings \subseteq Nat /\ IsFiniteSet(Findings) /\ MissingTests \subseteq Findings

VARIABLES
  code,      \* code[h][f]: the quote of f that the files at HEAD h contain
  rows,      \* gemini_pr_bot_review_gate_findings
  threads,   \* the inline threads, in the order GitHub lists them
  published, \* fingerprints whose marker is in some review or comment
  review,    \* the local variables of each running review
  counts     \* reviews started, answers of maintainers

vars == <<code, rows, threads, published, review, counts>>

Heads == 1..MaxHead
Quotes == 0..MaxQuote
CurrentHead == Len(code)
Fatal == Findings \ MissingTests
Files == {q \in [Findings -> Quotes] :
            \A f \in Findings : IF f \in MissingTests THEN q[f] <= 1 ELSE q[f] >= 1}

(* What contextHash covers of a finding (the HEAD is compared beside it).  *)
Digest == [state : {"absent", "open", "resolved", "refuted"}, quote : Quotes,
           refutedAt : Heads \cup {0}]
Context == [Findings -> Digest]
NoContext == <<>>         \* of a row never evaluated

Row == [state : {"absent", "open", "resolved", "refuted"},
        quote : Quotes,                  \* evidence_hash
        seen : Heads \cup {0},           \* last_seen_head
        evaluated : Heads \cup {0},      \* last_evaluated_head
        context : Context \cup {NoContext},
        refutedAt : Heads \cup {0},      \* refutation.headSha
        thread : 0..MaxThreads]          \* thread_node_id
AbsentRow == [state |-> "absent", quote |-> 0, seen |-> 0, evaluated |-> 0,
              context |-> NoContext, refutedAt |-> 0, thread |-> 0]

(* The local variables of runStructuredReview, each kept as long as it is  *)
(* used.                                                                   *)
Review == [at : {"idle", "threads", "upsert", "settle", "publish", "refresh", "attach"},
           alone : BOOLEAN,              \* no other review ran beside it so far (kept
                                         \* for an approval only)
           head : Heads \cup {0},
           read : [Findings -> Row],     \* ledgerSnapshot
           next : [Findings -> Row],     \* ledger.findings
           closing : SUBSET (1..MaxThreads),    \* threads of those just resolved
           confirmed : SUBSET Findings,  \* currentOpenFindings
           post : SUBSET Findings,       \* publishableFingerprints
           verdict : {"none", "PASS", "FAIL", "FOLLOW_UP"},
           todo : Nat]                   \* the finding to be written next
NoRows == [f \in Findings |-> AbsentRow]
Idle == [at |-> "idle", alone |-> FALSE, head |-> 0, read |-> NoRows, next |-> NoRows,
         closing |-> {}, confirmed |-> {}, post |-> {}, verdict |-> "none", todo |-> 0]

(* The first HEAD supports every finding; reviews need not raise them.     *)
Init ==
  /\ code = <<[f \in Findings |-> 1]>>
  /\ rows = NoRows
  /\ threads = <<>>
  /\ published = {}
  /\ review = [v \in Reviewers |-> Idle]
  /\ counts = [reviews |-> 0, answers |-> 0, incidents |-> 0]

-----------------------------------------------------------------------------
(***************************************************************************)
(* GitHub: pushes and maintainers. (Closing the pull request stops a       *)
(* review at the same places as a push and is left out.) A push changes    *)
(* the evidence of some finding; of the others it may change nothing.      *)
(***************************************************************************)
Push ==
  /\ CurrentHead < MaxHead
  /\ \E files \in Files \ {code[CurrentHead]} : code' = Append(code, files)
  /\ UNCHANGED <<rows, threads, published, review, counts>>

(* A trusted maintainer replies "/seori refute", or resolves a thread.     *)
MaintainerAnswers ==
  /\ counts.answers < MaxAnswers
  /\ counts' = [counts EXCEPT !.answers = @ + 1]
  /\ \E t \in DOMAIN threads :
       \/ ~threads[t].refuted /\ threads' = [threads EXCEPT ![t].refuted = TRUE]
       \/ threads[t].resolvedBy = "nobody"
            /\ threads' = [threads EXCEPT ![t].resolvedBy = "human"]
  /\ UNCHANGED <<code, rows, published, review>>

-----------------------------------------------------------------------------
(***************************************************************************)
(* Reading: the HEAD and its files, then the rows, then the threads and    *)
(* markers. A push between the first two has the review end before it      *)
(* writes anything, so they are one step.                                  *)
(***************************************************************************)
Running == {v \in Reviewers : review[v].at # "idle"}

Start(v) ==
  /\ review[v].at = "idle"
  /\ counts.reviews < MaxReviews
  /\ Running = {} \/ counts.incidents < MaxIncidents
  /\ counts' = [counts EXCEPT !.reviews = @ + 1,
                              !.incidents = IF Running = {} THEN @ ELSE @ + 1]
  /\ review' = [u \in Reviewers |->
       IF u = v THEN [Idle EXCEPT !.at = "threads", !.alone = Running = {},
                                  !.head = CurrentHead, !.read = rows]
       ELSE [review[u] EXCEPT !.alone = FALSE]]
  /\ UNCHANGED <<code, rows, threads, published>>

Goes(v, next) == review' = [review EXCEPT ![v] = next]
At(v, here) == review[v].at = here

ThreadsOf(f) == {t \in DOMAIN threads : threads[t].finding = f}
FirstThread(f) ==
  IF ThreadsOf(f) = {} THEN 0 ELSE CHOOSE t \in ThreadsOf(f) : \A u \in ThreadsOf(f) : t <= u

(* An open finding is refuted by a reply in its thread, or by a maintainer *)
(* who resolved it, once the HEAD is another than the finding was seen at. *)
Dismissed(r, f) ==
  /\ r.read[f].state = "open"
  /\ FirstThread(f) # 0
  /\ LET t == threads[FirstThread(f)] IN
     t.refuted \/ (t.resolvedBy = "human" /\ r.head # r.read[f].seen)

-----------------------------------------------------------------------------
(***************************************************************************)
(* reconcileReviewFindingLedger, a function of the findings as read, the   *)
(* candidates the gate confirmed and the evidence the host found. `id` is  *)
(* the HEAD and context of the review.                                     *)
(***************************************************************************)
Prior(r, seesThreads) ==
  [f \in Findings |->
     LET row == [r.read[f] EXCEPT !.thread = IF seesThreads /\ FirstThread(f) # 0
                                            THEN FirstThread(f) ELSE @]
     IN IF seesThreads /\ Dismissed(r, f)
        THEN [row EXCEPT !.state = "refuted", !.refutedAt = r.head] ELSE row]

ContextOf(prior) ==
  [f \in Findings |-> [state |-> prior[f].state, quote |-> prior[f].quote,
                       refutedAt |-> prior[f].refutedAt]]

(* A missing test has no quote of its own: its evidence is the criterion.  *)
QuoteAt(h, f) == IF f \in MissingTests THEN 1 ELSE code[h][f]

EvaluatedAt(row, id) == [row EXCEPT !.evaluated = id.head, !.context = id.context]

Reopened(row, f, id) ==
  [EvaluatedAt(row, id) EXCEPT !.state = "open", !.quote = QuoteAt(id.head, f),
                               !.seen = id.head, !.refutedAt = 0]

(* reviewGateEvidenceInventory: an open finding that is no candidate is    *)
(* proven absent by a grounded test or by the file of this HEAD. Whatever  *)
(* else is open, it either lists as present or makes the inventory         *)
(* incomplete, so that the second way of resolving a finding, its absence  *)
(* from a complete inventory of a new HEAD, adds nothing.                  *)
ProvenAbsentIfUnread(h, prior, candidates, grounded, loaded) ==   \* mutant
  {f \in Findings \ candidates :
     /\ prior[f].state = "open"
     /\ f \in grounded \/ f \notin loaded \/ code[h][f] # prior[f].quote}
ProvenAbsent(h, prior, candidates, grounded, loaded) ==
  {f \in Findings \ candidates :
     /\ prior[f].state = "open"
     /\ f \in grounded \/ (f \in loaded /\ code[h][f] # prior[f].quote)}

(* A refuted finding stays so unless its lines were added since.           *)
Reconciled(prior, candidates, regressed, absent, id) ==
  [f \in Findings |->
     IF f \in candidates
     THEN IF prior[f].state = "refuted" /\ f \notin regressed
          THEN EvaluatedAt(prior[f], id)
          ELSE Reopened(prior[f], f, id)
     ELSE IF prior[f].state = "absent" THEN prior[f]
     ELSE IF f \in absent THEN [EvaluatedAt(prior[f], id) EXCEPT !.state = "resolved"]
     ELSE EvaluatedAt(prior[f], id)]

(* Which refuted candidates compareCommits may find added since.           *)
AddedSince(h, prior, candidates) ==
  {f \in candidates \cap Fatal :
     /\ prior[f].state = "refuted" /\ prior[f].refutedAt # h
     /\ code[prior[f].refutedAt][f] # code[h][f]}

-----------------------------------------------------------------------------
(***************************************************************************)
(* The listing of threads and markers, the gate (the model's calls and the *)
(* host's validation, which touch nothing others see), and the verdict.    *)
(* Chosen freely: which files were loaded, which findings the model raises *)
(* on the lines of this HEAD and which it rewords, which tests it finds    *)
(* (one that exists may escape it), and which comparisons of commits fail. *)
(* The reuse of a cached answer of the model is one of these choices, and  *)
(* what else keeps a review from approving changes nothing modelled here.  *)
(***************************************************************************)
Open(findings) == {f \in Findings : findings[f].state = "open"}

VerdictOfCandidates(open, candidates) ==   \* mutant
  IF open \cap candidates # {} THEN "FAIL" ELSE "PASS"
VerdictOf(open, candidates) ==
  IF open \cap candidates # {} THEN "FAIL"
  ELSE IF open # {} THEN "FOLLOW_UP" ELSE "PASS"

Known(seesThreads, seesComments) ==
  {f \in published : seesComments \/ (seesThreads /\ ThreadsOf(f) # {})}

(* A new thread is due for what is new, changed (in its evidence, or only  *)
(* reworded by the model) or reopened.                                     *)
Publishable(prior, next, confirmed, reworded, known) ==
  {f \in confirmed :
     \/ f \notin known
     \/ prior[f].state \in {"resolved", "refuted"}
     \/ prior[f].state = "open" /\ prior[f].quote # next[f].quote
     \/ f \in reworded}

ThreadsToCloseIfAny(prior, next) ==   \* mutant
  {next[f].thread : f \in {g \in Findings : prior[g].state = "open" /\ next[g].state = "resolved"}}
ThreadsToClose(prior, next) ==
  {next[f].thread : f \in {g \in Findings : prior[g].state = "open" /\ next[g].state = "resolved"}}
    \ {0}

Judged(r, prior, next, candidates, reworded, known) ==
  LET confirmed == Open(next) \cap candidates
      verdict == VerdictOf(Open(next), candidates)
  IN [r EXCEPT !.at = "upsert", !.alone = @ /\ verdict = "PASS", !.next = next,
               !.confirmed = confirmed, !.verdict = verdict,
               !.closing = ThreadsToClose(prior, next),
               !.post = Publishable(prior, next, confirmed, reworded, known)]

Judges(v) ==
  \E seesThreads \in BOOLEAN, loaded \in SUBSET Fatal :
  \E known \in {Known(seesThreads, seesComments) : seesComments \in BOOLEAN},
     grounded \in SUBSET {f \in MissingTests : code[review[v].head][f] = 0},
     raised \in SUBSET loaded :
  \E missing \in SUBSET (MissingTests \ grounded) :
    LET head == review[v].head
        prior == Prior(review[v], seesThreads)
        candidates == raised \cup missing
        absent == ProvenAbsent(head, prior, candidates, grounded, loaded)
        id == [head |-> head, context |-> ContextOf(prior)]
    IN \E regressed \in SUBSET AddedSince(head, prior, candidates) :
       LET next == Reconciled(prior, candidates, regressed, absent, id)
       IN \E reworded \in SUBSET {f \in Open(next) \cap candidates : prior[f].state = "open"} :
          Goes(v, Judged(review[v], prior, next, candidates, reworded, known))

(* currentStatusForPublish: a review of an outdated HEAD is over. Nothing  *)
(* else is looked at, so the check is part of the step before it.          *)
Outdated(r) == CurrentHead # r.head

Judge(v) ==
  /\ At(v, "threads")
  /\ \/ Outdated(review[v]) /\ Goes(v, Idle)
     \/ ~Outdated(review[v]) /\ Judges(v)
  /\ UNCHANGED <<code, rows, threads, published, counts>>

-----------------------------------------------------------------------------
(***************************************************************************)
(* persistReviewGateLedger: one transaction per finding, then the rows are *)
(* listed again. Refused once, the rest is not written and the review is   *)
(* discarded.                                                              *)
(***************************************************************************)
SameHead(row, other) == row.evaluated = other.evaluated   \* mutant
SameSnapshot(row, other) == row.evaluated = other.evaluated /\ row.context = other.context

(* The row is as the review read it, or has been written by its twin.      *)
AcceptsAny(row, expected, finding) == TRUE   \* mutant
Accepts(row, expected, finding) ==
  \/ row.state = "absent"
  \/ SameSnapshot(row, expected)
  \/ SameSnapshot(row, finding) /\ row.state = finding.state

(* COALESCE of the thread the review knows and the one in the row.         *)
Stored(finding, row) == [finding EXCEPT !.thread = IF @ # 0 THEN @ ELSE row.thread]

Todo(r) == {f \in Findings : f >= r.todo /\ r.next[f].state # "absent"}
FirstOf(S) == CHOOSE f \in S : \A g \in S : f <= g

Upsert(v) ==
  /\ At(v, "upsert") /\ Todo(review[v]) # {}
  /\ LET r == review[v]
         f == FirstOf(Todo(r))
     IN IF Accepts(rows[f], r.read[f], r.next[f])
        THEN /\ rows' = [rows EXCEPT ![f] = Stored(r.next[f], @)]
             /\ Goes(v, [r EXCEPT !.todo = f + 1])
        ELSE Goes(v, Idle) /\ UNCHANGED rows
  /\ UNCHANGED <<code, threads, published, counts>>

StillCurrent(r) ==
  \A f \in Findings : r.next[f].state # "absent" =>
    /\ rows[f].state = r.next[f].state /\ rows[f].quote = r.next[f].quote
    /\ SameSnapshot(rows[f], r.next[f])

Relist(v) ==
  /\ At(v, "upsert") /\ Todo(review[v]) = {}
  /\ LET ready == [review[v] EXCEPT !.at = IF review[v].closing = {} THEN "publish" ELSE "settle",
                                    !.read = NoRows, !.todo = 0,
                                    !.next = IF review[v].post = {} THEN NoRows ELSE @]
     IN Goes(v, IF StillCurrent(review[v]) /\ (ready.at = "settle" \/ ~Outdated(review[v]))
                THEN ready ELSE Idle)
  /\ UNCHANGED <<code, rows, threads, published, counts>>

(* The threads of findings just resolved are closed; any call may fail.    *)
SettleThreads(v) ==
  /\ At(v, "settle")
  /\ \E closed \in SUBSET review[v].closing :
       threads' = [t \in DOMAIN threads |->
                     IF t \in closed /\ threads[t].resolvedBy = "nobody"
                     THEN [threads[t] EXCEPT !.resolvedBy = "bot"] ELSE threads[t]]
  /\ Goes(v, IF Outdated(review[v]) THEN Idle
             ELSE [review[v] EXCEPT !.at = "publish", !.closing = {}])
  /\ UNCHANGED <<code, rows, published, counts>>

-----------------------------------------------------------------------------
(***************************************************************************)
(* Publication. A failing review requests changes, with a new thread for   *)
(* each fatal finding that is new, changed or reopened (none if GitHub     *)
(* refuses inline comments), and then stores the threads' ids.             *)
(***************************************************************************)
NewThread(f) == [finding |-> f, refuted |-> FALSE, resolvedBy |-> "nobody"]

(* threads' has a new thread for each finding of S, in some order.         *)
OpensThreads(S) ==
  /\ Len(threads) + Cardinality(S) <= MaxThreads
  /\ \E order \in [1..Cardinality(S) -> S] :
       /\ \A f \in S : \E i \in DOMAIN order : order[i] = f
       /\ threads' = threads \o [i \in DOMAIN order |-> NewThread(order[i])]

RequestChanges(v) ==
  /\ At(v, "publish") /\ review[v].verdict = "FAIL"
  /\ published' = published \cup review[v].confirmed
  /\ IF review[v].post # {}
     THEN /\ OpensThreads(review[v].post \cap Fatal) \/ UNCHANGED threads
          /\ Goes(v, [Idle EXCEPT !.at = "refresh", !.next = review[v].next])
     ELSE Goes(v, Idle) /\ UNCHANGED threads
  /\ UNCHANGED <<code, rows, counts>>

(* An approval, or the recheck that leads to one, or a request to follow up.*)
Conclude(v) ==
  /\ At(v, "publish") /\ review[v].verdict # "FAIL"
  /\ Goes(v, Idle)
  /\ UNCHANGED <<code, rows, threads, published, counts>>

(* refreshPublishedReviewGateThreads: of several threads the last counts.  *)
LastThread(f) == CHOOSE t \in ThreadsOf(f) : \A u \in ThreadsOf(f) : u <= t
RefreshThreads(v) ==
  /\ At(v, "refresh")
  /\ Goes(v, IF threads = <<>> THEN Idle
             ELSE [review[v] EXCEPT !.at = "attach",
                     !.next = [f \in Findings |-> IF ThreadsOf(f) = {} THEN AbsentRow
                                ELSE [@[f] EXCEPT !.thread = LastThread(f)]]])
  /\ UNCHANGED <<code, rows, threads, published, counts>>

(* Each finding with a thread is written once more, if no other evaluation *)
(* has come since; a refusal is not looked at.                             *)
AttachThread(v) ==
  /\ At(v, "attach")
  /\ LET r == review[v] IN
     IF Todo(r) = {} THEN Goes(v, Idle) /\ UNCHANGED rows
     ELSE LET f == FirstOf(Todo(r)) IN
          /\ Goes(v, [r EXCEPT !.todo = f + 1])
          /\ rows' = IF Accepts(rows[f], r.next[f], r.next[f])
                     THEN [rows EXCEPT ![f] = r.next[f]] ELSE rows
  /\ UNCHANGED <<code, threads, published, counts>>

(* A crash, a SIGTERM, a call that throws, an answer of the model that     *)
(* cannot be validated: the review stops where it is.                      *)
Stops(v) ==
  /\ ~At(v, "idle")
  /\ Goes(v, Idle)
  /\ counts.incidents < MaxIncidents
  /\ counts' = [counts EXCEPT !.incidents = @ + 1]
  /\ UNCHANGED <<code, rows, threads, published>>

-----------------------------------------------------------------------------
Step(v) ==
  \/ Start(v) \/ Judge(v)
  \/ Upsert(v) \/ Relist(v) \/ SettleThreads(v)
  \/ RequestChanges(v) \/ Conclude(v)
  \/ RefreshThreads(v) \/ AttachThread(v) \/ Stops(v)

AtRest == Running = {} /\ UNCHANGED vars

Next ==
  \/ \E v \in Reviewers : Step(v)
  \/ Push \/ MaintainerAnswers \/ AtRest

Spec == Init /\ [][Next]_vars

-----------------------------------------------------------------------------
ThreadRecord == [finding : Fatal, refuted : BOOLEAN,
                 resolvedBy : {"nobody", "bot", "human"}]
TypeOK ==
  /\ code \in Seq([Findings -> Quotes]) /\ CurrentHead \in Heads
  /\ rows \in [Findings -> Row]
  /\ threads \in Seq(ThreadRecord) /\ Len(threads) <= MaxThreads
  /\ published \subseteq Findings
  /\ review \in [Reviewers -> Review]
  /\ counts \in [reviews : Nat, answers : Nat, incidents : Nat]

(* The evidence of a row is in the files of a HEAD.                        *)
Supported(h, row, f) ==
  IF f \in MissingTests THEN code[h][f] # 0 ELSE code[h][f] = row.quote

(* What a review takes the row of f to be when it writes: the one it read, *)
(* or the one it wrote and now gives a thread. The compare-and-swap tells  *)
(* rows apart by HEAD and context alone. Two reviews of one HEAD that read *)
(* the same ledger may evaluate f differently, so what is overwritten can  *)
(* be the twin of the row the review knows: nothing is claimed of that.    *)
KnownRow(r, f) == IF r.at = "attach" THEN r.next[f] ELSE r.read[f]
IsTwin(row, other) ==
  /\ row.evaluated = other.evaluated /\ row.context = other.context
  /\ \/ row.state # other.state \/ row.quote # other.quote
     \/ row.refutedAt # other.refutedAt
OverwritesTwin(f) ==
  \E v \in Reviewers :
    review'[v] # review[v] /\ IsTwin(rows[f], KnownRow(review[v], f))

(* An open finding is closed for a cause only: its evidence is gone from   *)
(* the HEAD it was evaluated at, or a maintainer dismissed it in a thread. *)
(* That the model no longer mentions it is none, nor that a file was not   *)
(* loaded, nor that an older review writes late.                           *)
OpenEndsForCause ==
  [][\A f \in Findings :
       (rows[f].state = "open" /\ rows'[f].state # "open" /\ ~OverwritesTwin(f)) =>
         \/ rows'[f].state = "resolved" /\ ~Supported(rows'[f].evaluated, rows[f], f)
         \/ rows'[f].state = "refuted" /\ \E t \in ThreadsOf(f) :
              threads[t].refuted \/ threads[t].resolvedBy = "human"]_vars

(* What a maintainer dismissed stays dismissed until a later HEAD brings   *)
(* the lines back: neither a review that read the row before, nor a thread *)
(* id that is attached late opens it again, twins aside.                   *)
RefutedStaysRefuted ==
  [][\A f \in Findings :
       (rows[f].state = "refuted" /\ rows'[f].state # "refuted" /\ ~OverwritesTwin(f)) =>
         /\ rows'[f].state = "open" /\ rows'[f].evaluated > rows[f].refutedAt
         /\ code[rows'[f].evaluated][f] # code[rows[f].refutedAt][f]]_vars

(* No review of an older HEAD overwrites the evaluation of a newer one.    *)
EvaluationsAdvance ==
  [][\A f \in Findings : rows'[f].evaluated >= rows[f].evaluated]_vars

(* A review that no other ran beside approves only if the ledger has no    *)
(* open finding, whatever mixture refused and stopped reviews have left.   *)
ApprovalMeetsNoOpenFinding ==
  \A v \in Reviewers :
    (At(v, "publish") /\ review[v].verdict = "PASS" /\ review[v].alone) => Open(rows) = {}

=============================================================================
