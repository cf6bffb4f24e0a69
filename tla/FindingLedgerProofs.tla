------------------------ MODULE FindingLedgerProofs ------------------------
(***************************************************************************)
(* Theorems about FindingLedger, for any findings, reviewers, HEADs,       *)
(* quotes, threads and reviews: what a review decides, type correctness,   *)
(* that the evaluation of a finding never goes back to an older HEAD, that *)
(* a review no other ran beside approves over no open finding, and that an *)
(* open finding ends, and one a maintainer refuted returns, for a cause.   *)
(***************************************************************************)
EXTENDS FindingLedger, FiniteSetTheorems, SequenceTheorems, WellFoundedInduction, TLAPS

USE LedgerBounds, LedgerFindings

-----------------------------------------------------------------------------
(* A finding to be written is one of the findings: the first of some       *)
(* numbers exists.                                                         *)
LEMMA LeastOfNumbers ==
  ASSUME NEW R, \A m, n \in Nat : m < n => <<m, n>> \in R,
         NEW S \in SUBSET Nat, \E x \in S : \A y \in S : ~ (<<y, x>> \in R)
  PROVE  \E x \in S : \A y \in S : x <= y
<1>1. PICK x \in S : \A y \in S : ~ (<<y, x>> \in R)
  OBVIOUS
<1>2. ASSUME NEW y \in S PROVE x <= y
  <2>1. x \in Nat /\ y \in Nat /\ ~ (y < x)
    BY <1>1
  <2> QED BY <2>1
<1> QED BY <1>2

(* Any numbers have a smallest.                                            *)
LEMMA SmallestExists ==
  ASSUME NEW S \in SUBSET Nat, S # {}
  PROVE  \E x \in S : \A y \in S : x <= y
<1>1. \E f \in S : \A g \in S : ~ (<<g, f>> \in OpToRel(<, Nat))
  BY NatLessThanWellFounded, WFMin
<1>2. ASSUME NEW g \in Nat, NEW f \in Nat, g < f
      PROVE  <<g, f>> \in OpToRel(<, Nat)
  <2>1. <<g, f>> \in Nat \X Nat /\ <<g, f>>[1] = g /\ <<g, f>>[2] = f
    OBVIOUS
  <2> QED BY <2>1, <1>2 DEF OpToRel
<1> QED
  BY <1>1, <1>2, LeastOfNumbers, Zenon

(* FirstOf is one of the findings it is given.                             *)
LEMMA FirstOfIsIn ==
  ASSUME NEW S \in SUBSET Findings, S # {}
  PROVE  FirstOf(S) \in S
<1>1. S \in SUBSET Nat
  OBVIOUS
<1> QED
  BY <1>1, SmallestExists DEF FirstOf

(* A finding that is due is one of the findings, and not absent.           *)
LEMMA TodoIsWritten ==
  ASSUME NEW r, Todo(r) # {}
  PROVE  FirstOf(Todo(r)) \in Findings /\ r.next[FirstOf(Todo(r))].state # "absent"
<1>1. Todo(r) \in SUBSET Findings  BY DEF Todo
<1>2. FirstOf(Todo(r)) \in Todo(r)  BY <1>1, FirstOfIsIn
<1> QED BY <1>2 DEF Todo

-----------------------------------------------------------------------------
(* What the fields of a finding may be, and that every change the ledger   *)
(* makes to a finding gives a finding.                                     *)
LEMMA SmallValues == {0, 1} \subseteq Quotes /\ 0 \in 0..MaxThreads /\ 1 \in Heads
BY DEF Quotes, Heads

(* A finding never raised is a finding.                                    *)
LEMMA AbsentIsRow == AbsentRow \in Row /\ NoRows \in [Findings -> Row]
<1>1. AbsentRow \in Row  BY SmallValues DEF AbsentRow, Row
<1> QED BY <1>1 DEF NoRows

(* A dismissed finding, or one that gets a thread, is a finding.           *)
LEMMA DismissedRow ==
  ASSUME NEW row \in Row, NEW t \in 0..MaxThreads, NEW h \in Heads \cup {0}
  PROVE  /\ [row EXCEPT !.thread = t] \in Row
         /\ [row EXCEPT !.state = "refuted", !.refutedAt = h] \in Row
BY DEF Row

(* An evaluated finding, resolved or not, is one of the HEAD it was        *)
(* evaluated at.                                                           *)
LEMMA EvaluatedRow ==
  ASSUME NEW row \in Row, NEW id, id.head \in Heads, id.context \in Context
  PROVE  /\ EvaluatedAt(row, id) \in Row
         /\ EvaluatedAt(row, id).evaluated = id.head
         /\ EvaluatedAt(row, id).state = row.state
         /\ [EvaluatedAt(row, id) EXCEPT !.state = "resolved"] \in Row
         /\ [EvaluatedAt(row, id) EXCEPT !.state = "resolved"].evaluated = id.head
         /\ [EvaluatedAt(row, id) EXCEPT !.state = "resolved"].state = "resolved"
<1>1. /\ EvaluatedAt(row, id) \in Row
      /\ EvaluatedAt(row, id).evaluated = id.head
      /\ EvaluatedAt(row, id).state = row.state
  BY DEF EvaluatedAt, Row
<1> QED BY <1>1 DEF Row

(* So is a reopened finding.                                               *)
LEMMA ReopenedRow ==
  ASSUME NEW row \in Row, NEW f, NEW id, id.head \in Heads, id.context \in Context,
         QuoteAt(id.head, f) \in Quotes
  PROVE  /\ Reopened(row, f, id) \in Row
         /\ Reopened(row, f, id).evaluated = id.head
         /\ Reopened(row, f, id).state = "open"
<1> DEFINE e == EvaluatedAt(row, id)
           q == QuoteAt(id.head, f)
<1>1. e \in Row /\ e.evaluated = id.head /\ q \in Quotes
  BY EvaluatedRow
<1>2. Reopened(row, f, id) = [e EXCEPT !.state = "open", !.quote = q, !.seen = id.head,
                                       !.refutedAt = 0]
  BY DEF Reopened
<1> HIDE DEF e, q
<1> QED BY <1>1, <1>2 DEF Row

(* What contextHash covers is a context.                                   *)
LEMMA ContextType ==
  ASSUME NEW prior \in [Findings -> Row]
  PROVE  ContextOf(prior) \in Context
BY DEF ContextOf, Context, Digest, Row

-----------------------------------------------------------------------------
(* A thread of a finding is one of the threads.                            *)
LEMMA ThreadsAreNumbers ==
  ASSUME TypeOK, NEW f
  PROVE  ThreadsOf(f) \subseteq 1..MaxThreads
<1>1. Len(threads) \in Nat /\ Len(threads) <= MaxThreads /\ DOMAIN threads = 1..Len(threads)
  BY DEF TypeOK
<1> QED BY <1>1 DEF ThreadsOf

(* The thread in which a dismissal is looked for is a thread, or none.     *)
LEMMA FirstThreadType ==
  ASSUME TypeOK, NEW f
  PROVE  FirstThread(f) \in 0..MaxThreads
<1>1. CASE ThreadsOf(f) = {}
  BY <1>1 DEF FirstThread
<1>2. CASE ThreadsOf(f) # {}
  <2>1. ThreadsOf(f) \in SUBSET Nat
    BY ThreadsAreNumbers
  <2>2. \E t \in ThreadsOf(f) : \A u \in ThreadsOf(f) : t <= u
    BY <1>2, <2>1, SmallestExists
  <2>3. FirstThread(f) \in ThreadsOf(f)
    BY <1>2, <2>2 DEF FirstThread
  <2> QED BY <2>3, ThreadsAreNumbers
<1> QED BY <1>1, <1>2

(* The thread whose id is attached is a thread.                            *)
LEMMA LastThreadType ==
  ASSUME TypeOK, NEW f, ThreadsOf(f) # {}
  PROVE  LastThread(f) \in 0..MaxThreads
<1> DEFINE Distances == {MaxThreads - t : t \in ThreadsOf(f)}
<1>1. ThreadsOf(f) \subseteq 1..MaxThreads
  BY ThreadsAreNumbers
<1>2. Distances \in SUBSET Nat /\ Distances # {}
  BY <1>1
<1>3. PICK d \in Distances : \A e \in Distances : d <= e
  BY <1>2, SmallestExists
<1>4. PICK t \in ThreadsOf(f) : d = MaxThreads - t
  OBVIOUS
<1>5. ASSUME NEW u \in ThreadsOf(f) PROVE u <= t
  <2>1. MaxThreads - u \in Distances /\ u \in Nat /\ t \in Nat
    BY <1>1
  <2> HIDE DEF Distances
  <2> QED BY <1>3, <1>4, <2>1
<1>6. LastThread(f) \in ThreadsOf(f)
  BY <1>5 DEF LastThread
<1> QED BY <1>1, <1>6

-----------------------------------------------------------------------------
(* Dismissals give a ledger and keep what was evaluated; no finding        *)
(* becomes absent.                                                         *)
LEMMA PriorIsLedger ==
  ASSUME TypeOK, NEW r \in Review, NEW sees \in BOOLEAN
  PROVE  /\ Prior(r, sees) \in [Findings -> Row]
         /\ \A f \in Findings :
              /\ Prior(r, sees)[f].state \in {"refuted", r.read[f].state}
              /\ Prior(r, sees)[f].evaluated = r.read[f].evaluated
<1>1. ASSUME NEW f \in Findings
      PROVE  /\ Prior(r, sees)[f] \in Row
             /\ Prior(r, sees)[f].state \in {"refuted", r.read[f].state}
             /\ Prior(r, sees)[f].evaluated = r.read[f].evaluated
  <2> DEFINE row == [r.read[f] EXCEPT !.thread = IF sees /\ FirstThread(f) # 0
                                                THEN FirstThread(f) ELSE @]
  <2>1. r.read[f] \in Row /\ r.head \in Heads \cup {0}
    BY DEF Review
  <2>2. row \in Row /\ row.state = r.read[f].state /\ row.evaluated = r.read[f].evaluated
    BY <2>1, FirstThreadType DEF Row
  <2>3. Prior(r, sees)[f] = IF sees /\ Dismissed(r, f)
                            THEN [row EXCEPT !.state = "refuted", !.refutedAt = r.head] ELSE row
    BY DEF Prior
  <2> HIDE DEF row
  <2>4. LET dismissed == [row EXCEPT !.state = "refuted", !.refutedAt = r.head] IN
        /\ dismissed \in Row
        /\ dismissed.state = "refuted" /\ dismissed.evaluated = row.evaluated
    BY <2>1, <2>2 DEF Row
  <2> QED BY <2>2, <2>3, <2>4
<1>2. Prior(r, sees) = [f \in Findings |-> Prior(r, sees)[f]]
  BY DEF Prior
<1> QED BY <1>1, <1>2

(* Reconciliation gives a ledger, and evaluates whatever is not absent.    *)
LEMMA ReconciledIsLedger ==
  ASSUME NEW prior \in [Findings -> Row], NEW candidates, NEW regressed, NEW absent,
         NEW id, id.head \in Heads, id.context \in Context,
         \A f \in Findings : QuoteAt(id.head, f) \in Quotes,
         NEW next, next = Reconciled(prior, candidates, regressed, absent, id)
  PROVE  /\ next \in [Findings -> Row]
         /\ \A f \in Findings : next[f].state # "absent" => next[f].evaluated = id.head
         /\ \A f \in Findings : next[f].state = "absent" => next[f] = prior[f]
<1>1. ASSUME NEW f \in Findings
      PROVE  /\ next[f] \in Row
             /\ next[f].state # "absent" => next[f].evaluated = id.head
             /\ next[f].state = "absent" => next[f] = prior[f]
  <2>1. prior[f] \in Row
    OBVIOUS
  <2>2. \/ next[f] = EvaluatedAt(prior[f], id) /\ prior[f].state # "absent"
        \/ next[f] = Reopened(prior[f], f, id)
        \/ next[f] = prior[f] /\ prior[f].state = "absent"
        \/ next[f] = [EvaluatedAt(prior[f], id) EXCEPT !.state = "resolved"]
    BY DEF Reconciled
  <2>3. CASE next[f] = Reopened(prior[f], f, id)
    <3>1. QuoteAt(id.head, f) \in Quotes
      OBVIOUS
    <3> QED BY <2>1, <2>3, <3>1, ReopenedRow
  <2>4. CASE next[f] = [EvaluatedAt(prior[f], id) EXCEPT !.state = "resolved"]
    BY <2>1, <2>4, EvaluatedRow
  <2> QED BY <2>1, <2>2, <2>3, <2>4, EvaluatedRow
<1>2. next = [f \in Findings |-> next[f]]
  BY DEF Reconciled
<1>3. next \in [Findings -> Row]
  BY <1>1, <1>2
<1> QED BY <1>1, <1>3

-----------------------------------------------------------------------------
(* An idle handler is typed.                                               *)
LEMMA IdleIsReview == Idle \in Review
BY AbsentIsRow DEF Idle, Review

(* A step of v changes the review of v and no other.                       *)
LEMMA GoesToReview ==
  ASSUME TypeOK, NEW v \in Reviewers, NEW r \in Review, Goes(v, r)
  PROVE  /\ review' \in [Reviewers -> Review]
         /\ review'[v] = r
         /\ \A u \in Reviewers \ {v} : review'[u] = review[u]
BY DEF TypeOK, Goes

(* A review that is not outdated is of a HEAD that exists.                 *)
LEMMA HeadOfReview ==
  ASSUME TypeOK, NEW v \in Reviewers
  PROVE  /\ review[v] \in Review
         /\ ~Outdated(review[v]) => review[v].head \in Heads /\ review[v].head = CurrentHead
BY DEF TypeOK, Outdated

(* What a review has decided when it starts to write.                      *)
Decided(old, r) ==
  /\ r \in Review
  /\ r.at = "upsert" /\ r.head = old.head /\ r.read = old.read /\ r.todo = old.todo
  /\ r.alone => old.alone /\ r.verdict = "PASS"
  /\ r.verdict = "PASS" => Open(r.next) = {}
  /\ \A f \in Findings : r.next[f].state # "absent" => r.next[f].evaluated = r.head
  /\ \A f \in Findings : r.next[f].state = "absent" =>
       r.read[f].state = "absent" /\ r.next[f].evaluated = r.read[f].evaluated

(* Whatever the gate finds, the review goes on with such a decision.       *)
LEMMA JudgedIsDecided ==
  ASSUME TypeOK, NEW v \in Reviewers, ~Outdated(review[v]), Judges(v)
  PROVE  \E r : Goes(v, r) /\ Decided(review[v], r)
<1> DEFINE old == review[v]
           head == review[v].head
<1>1. old \in Review /\ head \in Heads /\ head = CurrentHead
  BY HeadOfReview
<1> DEFINE Ledger(p, c, g, a) ==
             Reconciled(p, c, g, a, [head |-> head, context |-> ContextOf(p)])
           Chosen(p, k, c, g, a, w) == Goes(v, Judged(old, p, Ledger(p, c, g, a), c, w, k))
<1>2. PICK seesThreads \in BOOLEAN :
        \E known, candidates, regressed, absent, reworded :
          Chosen(Prior(old, seesThreads), known, candidates, regressed, absent, reworded)
  BY DEF Judges
<1>3. PICK known, candidates, regressed, absent, reworded :
        Chosen(Prior(old, seesThreads), known, candidates, regressed, absent, reworded)
  BY <1>2
<1> DEFINE prior == Prior(old, seesThreads)
           id == [head |-> head, context |-> ContextOf(prior)]
           ledger == Reconciled(prior, candidates, regressed, absent, id)
           confirmed == Open(ledger) \cap candidates
           verdict == VerdictOf(Open(ledger), candidates)
           closing == ThreadsToClose(prior, ledger)
           post == Publishable(prior, ledger, confirmed, reworded, known)
           new == Judged(old, prior, ledger, candidates, reworded, known)
<1>4. /\ prior \in [Findings -> Row]
      /\ \A f \in Findings : /\ prior[f].state \in {"refuted", old.read[f].state}
                            /\ prior[f].evaluated = old.read[f].evaluated
  BY <1>1, PriorIsLedger
<1>5. ContextOf(prior) \in Context
  BY <1>4, ContextType
<1>6. \A f \in Findings : QuoteAt(head, f) \in Quotes
  <2>1. \A f \in Findings : code[head][f] \in Quotes
    BY <1>1 DEF TypeOK, CurrentHead, Heads
  <2> QED BY <2>1, SmallValues DEF QuoteAt
<1>7. id.head = head /\ id.context = ContextOf(prior)
  OBVIOUS
<1>8. /\ ledger \in [Findings -> Row]
      /\ \A f \in Findings : ledger[f].state # "absent" => ledger[f].evaluated = head
      /\ \A f \in Findings : ledger[f].state = "absent" => ledger[f] = prior[f]
  <2>1. ledger = Reconciled(prior, candidates, regressed, absent, id)
    OBVIOUS
  <2> HIDE DEF prior, id, head, ledger
  <2>2. id.head \in Heads /\ id.context \in Context /\ \A f \in Findings : QuoteAt(id.head, f) \in Quotes
    BY <1>1, <1>5, <1>6, <1>7
  <2> QED BY <1>4, <1>7, <2>1, <2>2, ReconciledIsLedger
<1> HIDE DEF ledger, prior, id
<1>9. closing \subseteq 1..MaxThreads
  <2>1. \A f \in Findings : ledger[f].thread \in 0..MaxThreads
    BY <1>8 DEF Row
  <2> QED BY <2>1 DEF ThreadsToClose
<1>10. confirmed \subseteq Findings /\ post \subseteq Findings
  BY DEF Open, Publishable
<1>11. verdict \in {"PASS", "FAIL", "FOLLOW_UP"} /\ (verdict = "PASS" => Open(ledger) = {})
  BY DEF VerdictOf
<1> HIDE DEF closing, post, confirmed, verdict
<1>12. new = [old EXCEPT
          !.at = "upsert", !.alone = @ /\ verdict = "PASS", !.next = ledger,
          !.confirmed = confirmed, !.verdict = verdict, !.closing = closing, !.post = post]
  BY DEF Judged, closing, post, confirmed, verdict
<1> HIDE DEF new
<1>13. new \in Review
  BY <1>1, <1>8, <1>9, <1>10, <1>11, <1>12 DEF Review
<1>14. Goes(v, new)
  BY <1>3 DEF new, prior, id, ledger
<1>15. /\ new.at = "upsert" /\ new.head = old.head /\ new.read = old.read /\ new.todo = old.todo
       /\ new.alone = (old.alone /\ verdict = "PASS") /\ new.verdict = verdict /\ new.next = ledger
  BY <1>1, <1>12 DEF Review
<1>16. head = old.head
  OBVIOUS
<1> HIDE DEF old, head
<1>17. Decided(old, new)
  <2>1. \A f \in Findings : ledger[f].state = "absent" =>
          old.read[f].state = "absent" /\ ledger[f].evaluated = old.read[f].evaluated
    BY <1>4, <1>8
  <2>2. new.alone => old.alone /\ new.verdict = "PASS"
    BY <1>15, Zenon
  <2> QED BY <1>8, <1>11, <1>13, <1>15, <1>16, <2>1, <2>2 DEF Decided
<1> QED BY <1>14, <1>17 DEF old

-----------------------------------------------------------------------------
(***************************************************************************)
(* Type correctness, step by step.                                         *)
(***************************************************************************)
Counts == [reviews : Nat, answers : Nat, incidents : Nat]

(* The counters remain numbers.                                            *)
LEMMA Counting ==
  ASSUME TypeOK
  PROVE  /\ \A i \in Nat : [counts EXCEPT !.reviews = @ + 1, !.incidents = i] \in Counts
         /\ [counts EXCEPT !.answers = @ + 1] \in Counts
         /\ [counts EXCEPT !.incidents = @ + 1] \in Counts
         /\ counts \in Counts /\ counts.incidents \in Nat
<1>1. counts \in Counts
  BY DEF TypeOK, Counts
<1>2. counts.reviews \in Nat /\ counts.answers \in Nat /\ counts.incidents \in Nat
  BY <1>1 DEF Counts
<1>3. ASSUME NEW m \in Nat, NEW n \in Nat
      PROVE  /\ [counts EXCEPT !.reviews = m, !.incidents = n] \in Counts
             /\ [counts EXCEPT !.answers = m] \in Counts
             /\ [counts EXCEPT !.incidents = n] \in Counts
  BY <1>1 DEF Counts
<1>4. counts.reviews + 1 \in Nat /\ counts.answers + 1 \in Nat /\ counts.incidents + 1 \in Nat
  BY <1>2
<1> QED BY <1>1, <1>2, <1>3, <1>4

(* A step of one review that writes no row keeps the types.                *)
LEMMA ReviewGoesType ==
  ASSUME TypeOK, NEW v \in Reviewers, NEW r \in Review, Goes(v, r),
         UNCHANGED <<code, rows, published>>, counts' \in Counts,
         threads' \in Seq(ThreadRecord), Len(threads') <= MaxThreads
  PROVE  TypeOK'
<1>1. review' \in [Reviewers -> Review]
  BY GoesToReview
<1> QED BY <1>1 DEF TypeOK, CurrentHead, Counts

(* Starting a review keeps the types.                                      *)
LEMMA StartType == ASSUME TypeOK, NEW v \in Reviewers, Start(v) PROVE TypeOK'
<1> DEFINE r == [Idle EXCEPT !.at = "threads", !.alone = Running = {},
                             !.head = CurrentHead, !.read = rows]
<1>1. r \in Review
  BY IdleIsReview DEF Review, TypeOK
<1>2. \A u \in Reviewers : [review[u] EXCEPT !.alone = FALSE] \in Review
  <2>1. \A x \in Review : [x EXCEPT !.alone = FALSE] \in Review
    BY DEF Review
  <2> QED BY <2>1 DEF TypeOK
<1>3. review' = [u \in Reviewers |-> IF u = v THEN r ELSE [review[u] EXCEPT !.alone = FALSE]]
  BY DEF Start
<1>4. counts' \in Counts
  <2>1. counts' = [counts EXCEPT !.reviews = @ + 1,
                     !.incidents = IF Running = {} THEN counts.incidents ELSE counts.incidents + 1]
    BY DEF Start
  <2>2. counts.incidents \in Nat /\ counts.incidents + 1 \in Nat
    <3>1. counts.incidents \in Nat
      BY Counting
    <3> QED BY <3>1
  <2>3. CASE Running = {}
    BY <2>1, <2>2, <2>3, Counting
  <2>4. CASE Running # {}
    BY <2>1, <2>2, <2>4, Counting
  <2> QED BY <2>3, <2>4
<1> HIDE DEF r
<1>5. review' \in [Reviewers -> Review]
  BY <1>1, <1>2, <1>3
<1> QED BY <1>4, <1>5 DEF Start, TypeOK, CurrentHead, Counts

(* So does the gate with the reconciliation,                               *)
LEMMA JudgeType == ASSUME TypeOK, NEW v \in Reviewers, Judge(v) PROVE TypeOK'
<1>1. PICK r \in Review : Goes(v, r)
  BY IdleIsReview, JudgedIsDecided DEF Judge, Decided
<1> QED BY <1>1, ReviewGoesType, Counting DEF Judge, TypeOK

(* a transaction of a finding,                                             *)
LEMMA UpsertType == ASSUME TypeOK, NEW v \in Reviewers, Upsert(v) PROVE TypeOK'
<1> DEFINE r == review[v]
           f == FirstOf(Todo(r))
<1>1. r \in Review /\ f \in Findings /\ f \in Nat
  BY HeadOfReview, TodoIsWritten DEF Upsert
<1>2. Idle \in Review /\ [r EXCEPT !.todo = f + 1] \in Review
  BY <1>1, IdleIsReview DEF Review
<1>3. Stored(r.next[f], rows[f]) \in Row
  <2>1. r.next[f] \in Row /\ rows[f] \in Row
    BY <1>1 DEF Review, TypeOK
  <2> QED BY <2>1 DEF Stored, Row
<1>4. review' \in [Reviewers -> Review]
  BY <1>2, GoesToReview DEF Upsert
<1>5. rows' = [rows EXCEPT ![f] = Stored(r.next[f], rows[f])] \/ rows' = rows
  BY DEF Upsert
<1> HIDE DEF f, r
<1>6. rows' \in [Findings -> Row]
  BY <1>1, <1>3, <1>5 DEF TypeOK
<1> QED BY <1>4, <1>6 DEF Upsert, TypeOK, CurrentHead

(* the second listing,                                                     *)
LEMMA RelistType == ASSUME TypeOK, NEW v \in Reviewers, Relist(v) PROVE TypeOK'
<1> DEFINE r == review[v]
           at == IF r.closing = {} THEN "publish" ELSE "settle"
           next == IF r.post = {} THEN NoRows ELSE r.next
           new == [r EXCEPT !.at = at, !.read = NoRows, !.todo = 0, !.next = next]
<1>1. r \in Review /\ at \in {"publish", "settle"} /\ NoRows \in [Findings -> Row]
  BY HeadOfReview, AbsentIsRow
<1>2. next \in [Findings -> Row]
  BY <1>1 DEF Review
<1>3. Goes(v, new) \/ Goes(v, Idle)
  BY DEF Relist
<1> HIDE DEF r, at, next
<1>4. new \in Review
  BY <1>1, <1>2 DEF Review
<1> QED BY <1>3, <1>4, IdleIsReview, ReviewGoesType, Counting DEF Relist, TypeOK

(* the closing of threads,                                                 *)
LEMMA SettleThreadsType == ASSUME TypeOK, NEW v \in Reviewers, SettleThreads(v) PROVE TypeOK'
<1>1. [review[v] EXCEPT !.at = "publish", !.closing = {}] \in Review
  BY ZenonT(30), HeadOfReview DEF Review
<1>2. threads' \in Seq(ThreadRecord) /\ Len(threads') <= MaxThreads
  <2>1. PICK closed : threads' = [t \in DOMAIN threads |->
                     IF t \in closed /\ threads[t].resolvedBy = "nobody"
                     THEN [threads[t] EXCEPT !.resolvedBy = "bot"] ELSE threads[t]]
    BY DEF SettleThreads
  <2>2. \A x \in ThreadRecord : [x EXCEPT !.resolvedBy = "bot"] \in ThreadRecord
    BY DEF ThreadRecord
  <2>3. /\ Len(threads) \in Nat /\ Len(threads) <= MaxThreads /\ DOMAIN threads = 1..Len(threads)
        /\ \A t \in 1..Len(threads) : threads[t] \in ThreadRecord
    BY DEF TypeOK
  <2>4. \A t \in DOMAIN threads : threads'[t] \in ThreadRecord
    BY <2>1, <2>2, <2>3
  <2>5. threads' = [t \in 1..Len(threads) |-> threads'[t]]
    BY <2>1, <2>3
  <2> QED BY <2>3, <2>4, <2>5
<1> QED BY <1>1, <1>2, IdleIsReview, ReviewGoesType, Counting DEF SettleThreads, TypeOK

(* (what new threads are)                                                  *)
LEMMA OpensThreadsType ==
  ASSUME TypeOK, NEW S \in SUBSET Fatal, OpensThreads(S)
  PROVE  threads' \in Seq(ThreadRecord) /\ Len(threads') <= MaxThreads
<1>1. Cardinality(S) \in Nat
  <2>1. IsFiniteSet(S)
    BY FS_Subset DEF Fatal
  <2> QED BY <2>1, FS_CardinalityType
<1>2. PICK order \in [1..Cardinality(S) -> S] :
        threads' = threads \o [i \in DOMAIN order |-> NewThread(order[i])]
  BY DEF OpensThreads
<1> DEFINE n == Cardinality(S)
           new == [i \in 1..n |-> NewThread(order[i])]
<1>3. threads' = threads \o new /\ Len(threads) + n <= MaxThreads
  BY <1>2 DEF OpensThreads
<1>4. \A i \in 1..n : NewThread(order[i]) \in ThreadRecord
  BY DEF NewThread, ThreadRecord
<1> HIDE DEF n
<1>5. new \in Seq(ThreadRecord) /\ Len(new) = n
  BY <1>1, <1>4 DEF n
<1> HIDE DEF new
<1> QED BY <1>3, <1>5 DEF TypeOK

(* a request for changes,                                                  *)
LEMMA RequestChangesType == ASSUME TypeOK, NEW v \in Reviewers, RequestChanges(v) PROVE TypeOK'
<1>1. review[v] \in Review
  BY HeadOfReview
<1>2. [Idle EXCEPT !.at = "refresh", !.next = review[v].next] \in Review
  BY <1>1, IdleIsReview DEF Review
<1>3. review' \in [Reviewers -> Review]
  BY <1>2, IdleIsReview, GoesToReview DEF RequestChanges
<1>4. published' \subseteq Findings
  BY <1>1 DEF RequestChanges, TypeOK, Review
<1>5. threads' \in Seq(ThreadRecord) /\ Len(threads') <= MaxThreads
  <2>1. OpensThreads(review[v].post \cap Fatal) \/ UNCHANGED threads
    BY DEF RequestChanges
  <2> QED BY <2>1, OpensThreadsType DEF TypeOK
<1> QED BY <1>3, <1>4, <1>5 DEF RequestChanges, TypeOK, CurrentHead

(* any other conclusion,                                                   *)
LEMMA ConcludeType == ASSUME TypeOK, NEW v \in Reviewers, Conclude(v) PROVE TypeOK'
BY IdleIsReview, ReviewGoesType, Counting DEF Conclude, TypeOK

(* the listing of the new threads,                                         *)
LEMMA RefreshThreadsType == ASSUME TypeOK, NEW v \in Reviewers, RefreshThreads(v) PROVE TypeOK'
<1> DEFINE r == review[v]
           next == [f \in Findings |-> IF ThreadsOf(f) = {} THEN AbsentRow
                                       ELSE [r.next[f] EXCEPT !.thread = LastThread(f)]]
           new == [r EXCEPT !.at = "attach", !.next = next]
<1>1. r \in Review /\ AbsentRow \in Row
  BY HeadOfReview, AbsentIsRow
<1>2. ASSUME NEW f \in Findings, ThreadsOf(f) # {}
      PROVE  [r.next[f] EXCEPT !.thread = LastThread(f)] \in Row
  <2>1. r.next[f] \in Row /\ LastThread(f) \in 0..MaxThreads
    BY <1>1, <1>2, LastThreadType DEF Review
  <2> QED BY <2>1, DismissedRow, SmallValues
<1>3. next \in [Findings -> Row]
  BY <1>1, <1>2
<1>4. Goes(v, new) \/ Goes(v, Idle)
  BY DEF RefreshThreads
<1> HIDE DEF r, next
<1>5. new \in Review
  BY <1>1, <1>3 DEF Review
<1> QED BY <1>4, <1>5, IdleIsReview, ReviewGoesType, Counting DEF RefreshThreads, TypeOK

(* the attachment of a thread id,                                          *)
LEMMA AttachThreadType == ASSUME TypeOK, NEW v \in Reviewers, AttachThread(v) PROVE TypeOK'
<1> DEFINE r == review[v]
           f == FirstOf(Todo(r))
           new == [r EXCEPT !.todo = f + 1]
<1>1. r \in Review
  BY HeadOfReview
<1>2. CASE Todo(r) = {}
  BY <1>2, IdleIsReview, ReviewGoesType, Counting DEF AttachThread, TypeOK
<1>3. CASE Todo(r) # {}
  <2>1. f \in Findings /\ f \in Nat
    BY <1>3, TodoIsWritten
  <2>2. Goes(v, new) /\ (rows' = [rows EXCEPT ![f] = r.next[f]] \/ rows' = rows)
    BY <1>3 DEF AttachThread
  <2> HIDE DEF f, r
  <2>3. new \in Review
    BY <1>1, <2>1 DEF Review
  <2>4. review' \in [Reviewers -> Review]
    BY <2>2, <2>3, GoesToReview
  <2>5. rows' \in [Findings -> Row]
    BY ZenonT(30), <1>1, <2>1, <2>2 DEF TypeOK, Review
  <2> QED BY <2>4, <2>5 DEF AttachThread, TypeOK, CurrentHead
<1> QED BY <1>2, <1>3

(* a review that stops,                                                    *)
LEMMA StopsType == ASSUME TypeOK, NEW v \in Reviewers, Stops(v) PROVE TypeOK'
<1>1. counts' \in Counts
  BY Counting DEF Stops
<1> QED BY <1>1, IdleIsReview, ReviewGoesType, Counting DEF Stops, TypeOK

(* a push,                                                                 *)
LEMMA PushType == ASSUME TypeOK, Push PROVE TypeOK'
<1>1. PICK files \in Files : code' = Append(code, files)
  BY DEF Push
<1>2. files \in [Findings -> Quotes]
  BY DEF Files
<1>3. code' \in Seq([Findings -> Quotes]) /\ Len(code') = Len(code) + 1
  BY <1>1, <1>2 DEF TypeOK
<1> QED BY <1>3 DEF Push, TypeOK, CurrentHead, Heads

(* and an answer of a maintainer.                                          *)
LEMMA MaintainerAnswersType == ASSUME TypeOK, MaintainerAnswers PROVE TypeOK'
<1>1. PICK t \in DOMAIN threads : \/ threads' = [threads EXCEPT ![t].refuted = TRUE]
                                \/ threads' = [threads EXCEPT ![t].resolvedBy = "human"]
  BY DEF MaintainerAnswers
<1>2. /\ threads[t] \in ThreadRecord /\ t \in 1..Len(threads)
      /\ \A x \in ThreadRecord : /\ [x EXCEPT !.refuted = TRUE] \in ThreadRecord
                                /\ [x EXCEPT !.resolvedBy = "human"] \in ThreadRecord
  <2>1. threads[t] \in ThreadRecord /\ t \in 1..Len(threads)
    BY DEF TypeOK
  <2> QED BY <2>1 DEF ThreadRecord
<1>3. threads' \in Seq(ThreadRecord) /\ Len(threads') = Len(threads)
  <2>1. PICK x \in ThreadRecord : threads' = [threads EXCEPT ![t] = x]
    BY <1>1, <1>2
  <2>2. threads \in Seq(ThreadRecord)
    BY DEF TypeOK
  <2> QED BY <1>2, <2>1, <2>2, ExceptSeq
<1>4. counts' \in Counts
  BY Counting DEF MaintainerAnswers
<1> QED BY <1>3, <1>4 DEF MaintainerAnswers, TypeOK, CurrentHead, Counts

(* Hence every step does.                                                  *)
LEMMA StepTypes == ASSUME TypeOK, Next PROVE TypeOK'
<1>1. ASSUME NEW v \in Reviewers, Step(v) PROVE TypeOK'
  BY <1>1, StartType, JudgeType, UpsertType, RelistType, SettleThreadsType, RequestChangesType,
     ConcludeType, RefreshThreadsType, AttachThreadType, StopsType DEF Step
<1>2. CASE AtRest
  BY <1>2 DEF AtRest, vars, TypeOK, CurrentHead
<1> QED BY <1>1, <1>2, PushType, MaintainerAnswersType DEF Next

(* The initial state is typed.                                             *)
LEMMA InitTypes == Init => TypeOK
<1> SUFFICES ASSUME Init PROVE TypeOK
  OBVIOUS
<1>1. code \in Seq([Findings -> Quotes]) /\ CurrentHead = 1
  <2>1. [f \in Findings |-> 1] \in [Findings -> Quotes]
    BY SmallValues
  <2> QED BY <2>1 DEF Init, CurrentHead
<1>2. counts \in [reviews : Nat, answers : Nat, incidents : Nat]
  BY DEF Init
<1>3. review \in [Reviewers -> Review]
  BY IdleIsReview DEF Init
<1>4. threads \in Seq(ThreadRecord) /\ Len(threads) <= MaxThreads
  BY DEF Init
<1> QED BY <1>1, <1>2, <1>3, <1>4, AbsentIsRow, SmallValues DEF Init, TypeOK

(* Every reachable state is typed: what reconciliation, the transactions   *)
(* and the listing of threads compute is a finding, a review, a thread.    *)
THEOREM LedgerTypes == Spec => []TypeOK
<1>1. TypeOK /\ UNCHANGED vars => TypeOK'
  BY DEF vars, TypeOK, CurrentHead
<1>2. TypeOK /\ [Next]_vars => TypeOK'
  BY <1>1, StepTypes
<1> QED BY InitTypes, <1>2, PTL DEF Spec

-----------------------------------------------------------------------------
(***************************************************************************)
(* Evaluations never go back. The rows and what reviews hold have been     *)
(* evaluated at HEADs that were pushed; what a review read is not newer    *)
(* than its HEAD, and what it writes is of its HEAD.                       *)
(***************************************************************************)
RowsTimely ==
  \A f \in Findings : /\ rows[f].evaluated <= CurrentHead
                      /\ rows[f].state = "absent" => rows[f].evaluated = 0

Timely(r) ==
  /\ r.head <= CurrentHead
  /\ \A f \in Findings : r.next[f].evaluated <= CurrentHead
  /\ r.at \in {"threads", "upsert"} => \A f \in Findings : r.read[f].evaluated <= r.head
  /\ r.at = "upsert" =>
       \A f \in Findings : r.next[f].state # "absent" => r.next[f].evaluated = r.head

EvaluationInv == TypeOK /\ RowsTimely /\ \A v \in Reviewers : Timely(review[v])

Advances == \A f \in Findings : rows'[f].evaluated >= rows[f].evaluated

(* The HEADs that are compared are numbers.                                *)
LEMMA EvaluationTypes ==
  ASSUME TypeOK
  PROVE  /\ CurrentHead \in Nat \ {0}
         /\ \A f \in Findings : rows[f] \in Row /\ rows[f].evaluated \in Nat
         /\ \A v \in Reviewers :
              /\ review[v] \in Review /\ review[v].head \in Nat
              /\ \A f \in Findings : /\ review[v].read[f].evaluated \in Nat
                                    /\ review[v].next[f] \in Row
                                    /\ review[v].next[f].evaluated \in Nat
<1>1. CurrentHead \in Nat \ {0}
  BY DEF TypeOK, Heads
<1>2. \A x \in Row : x.evaluated \in Nat
  BY DEF Row, Heads
<1>3. rows \in [Findings -> Row] /\ \A v \in Reviewers : review[v] \in Review
  BY DEF TypeOK
<1>4. \A r \in Review : /\ r.head \in Nat
                        /\ r.read \in [Findings -> Row] /\ r.next \in [Findings -> Row]
  BY DEF Review, Heads
<1> QED BY <1>1, <1>2, <1>3, <1>4

(* An idle handler holds nothing newer than what was pushed.               *)
LEMMA IdleIsTimely == ASSUME TypeOK PROVE Timely(Idle)
BY EvaluationTypes DEF Timely, Idle, NoRows, AbsentRow

(* A step that writes no row.                                              *)
LEMMA TimelyGoes ==
  ASSUME EvaluationInv, NEW v \in Reviewers, NEW r \in Review, Goes(v, r), Timely(r),
         UNCHANGED code
  PROVE  \A u \in Reviewers : Timely(review[u])'
<1>1. CurrentHead' = CurrentHead
  BY DEF CurrentHead
<1>2. ASSUME NEW u \in Reviewers PROVE Timely(review'[u])
  BY GoesToReview DEF EvaluationInv
<1> QED BY <1>1, <1>2 DEF Timely

(* A step that writes no row has no evaluation go back.                    *)
LEMMA RowsKept ==
  ASSUME EvaluationInv, UNCHANGED <<code, rows>>
  PROVE  RowsTimely' /\ Advances
<1>1. \A f \in Findings : rows[f].evaluated \in Nat
  BY EvaluationTypes DEF EvaluationInv
<1> QED BY <1>1 DEF EvaluationInv, RowsTimely, Advances, CurrentHead

(* A review that starts has read rows that are not newer than its HEAD.    *)
LEMMA StartAdvances ==
  ASSUME EvaluationInv, NEW v \in Reviewers, Start(v)
  PROVE  EvaluationInv' /\ Advances
<1> DEFINE r == [Idle EXCEPT !.at = "threads", !.alone = Running = {},
                             !.head = CurrentHead, !.read = rows]
<1>1. TypeOK' /\ TypeOK
  BY StartType DEF EvaluationInv
<1>2. RowsTimely' /\ Advances
  BY RowsKept DEF Start
<1>3. /\ r.head = CurrentHead /\ r.read = rows /\ r.next = NoRows /\ r.at = "threads"
  BY DEF Idle
<1>4. review' = [u \in Reviewers |-> IF u = v THEN r ELSE [review[u] EXCEPT !.alone = FALSE]]
  BY DEF Start
<1> HIDE DEF r
<1>5. Timely(r)
  <2>1. CurrentHead \in Nat /\ \A f \in Findings : rows[f].evaluated <= CurrentHead
    BY <1>1, EvaluationTypes DEF EvaluationInv, RowsTimely
  <2>2. \A f \in Findings : NoRows[f].evaluated = 0
    BY DEF NoRows, AbsentRow
  <2>3. /\ r.head <= CurrentHead /\ r.at # "upsert"
        /\ \A f \in Findings : r.next[f].evaluated <= CurrentHead
        /\ \A f \in Findings : r.read[f].evaluated <= r.head
    BY <1>3, <2>1, <2>2
  <2> QED BY <2>3, Zenon DEF Timely
<1>6. ASSUME NEW u \in Reviewers PROVE Timely(review'[u])
  <2>1. CASE u = v
    BY <1>4, <1>5, <2>1
  <2>2. CASE u # v
    <3>1. review'[u] = [review[u] EXCEPT !.alone = FALSE] /\ review[u] \in Review
      BY <1>1, <1>4, <2>2, EvaluationTypes
    <3>2. /\ review'[u].head = review[u].head /\ review'[u].at = review[u].at
          /\ review'[u].read = review[u].read /\ review'[u].next = review[u].next
      BY <3>1 DEF Review
    <3>3. Timely(review[u])
      BY DEF EvaluationInv
    <3> QED BY <3>2, <3>3 DEF Timely
  <2> QED BY <2>1, <2>2
<1>7. CurrentHead' = CurrentHead
  BY DEF Start, CurrentHead
<1> QED BY <1>1, <1>2, <1>6, <1>7 DEF EvaluationInv, Timely

(* What the review will write is of its HEAD, by Decided.                  *)
LEMMA JudgeAdvances ==
  ASSUME EvaluationInv, NEW v \in Reviewers, Judge(v)
  PROVE  EvaluationInv' /\ Advances
<1>1. TypeOK' /\ TypeOK
  BY JudgeType DEF EvaluationInv
<1>2. PICK r \in Review : Goes(v, r) /\ (r = Idle \/ Decided(review[v], r))
  BY <1>1, IdleIsReview, JudgedIsDecided DEF Judge, Decided
<1>3. CASE Decided(review[v], r)
  <2>1. /\ review[v].head \in Nat /\ review[v].head <= CurrentHead /\ CurrentHead \in Nat
        /\ \A f \in Findings : review[v].read[f].evaluated <= review[v].head
        /\ \A f \in Findings : review[v].read[f].evaluated \in Nat
    BY <1>1, EvaluationTypes DEF EvaluationInv, Timely, Judge, At
  <2>2. \A f \in Findings : r.next[f].evaluated \in {r.head, r.read[f].evaluated}
    BY <1>3 DEF Decided
  <2>3. r.head = review[v].head /\ r.read = review[v].read /\ r.at = "upsert"
    BY <1>3 DEF Decided
  <2>4. ASSUME NEW f \in Findings PROVE r.next[f].evaluated <= CurrentHead
    <3>1. /\ review[v].read[f].evaluated <= review[v].head
          /\ review[v].read[f].evaluated \in Nat
          /\ r.next[f].evaluated \in {review[v].head, review[v].read[f].evaluated}
      BY <2>1, <2>2, <2>3
    <3> QED BY <2>1, <3>1
  <2>5. \A f \in Findings : r.next[f].state # "absent" => r.next[f].evaluated = r.head
    BY <1>3 DEF Decided
  <2>6. r.head <= CurrentHead /\ \A f \in Findings : r.read[f].evaluated <= r.head
    BY <2>1, <2>3
  <2>7. Timely(r)
    BY <2>4, <2>5, <2>6 DEF Timely
  <2> QED BY <1>1, <1>2, <2>7, TimelyGoes, RowsKept DEF EvaluationInv, Judge
<1>4. CASE r = Idle
  BY <1>1, <1>2, <1>4, IdleIsTimely, TimelyGoes, RowsKept DEF EvaluationInv, Judge
<1> QED BY <1>2, <1>3, <1>4

(* A review that holds what it held, or less, and writes no row.           *)
LEMMA QuietStepAdvances ==
  ASSUME EvaluationInv, TypeOK', NEW v \in Reviewers, UNCHANGED <<code, rows>>,
         NEW r \in Review, Goes(v, r), r.at \notin {"threads", "upsert"}, r.head \in {0, review[v].head},
         \A f \in Findings : r.next[f].evaluated \in {0, review[v].next[f].evaluated}
  PROVE  EvaluationInv' /\ Advances
<1>1. /\ CurrentHead \in Nat /\ review[v].head <= CurrentHead
      /\ \A f \in Findings : review[v].next[f].evaluated <= CurrentHead
  BY EvaluationTypes DEF EvaluationInv, Timely
<1>2. Timely(r)
  <2>1. r.head <= CurrentHead
    BY <1>1
  <2>2. \A f \in Findings : r.next[f].evaluated <= CurrentHead
    BY <1>1
  <2> QED BY <2>1, <2>2, Zenon DEF Timely
<1> QED BY <1>2, TimelyGoes, RowsKept DEF EvaluationInv

(* In particular when a review ends or stops.                              *)
LEMMA IdleStepAdvances ==
  ASSUME EvaluationInv, TypeOK', NEW v \in Reviewers, UNCHANGED <<code, rows>>, Goes(v, Idle)
  PROVE  EvaluationInv' /\ Advances
<1>1. Idle.at = "idle" /\ Idle.head = 0 /\ \A f \in Findings : Idle.next[f].evaluated = 0
  BY DEF Idle, NoRows, AbsentRow
<1>2. /\ Idle \in Review /\ Idle.at \notin {"threads", "upsert"} /\ Idle.head \in {0, review[v].head}
      /\ \A f \in Findings : Idle.next[f].evaluated \in {0, review[v].next[f].evaluated}
  BY <1>1, IdleIsReview
<1> DEFINE r == Idle
<1> HIDE DEF r
<1>3. /\ r \in Review /\ Goes(v, r) /\ r.at \notin {"threads", "upsert"} /\ r.head \in {0, review[v].head}
      /\ \A f \in Findings : r.next[f].evaluated \in {0, review[v].next[f].evaluated}
  BY <1>2 DEF r
<1> QED BY <1>3, QuietStepAdvances

(* An accepted write is of the HEAD of the row, or of a later one.         *)
LEMMA WrittenIsTimely ==
  ASSUME EvaluationInv, TypeOK', NEW f \in Findings, NEW row \in Row,
         row.state # "absent", row.evaluated <= CurrentHead, rows[f].evaluated <= row.evaluated,
         rows' = [rows EXCEPT ![f] = row], UNCHANGED code
  PROVE  RowsTimely' /\ Advances
<1>1. CurrentHead' = CurrentHead
  BY DEF CurrentHead
<1>2. rows \in [Findings -> Row]
  BY DEF EvaluationInv, TypeOK
<1>3. ASSUME NEW g \in Findings
      PROVE  /\ rows'[g].evaluated <= CurrentHead /\ rows'[g].evaluated >= rows[g].evaluated
             /\ rows'[g].state = "absent" => rows'[g].evaluated = 0
  <2>1. rows[g].evaluated \in Nat /\ row.evaluated \in Nat
    BY <1>2 DEF Row, Heads
  <2>2. CASE g = f
    BY <1>2, <2>1, <2>2
  <2>3. CASE g # f
    BY <1>2, <2>1, <2>3 DEF EvaluationInv, RowsTimely
  <2> QED BY <2>2, <2>3
<1> QED BY <1>1, <1>3 DEF RowsTimely, Advances

(* The compare-and-swap accepts a write over an absent row, over the row   *)
(* read or over that of the twin: none is newer than the HEAD of the       *)
(* review.                                                                 *)
LEMMA UpsertAdvances ==
  ASSUME EvaluationInv, NEW v \in Reviewers, Upsert(v)
  PROVE  EvaluationInv' /\ Advances
<1> DEFINE r == review[v]
           f == FirstOf(Todo(r))
           next == [r EXCEPT !.todo = f + 1]
           row == Stored(r.next[f], rows[f])
<1>1. TypeOK' /\ TypeOK
  BY UpsertType DEF EvaluationInv
<1>2. /\ r \in Review /\ f \in Findings /\ f \in Nat /\ r.next[f].state # "absent"
      /\ r.at = "upsert"
  BY <1>1, HeadOfReview, TodoIsWritten DEF Upsert, At
<1>3. CASE Goes(v, Idle) /\ UNCHANGED rows
  BY <1>1, <1>3, IdleStepAdvances DEF Upsert
<1>4. CASE /\ Accepts(rows[f], r.read[f], r.next[f])
           /\ rows' = [rows EXCEPT ![f] = row] /\ Goes(v, next)
  <2>1. /\ r.head \in Nat /\ r.head <= CurrentHead /\ CurrentHead \in Nat
        /\ r.next[f].evaluated = r.head /\ r.read[f].evaluated <= r.head
        /\ rows[f].state = "absent" => rows[f].evaluated = 0
    BY <1>1, <1>2, EvaluationTypes DEF EvaluationInv, Timely, RowsTimely
  <2>2. rows[f].evaluated <= r.head
    BY <1>4, <2>1 DEF Accepts, SameSnapshot
  <2>3. r.next[f] \in Row /\ rows[f] \in Row
    BY <1>1, <1>2, EvaluationTypes
  <2>4. row \in Row /\ row.state = r.next[f].state /\ row.evaluated = r.next[f].evaluated
    BY <2>3 DEF Stored, Row
  <2>5. /\ next \in Review /\ next.at = r.at /\ next.head = r.head
        /\ next.read = r.read /\ next.next = r.next
    BY <1>2 DEF Review
  <2>6. Timely(next)
    BY <2>5 DEF EvaluationInv, Timely
  <2>7. UNCHANGED code
    BY DEF Upsert
  <2> HIDE DEF f, row, next, r
  <2>8. RowsTimely' /\ Advances
    BY <1>1, <1>2, <1>4, <2>1, <2>2, <2>4, <2>7, WrittenIsTimely
  <2>9. \A u \in Reviewers : Timely(review[u])'
    BY <1>4, <2>5, <2>6, <2>7, TimelyGoes
  <2> QED BY <1>1, <2>8, <2>9 DEF EvaluationInv
<1>5. \/ Goes(v, Idle) /\ UNCHANGED rows
      \/ /\ Accepts(rows[f], r.read[f], r.next[f])
         /\ rows' = [rows EXCEPT ![f] = row] /\ Goes(v, next)
  BY DEF Upsert
<1> QED BY <1>3, <1>4, <1>5

(* The second listing writes nothing.                                      *)
LEMMA RelistAdvances ==
  ASSUME EvaluationInv, NEW v \in Reviewers, Relist(v)
  PROVE  EvaluationInv' /\ Advances
<1> DEFINE r == review[v]
           at == IF r.closing = {} THEN "publish" ELSE "settle"
           next == IF r.post = {} THEN NoRows ELSE r.next
           new == [r EXCEPT !.at = at, !.read = NoRows, !.todo = 0, !.next = next]
<1>1. /\ r \in Review /\ at \in {"publish", "settle"} /\ TypeOK' /\ UNCHANGED <<code, rows>>
      /\ next \in [Findings -> Row] /\ NoRows \in [Findings -> Row]
  BY HeadOfReview, RelistType, AbsentIsRow DEF EvaluationInv, Relist, Review
<1>2. Goes(v, new) \/ Goes(v, Idle)
  BY DEF Relist
<1>3. \A f \in Findings : next[f].evaluated \in {0, r.next[f].evaluated}
  BY DEF NoRows, AbsentRow
<1> HIDE DEF at, next
<1>4. new \in Review /\ new.at = at /\ new.head = r.head /\ new.next = next
  BY <1>1 DEF Review
<1> HIDE DEF new
<1>5. CASE Goes(v, new)
  BY <1>1, <1>3, <1>4, <1>5, QuietStepAdvances
<1> QED BY <1>1, <1>2, <1>5, IdleStepAdvances

(* Nor does closing threads,                                               *)
LEMMA SettleThreadsAdvances ==
  ASSUME EvaluationInv, NEW v \in Reviewers, SettleThreads(v)
  PROVE  EvaluationInv' /\ Advances
<1> DEFINE new == [review[v] EXCEPT !.at = "publish", !.closing = {}]
<1>1. TypeOK' /\ UNCHANGED <<code, rows>> /\ review[v] \in Review
  BY HeadOfReview, SettleThreadsType DEF EvaluationInv, SettleThreads
<1>2. Goes(v, new) \/ Goes(v, Idle)
  BY DEF SettleThreads
<1>3. /\ new \in Review /\ new.at = "publish" /\ new.head = review[v].head
      /\ new.next = review[v].next
  BY <1>1 DEF Review
<1> HIDE DEF new
<1>4. CASE Goes(v, new)
  BY <1>1, <1>3, <1>4, QuietStepAdvances
<1> QED BY <1>1, <1>2, <1>4, IdleStepAdvances

(* requesting changes                                                      *)
LEMMA RequestChangesAdvances ==
  ASSUME EvaluationInv, NEW v \in Reviewers, RequestChanges(v)
  PROVE  EvaluationInv' /\ Advances
<1> DEFINE new == [Idle EXCEPT !.at = "refresh", !.next = review[v].next]
<1>1. TypeOK' /\ UNCHANGED <<code, rows>> /\ review[v] \in Review
  BY HeadOfReview, RequestChangesType DEF EvaluationInv, RequestChanges
<1>2. Goes(v, new) \/ Goes(v, Idle)
  BY DEF RequestChanges
<1>3. new \in Review
  BY <1>1, IdleIsReview DEF Review
<1>4. new.at = "refresh" /\ new.head = 0 /\ new.next = review[v].next
  BY DEF Idle
<1> HIDE DEF new
<1>5. CASE Goes(v, new)
  BY <1>1, <1>3, <1>4, <1>5, QuietStepAdvances
<1> QED BY <1>1, <1>2, <1>5, IdleStepAdvances

(* or listing the new threads.                                             *)
LEMMA RefreshThreadsAdvances ==
  ASSUME EvaluationInv, NEW v \in Reviewers, RefreshThreads(v)
  PROVE  EvaluationInv' /\ Advances
<1> DEFINE r == review[v]
           next == [f \in Findings |-> IF ThreadsOf(f) = {} THEN AbsentRow
                                       ELSE [r.next[f] EXCEPT !.thread = LastThread(f)]]
           new == [r EXCEPT !.at = "attach", !.next = next]
<1>1. TypeOK' /\ TypeOK /\ UNCHANGED <<code, rows>> /\ r \in Review
  BY HeadOfReview, RefreshThreadsType DEF EvaluationInv, RefreshThreads
<1>2. Goes(v, new) \/ Goes(v, Idle)
  BY DEF RefreshThreads
<1>3. ASSUME NEW f \in Findings
      PROVE  next[f] \in Row /\ next[f].evaluated \in {0, r.next[f].evaluated}
  <2>1. r.next[f] \in Row
    BY <1>1 DEF Review
  <2>2. CASE ThreadsOf(f) = {}
    BY <2>2, AbsentIsRow DEF AbsentRow
  <2>3. CASE ThreadsOf(f) # {}
    <3>1. [r.next[f] EXCEPT !.thread = LastThread(f)] \in Row
      BY <1>1, <2>1, <2>3, LastThreadType, DismissedRow, SmallValues
    <3>2. [r.next[f] EXCEPT !.thread = LastThread(f)].evaluated = r.next[f].evaluated
      BY <2>1 DEF Row
    <3> QED BY <2>3, <3>1, <3>2
  <2> QED BY <2>2, <2>3
<1>4. next \in [Findings -> Row]
  BY <1>3
<1> HIDE DEF next
<1>5. new \in Review /\ new.at = "attach" /\ new.head = r.head /\ new.next = next
  BY <1>1, <1>4 DEF Review
<1> HIDE DEF new
<1>6. CASE Goes(v, new)
  BY <1>1, <1>3, <1>5, <1>6, QuietStepAdvances
<1> QED BY <1>1, <1>2, <1>6, IdleStepAdvances

(* A thread id is attached to the row of the same evaluation only.         *)
LEMMA AttachThreadAdvances ==
  ASSUME EvaluationInv, NEW v \in Reviewers, AttachThread(v)
  PROVE  EvaluationInv' /\ Advances
<1> DEFINE r == review[v]
           f == FirstOf(Todo(r))
           new == [r EXCEPT !.todo = f + 1]
<1>1. TypeOK' /\ TypeOK /\ UNCHANGED code /\ r \in Review /\ r.at = "attach"
  BY HeadOfReview, AttachThreadType DEF EvaluationInv, AttachThread, At
<1>2. CASE Todo(r) = {}
  BY <1>1, <1>2, IdleStepAdvances DEF AttachThread
<1>3. CASE Todo(r) # {}
  <2>1. f \in Findings /\ f \in Nat /\ r.next[f].state # "absent"
    BY <1>3, TodoIsWritten
  <2>2. /\ Goes(v, new)
        /\ rows' = IF Accepts(rows[f], r.next[f], r.next[f])
                   THEN [rows EXCEPT ![f] = r.next[f]] ELSE rows
    BY <1>3 DEF AttachThread
  <2>3. /\ r.next[f] \in Row /\ r.next[f].evaluated \in Nat
        /\ r.next[f].evaluated <= CurrentHead
        /\ rows[f].state = "absent" => rows[f].evaluated = 0
    BY <1>1, <2>1, EvaluationTypes DEF EvaluationInv, Timely, RowsTimely
  <2> HIDE DEF f
  <2>4. /\ new \in Review /\ new.at = r.at /\ new.head = r.head
        /\ new.read = r.read /\ new.next = r.next
    BY <1>1, <2>1 DEF Review
  <2>5. Timely(new)
    BY <2>4 DEF EvaluationInv, Timely
  <2> HIDE DEF new, r
  <2>6. \A u \in Reviewers : Timely(review[u])'
    BY <1>1, <2>2, <2>4, <2>5, TimelyGoes
  <2>7. RowsTimely' /\ Advances
    <3>1. CASE Accepts(rows[f], r.next[f], r.next[f])
      <4>1. rows[f].evaluated <= r.next[f].evaluated
        BY <2>3, <3>1 DEF Accepts, SameSnapshot
      <4> QED BY <1>1, <2>1, <2>2, <2>3, <3>1, <4>1, WrittenIsTimely
    <3>2. CASE ~Accepts(rows[f], r.next[f], r.next[f])
      BY <1>1, <2>2, <3>2, RowsKept
    <3> QED BY <3>1, <3>2
  <2> QED BY <1>1, <2>6, <2>7 DEF EvaluationInv
<1> QED BY <1>2, <1>3

(* A push makes everything older.                                          *)
LEMMA PushAdvances ==
  ASSUME EvaluationInv, Push
  PROVE  EvaluationInv' /\ Advances
<1>1. TypeOK' /\ TypeOK /\ UNCHANGED <<rows, review>>
  BY PushType DEF EvaluationInv, Push
<1>2. CurrentHead' = CurrentHead + 1
  <2>1. PICK files \in Files : code' = Append(code, files)
    BY DEF Push
  <2>2. files \in [Findings -> Quotes]
    BY DEF Files
  <2> QED BY <1>1, <2>1, <2>2 DEF TypeOK, CurrentHead
<1>3. CurrentHead \in Nat
  BY <1>1, EvaluationTypes
<1>4. ASSUME NEW f \in Findings
      PROVE  rows'[f].evaluated <= CurrentHead' /\ rows'[f].evaluated >= rows[f].evaluated
  <2>1. rows[f].evaluated \in Nat /\ rows[f].evaluated <= CurrentHead
    BY <1>1, EvaluationTypes DEF EvaluationInv, RowsTimely
  <2> QED BY <1>1, <1>2, <1>3, <2>1
<1>5. RowsTimely' /\ Advances
  BY <1>1, <1>4 DEF EvaluationInv, RowsTimely, Advances
<1>6. ASSUME NEW u \in Reviewers PROVE Timely(review[u])'
  <2>1. /\ review[u].head \in Nat /\ review[u].head <= CurrentHead
        /\ \A f \in Findings : /\ review[u].next[f].evaluated \in Nat
                              /\ review[u].next[f].evaluated <= CurrentHead
    BY <1>1, EvaluationTypes DEF EvaluationInv, Timely
  <2>2. /\ review[u].head <= CurrentHead'
        /\ \A f \in Findings : review[u].next[f].evaluated <= CurrentHead'
    BY <1>2, <1>3, <2>1
  <2> QED BY <1>1, <2>2 DEF EvaluationInv, Timely
<1> QED BY <1>1, <1>5, <1>6 DEF EvaluationInv

(* Nothing else matters to the rows.                                       *)
LEMMA StutterAdvances ==
  ASSUME EvaluationInv, TypeOK', UNCHANGED <<code, rows, review>>
  PROVE  EvaluationInv' /\ Advances
<1>1. RowsTimely' /\ Advances
  BY RowsKept
<1> QED BY <1>1 DEF EvaluationInv, Timely, CurrentHead

(* Hence no step has an evaluation go back.                                *)
LEMMA StepAdvances ==
  ASSUME EvaluationInv, [Next]_vars
  PROVE  EvaluationInv' /\ Advances
<1>1. ASSUME NEW v \in Reviewers, Step(v) PROVE EvaluationInv' /\ Advances
  <2>1. TypeOK'
    BY <1>1, StepTypes DEF EvaluationInv, Next
  <2>2. CASE Conclude(v) \/ Stops(v)
    BY <2>1, <2>2, IdleStepAdvances DEF Conclude, Stops
  <2> QED BY <1>1, <2>2, StartAdvances, JudgeAdvances, UpsertAdvances, RelistAdvances,
             SettleThreadsAdvances, RequestChangesAdvances, RefreshThreadsAdvances,
             AttachThreadAdvances DEF Step
<1>2. CASE MaintainerAnswers
  <2>1. TypeOK'
    BY <1>2, StepTypes DEF EvaluationInv, Next
  <2> QED BY <1>2, <2>1, StutterAdvances DEF MaintainerAnswers
<1>3. CASE AtRest \/ UNCHANGED vars
  <2>1. UNCHANGED vars
    BY <1>3 DEF AtRest
  <2>2. TypeOK'
    BY <2>1 DEF vars, EvaluationInv, TypeOK, CurrentHead
  <2> QED BY <2>1, <2>2, StutterAdvances DEF vars
<1> QED BY <1>1, <1>2, <1>3, PushAdvances DEF Next

(* Initially nothing has been evaluated.                                   *)
LEMMA InitEvaluation == Init => EvaluationInv
<1> SUFFICES ASSUME Init PROVE EvaluationInv
  OBVIOUS
<1>1. TypeOK
  BY InitTypes
<1>2. RowsTimely
  <2>1. CurrentHead \in Nat
    BY <1>1, EvaluationTypes
  <2> QED BY <2>1 DEF Init, RowsTimely, NoRows, AbsentRow
<1> QED BY <1>1, <1>2, IdleIsTimely DEF Init, EvaluationInv

(* No review of an older HEAD, however late it writes, and no attachment   *)
(* of a thread's id overwrites the evaluation of a newer HEAD.             *)
THEOREM LaterHeadsWin == Spec => EvaluationsAdvance
<1>1. EvaluationInv /\ [Next]_vars => EvaluationInv'
  BY StepAdvances
<1>2. EvaluationInv /\ [Next]_vars =>
        [\A f \in Findings : rows'[f].evaluated >= rows[f].evaluated]_vars
  BY StepAdvances DEF Advances
<1> QED BY InitEvaluation, <1>1, <1>2, PTL DEF Spec, EvaluationsAdvance

-----------------------------------------------------------------------------
(***************************************************************************)
(* A review that no other ran beside. The invariant follows it: nobody     *)
(* else writes while it runs, so that what it read, wrote and listed again *)
(* are the rows.                                                           *)
(***************************************************************************)
NoneOpen(L) == \A f \in Findings : L[f].state # "open"

(* What holds of a review v that has been alone so far.                    *)
Undisturbed(v) ==
  /\ review[v].at \in {"threads", "upsert", "settle", "publish"}
  /\ \A u \in Reviewers \ {v} : review[u].at = "idle"
  /\ At(v, "threads") => \A f \in Findings : rows[f].state = review[v].read[f].state
  /\ At(v, "upsert") =>
       /\ NoneOpen(review[v].next)
       /\ \A f \in Findings : review[v].next[f].state = "absent" => rows[f].state # "open"
  /\ review[v].at \in {"settle", "publish"} => NoneOpen(rows)

ApprovalInv == TypeOK /\ \A v \in Reviewers : review[v].alone => Undisturbed(v)

-----------------------------------------------------------------------------
(* A step of v that writes no row: it remains undisturbed if what is new   *)
(* of v allows it, and of the others only those can be that run alone.     *)
LEMMA AloneGoes ==
  ASSUME ApprovalInv, TypeOK', NEW v \in Reviewers, ~At(v, "idle"), NEW r \in Review, Goes(v, r),
         r.alone => review[v].alone /\ Undisturbed(v)'
  PROVE  ApprovalInv'
<1>1. /\ review'[v] = r /\ \A u \in Reviewers \ {v} : review'[u] = review[u]
  BY GoesToReview DEF ApprovalInv
<1>2. ASSUME NEW u \in Reviewers, u # v PROVE ~review'[u].alone
  BY <1>1, <1>2 DEF ApprovalInv, Undisturbed, At
<1>3. ASSUME NEW u \in Reviewers, review'[u].alone PROVE Undisturbed(u)'
  BY <1>1, <1>2, <1>3
<1> QED BY <1>3 DEF ApprovalInv

(* A review that ends or stops is of no further concern.                   *)
LEMMA IdleIsNotAlone ==
  ASSUME ApprovalInv, TypeOK', NEW v \in Reviewers, ~At(v, "idle"), Goes(v, Idle)
  PROVE  ApprovalInv'
BY AloneGoes, IdleIsReview DEF Idle

(* While v runs alone, all others stay where they are.                     *)
LEMMA OthersIdle ==
  ASSUME ApprovalInv, NEW v \in Reviewers, NEW r \in Review, Goes(v, r), review[v].alone
  PROVE  /\ review'[v] = r
         /\ \A u \in Reviewers \ {v} : review'[u].at = "idle"
BY GoesToReview DEF ApprovalInv, Undisturbed

(* A review that starts alone has read the rows as they are; one that      *)
(* starts beside another ends the solitude of both.                        *)
LEMMA StartAlone ==
  ASSUME ApprovalInv, NEW v \in Reviewers, Start(v)
  PROVE  ApprovalInv'
<1> DEFINE r == [Idle EXCEPT !.at = "threads", !.alone = Running = {},
                             !.head = CurrentHead, !.read = rows]
<1>1. TypeOK' /\ TypeOK
  BY StartType DEF ApprovalInv
<1>2. /\ r.at = "threads" /\ r.read = rows /\ r.alone = (Running = {})
  BY DEF Idle
<1>3. review' = [u \in Reviewers |-> IF u = v THEN r ELSE [review[u] EXCEPT !.alone = FALSE]]
  BY DEF Start
<1> HIDE DEF r
<1>4. ASSUME NEW u \in Reviewers, u # v
      PROVE  ~review'[u].alone /\ review'[u].at = review[u].at
  <2>1. review'[u] = [review[u] EXCEPT !.alone = FALSE] /\ review[u] \in Review
    BY <1>1, <1>3, <1>4 DEF TypeOK
  <2> QED BY <2>1 DEF Review
<1>5. ASSUME review'[v].alone PROVE Undisturbed(v)'
  <2>1. review'[v] = r
    BY <1>3
  <2>2. Running = {}
    BY <1>2, <1>5, <2>1, Zenon
  <2>3. \A u \in Reviewers : review[u].at = "idle"
    BY <2>2 DEF Running
  <2>4. rows' = rows
    BY DEF Start
  <2> QED BY <1>2, <1>4, <2>1, <2>3, <2>4 DEF Undisturbed, At
<1> QED BY <1>1, <1>4, <1>5 DEF ApprovalInv

(* If it passes, nothing it will write is open, and what it will not write *)
(* was absent when read, and still is.                                     *)
LEMMA JudgeAlone ==
  ASSUME ApprovalInv, NEW v \in Reviewers, Judge(v)
  PROVE  ApprovalInv'
<1>1. TypeOK' /\ TypeOK /\ UNCHANGED rows /\ At(v, "threads") /\ ~At(v, "idle")
  BY JudgeType DEF ApprovalInv, Judge, At
<1>2. CASE Goes(v, Idle)
  BY <1>1, <1>2, IdleIsNotAlone
<1>3. CASE \E r : Goes(v, r) /\ Decided(review[v], r)
  <2>1. PICK r : Goes(v, r) /\ Decided(review[v], r)
    BY <1>3
  <2>2. r \in Review /\ r.at = "upsert" /\ r.read = review[v].read
    BY <2>1 DEF Decided
  <2>3. ASSUME r.alone PROVE review[v].alone /\ Undisturbed(v)'
    <3>1. review[v].alone /\ r.verdict = "PASS" /\ Open(r.next) = {}
      BY <2>1, <2>3 DEF Decided
    <3>2. review'[v] = r /\ \A u \in Reviewers \ {v} : review'[u].at = "idle"
      BY <2>1, <2>2, <3>1, OthersIdle
    <3>3. \A f \in Findings : rows[f].state = r.read[f].state
      BY <1>1, <2>2, <3>1 DEF ApprovalInv, Undisturbed
    <3>4. \A f \in Findings : r.next[f].state = "absent" => r.read[f].state = "absent"
      BY <2>1 DEF Decided
    <3>5. NoneOpen(r.next)
      BY <3>1 DEF NoneOpen, Open
    <3> QED BY <1>1, <2>2, <3>1, <3>2, <3>3, <3>4, <3>5 DEF Undisturbed, At
  <2> QED BY <1>1, <2>1, <2>2, <2>3, AloneGoes
<1> QED BY <1>1, <1>2, <1>3, JudgedIsDecided DEF Judge

(* Its transactions change no finding that it does not write.              *)
LEMMA UpsertAlone ==
  ASSUME ApprovalInv, NEW v \in Reviewers, Upsert(v)
  PROVE  ApprovalInv'
<1> DEFINE r == review[v]
           f == FirstOf(Todo(r))
           new == [r EXCEPT !.todo = f + 1]
           row == Stored(r.next[f], rows[f])
<1>1. TypeOK' /\ TypeOK /\ r \in Review /\ r.at = "upsert" /\ ~At(v, "idle")
  BY UpsertType, HeadOfReview DEF ApprovalInv, Upsert, At
<1>2. f \in Findings /\ f \in Nat /\ r.next[f].state # "absent"
  BY TodoIsWritten DEF Upsert
<1>3. CASE Goes(v, Idle)
  BY <1>1, <1>3, IdleIsNotAlone
<1>4. CASE rows' = [rows EXCEPT ![f] = row] /\ Goes(v, new)
  <2> HIDE DEF f
  <2>1. new \in Review /\ new.at = "upsert" /\ new.next = r.next /\ new.alone = r.alone
    BY <1>1, <1>2 DEF Review
  <2> HIDE DEF new, row
  <2>2. ASSUME new.alone PROVE r.alone /\ Undisturbed(v)'
    <3>1. r.alone
      BY <2>1, <2>2
    <3>2. review'[v] = new /\ \A u \in Reviewers \ {v} : review'[u].at = "idle"
      BY <1>4, <2>1, <3>1, OthersIdle
    <3>3. NoneOpen(r.next) /\ \A g \in Findings : r.next[g].state = "absent" => rows[g].state # "open"
      BY <1>1, <3>1 DEF ApprovalInv, Undisturbed, At
    <3>4. \A g \in Findings : r.next[g].state = "absent" => rows'[g] = rows[g]
      BY <1>1, <1>2, <1>4 DEF TypeOK
    <3> QED BY <2>1, <3>1, <3>2, <3>3, <3>4 DEF Undisturbed, At
  <2> QED BY <1>1, <1>4, <2>1, <2>2, AloneGoes
<1> QED BY <1>3, <1>4 DEF Upsert

(* The second listing finds what the review wrote, hence nothing open.     *)
LEMMA RelistAlone ==
  ASSUME ApprovalInv, NEW v \in Reviewers, Relist(v)
  PROVE  ApprovalInv'
<1> DEFINE r == review[v]
           at == IF r.closing = {} THEN "publish" ELSE "settle"
           next == IF r.post = {} THEN NoRows ELSE r.next
           new == [r EXCEPT !.at = at, !.read = NoRows, !.todo = 0, !.next = next]
<1>1. /\ TypeOK' /\ TypeOK /\ r \in Review /\ at \in {"publish", "settle"} /\ r.at = "upsert"
      /\ UNCHANGED rows /\ ~At(v, "idle") /\ NoRows \in [Findings -> Row] /\ next \in [Findings -> Row]
  BY RelistType, HeadOfReview, AbsentIsRow DEF ApprovalInv, Relist, At, Review
<1>2. Goes(v, Idle) \/ (Goes(v, new) /\ StillCurrent(r))
  BY DEF Relist
<1> HIDE DEF at, next
<1>3. new \in Review /\ new.at = at /\ new.alone = r.alone
  BY <1>1 DEF Review
<1> HIDE DEF new
<1>4. CASE Goes(v, new) /\ StillCurrent(r)
  <2>1. ASSUME new.alone PROVE r.alone /\ Undisturbed(v)'
    <3>1. r.alone
      BY <1>3, <2>1
    <3>2. review'[v] = new /\ \A u \in Reviewers \ {v} : review'[u].at = "idle"
      BY <1>3, <1>4, <3>1, OthersIdle
    <3>3. NoneOpen(r.next) /\ \A f \in Findings : r.next[f].state = "absent" => rows[f].state # "open"
      BY <1>1, <3>1 DEF ApprovalInv, Undisturbed, At
    <3>4. NoneOpen(rows)
      BY <1>4, <3>3 DEF StillCurrent, NoneOpen
    <3> QED BY <1>1, <1>3, <3>1, <3>2, <3>4 DEF Undisturbed, At, NoneOpen
  <2> QED BY <1>1, <1>3, <1>4, <2>1, AloneGoes
<1> QED BY <1>1, <1>2, <1>4, IdleIsNotAlone

(* Closing threads leaves the rows.                                        *)
LEMMA SettleThreadsAlone ==
  ASSUME ApprovalInv, NEW v \in Reviewers, SettleThreads(v)
  PROVE  ApprovalInv'
<1> DEFINE new == [review[v] EXCEPT !.at = "publish", !.closing = {}]
<1>1. /\ TypeOK' /\ TypeOK /\ UNCHANGED rows /\ review[v] \in Review
      /\ At(v, "settle") /\ ~At(v, "idle")
  BY HeadOfReview, SettleThreadsType DEF ApprovalInv, SettleThreads, At
<1>2. Goes(v, new) \/ Goes(v, Idle)
  BY DEF SettleThreads
<1>3. new \in Review /\ new.at = "publish" /\ new.alone = review[v].alone
  BY <1>1 DEF Review
<1> HIDE DEF new
<1>4. CASE Goes(v, new)
  <2>1. ASSUME new.alone PROVE review[v].alone /\ Undisturbed(v)'
    <3>1. review[v].alone
      BY <1>3, <2>1
    <3>2. review'[v] = new /\ \A u \in Reviewers \ {v} : review'[u].at = "idle"
      BY <1>3, <1>4, <3>1, OthersIdle
    <3>3. NoneOpen(rows)
      BY <1>1, <3>1 DEF ApprovalInv, Undisturbed, At
    <3> QED BY <1>1, <1>3, <3>1, <3>2, <3>3 DEF Undisturbed, At, NoneOpen
  <2> QED BY <1>1, <1>3, <1>4, <2>1, AloneGoes
<1> QED BY <1>1, <1>2, <1>4, IdleIsNotAlone

(* What follows a request for changes is not alone: it does not approve.   *)
LEMMA AfterPublicationAlone ==
  ASSUME ApprovalInv, NEW v \in Reviewers,
         RequestChanges(v) \/ RefreshThreads(v) \/ AttachThread(v)
  PROVE  ApprovalInv'
<1>1. TypeOK /\ review[v] \in Review /\ ~At(v, "idle")
  BY HeadOfReview DEF ApprovalInv, RequestChanges, RefreshThreads, AttachThread, At
<1>2. TypeOK'
  BY <1>1, RequestChangesType, RefreshThreadsType, AttachThreadType
<1>3. CASE RequestChanges(v)
  <2>1. [Idle EXCEPT !.at = "refresh", !.next = review[v].next] \in Review
    BY <1>1, IdleIsReview DEF Review
  <2>2. ~[Idle EXCEPT !.at = "refresh", !.next = review[v].next].alone
    BY DEF Idle
  <2> QED BY <1>1, <1>2, <1>3, <2>1, <2>2, AloneGoes, IdleIsNotAlone DEF RequestChanges
<1>4. CASE RefreshThreads(v) \/ AttachThread(v)
  <2>1. review[v].at \in {"refresh", "attach"}
    BY <1>4 DEF RefreshThreads, AttachThread, At
  <2>2. ~review[v].alone
    BY <2>1 DEF ApprovalInv, Undisturbed
  <2>3. PICK r : Goes(v, r) /\ (r = Idle \/ r.alone = review[v].alone)
    <3>1. CASE RefreshThreads(v)
      <4> DEFINE next == [f \in Findings |-> IF ThreadsOf(f) = {} THEN AbsentRow
                                ELSE [review[v].next[f] EXCEPT !.thread = LastThread(f)]]
      <4>1. Goes(v, Idle) \/ Goes(v, [review[v] EXCEPT !.at = "attach", !.next = next])
        BY <3>1 DEF RefreshThreads
      <4> HIDE DEF next
      <4>2. [review[v] EXCEPT !.at = "attach", !.next = next].alone = review[v].alone
        BY <1>1 DEF Review
      <4> QED BY <4>1, <4>2
    <3>2. CASE AttachThread(v)
      <4> DEFINE n == FirstOf(Todo(review[v])) + 1
      <4>1. Goes(v, Idle) \/ Goes(v, [review[v] EXCEPT !.todo = n])
        BY <3>2 DEF AttachThread
      <4> HIDE DEF n
      <4>2. [review[v] EXCEPT !.todo = n].alone = review[v].alone
        BY <1>1 DEF Review
      <4> QED BY <4>1, <4>2
    <3> QED BY <1>4, <3>1, <3>2
  <2>4. ~r.alone
    BY <2>2, <2>3 DEF Idle
  <2>5. review' = [review EXCEPT ![v] = r] /\ review \in [Reviewers -> Review]
    BY <1>1, <2>3 DEF Goes, TypeOK
  <2>6. review'[v] = r
    BY <2>5
  <2>7. r \in Review
    BY <1>2, <2>6 DEF TypeOK
  <2> QED BY <1>1, <1>2, <2>3, <2>4, <2>7, AloneGoes
<1> QED BY <1>3, <1>4

(* Pushes and answers of maintainers change neither rows nor reviews.      *)
LEMMA QuietAlone ==
  ASSUME ApprovalInv, TypeOK', UNCHANGED <<rows, review>>
  PROVE  ApprovalInv'
<1>1. \A v \in Reviewers : Undisturbed(v) => Undisturbed(v)'
  BY DEF Undisturbed, At, NoneOpen
<1> QED BY <1>1 DEF ApprovalInv

(* Hence every step keeps the invariant.                                   *)
LEMMA StepAlone ==
  ASSUME ApprovalInv, [Next]_vars
  PROVE  ApprovalInv'
<1>1. ASSUME NEW v \in Reviewers, Step(v) PROVE ApprovalInv'
  <2>1. TypeOK'
    BY <1>1, StepTypes DEF ApprovalInv, Next
  <2>2. CASE Conclude(v) \/ Stops(v)
    BY <2>1, <2>2, IdleIsNotAlone DEF Conclude, Stops, At
  <2> QED BY <1>1, <2>2, StartAlone, JudgeAlone, UpsertAlone, RelistAlone, SettleThreadsAlone,
             AfterPublicationAlone DEF Step
<1>2. CASE Push \/ MaintainerAnswers
  <2>1. TypeOK'
    BY <1>2, StepTypes DEF ApprovalInv, Next
  <2> QED BY <1>2, <2>1, QuietAlone DEF Push, MaintainerAnswers
<1>3. CASE AtRest \/ UNCHANGED vars
  <2>1. UNCHANGED vars
    BY <1>3 DEF AtRest
  <2>2. TypeOK'
    BY <2>1 DEF vars, ApprovalInv, TypeOK, CurrentHead
  <2> QED BY <2>1, <2>2, QuietAlone DEF vars
<1> QED BY <1>1, <1>2, <1>3 DEF Next

(* A review that no other ran beside approves only if the ledger has no    *)
(* open finding: the verdict of what it reconciled, the transactions that  *)
(* stored it and the listing that confirmed it are about the same rows.    *)
THEOREM ApprovalsAreClean == Spec => []ApprovalMeetsNoOpenFinding
<1>1. Init => ApprovalInv
  BY InitTypes DEF Init, ApprovalInv, Idle
<1>2. ApprovalInv /\ [Next]_vars => ApprovalInv'
  BY StepAlone
<1>3. ApprovalInv => ApprovalMeetsNoOpenFinding
  <2>1. ASSUME ApprovalInv, NEW v \in Reviewers, At(v, "publish"), review[v].alone
        PROVE  NoneOpen(rows)
    BY <2>1 DEF ApprovalInv, Undisturbed, At
  <2> QED BY <2>1 DEF ApprovalMeetsNoOpenFinding, NoneOpen, Open
<1> QED BY <1>1, <1>2, <1>3, PTL DEF Spec
-----------------------------------------------------------------------------
(***************************************************************************)
(* Causes. What a review is about to write closes an open finding that it  *)
(* read only for a cause, and opens a refuted one only if its lines came   *)
(* back; the cause still holds when the row is written, since files of a   *)
(* HEAD and dismissals stay what they are. The compare-and-swap then sees  *)
(* to it that the row is the one that was read, or its twin.               *)
(***************************************************************************)
RefutedBy(row, head) == row.state = "refuted" => row.refutedAt \in 1..head

DismissedFindings ==
  {f \in Findings : \E t \in ThreadsOf(f) : threads[t].refuted \/ threads[t].resolvedBy = "human"}

(* `files` are the files of the HEADs, `dismissed` the findings dismissed. *)
ClosesForCause(f, was, is, head, files, dismissed) ==
  (was.state = "open" /\ is.state # "open") =>
    \/ /\ is.state = "resolved"
       /\ IF f \in MissingTests THEN files[head][f] = 0 ELSE files[head][f] # was.quote
    \/ is.state = "refuted" /\ f \in dismissed

OpensForCause(f, was, is, head, files) ==
  (was.state = "refuted" /\ is.state # "refuted") =>
    is.state = "open" /\ head > was.refutedAt /\ files[head][f] # files[was.refutedAt][f]

Caused(r, current, files, dismissed) ==
  /\ \A f \in Findings : RefutedBy(r.next[f], current)
  /\ r.at \in {"threads", "upsert"} =>
       r.head \in 1..current /\ \A f \in Findings : RefutedBy(r.read[f], r.head)
  /\ r.at = "upsert" => \A f \in Findings :
       /\ ClosesForCause(f, r.read[f], r.next[f], r.head, files, dismissed)
       /\ OpensForCause(f, r.read[f], r.next[f], r.head, files)

CauseInv ==
  /\ \A f \in Findings : RefutedBy(rows[f], CurrentHead)
  /\ \A v \in Reviewers : Caused(review[v], CurrentHead, code, DismissedFindings)

(* What a step does to the rows.                                           *)
RowsChangeForCause ==
  \A f \in Findings :
    \/ rows'[f] = rows[f]
    \/ OverwritesTwin(f)
    \/ /\ ClosesForCause(f, rows[f], rows'[f], rows'[f].evaluated, code, DismissedFindings)
       /\ OpensForCause(f, rows[f], rows'[f], rows'[f].evaluated, code)

(* Pushes keep the files of older HEADs, and nobody takes a dismissal back.*)
Grows ==
  /\ CurrentHead' \in Nat /\ CurrentHead' >= CurrentHead
  /\ \A h \in 1..CurrentHead : code'[h] = code[h]
  /\ DismissedFindings \subseteq DismissedFindings'

(* Dismissing a finding while the prior ledger is put together keeps the   *)
(* evidence, and leaves any other finding as it was read.                  *)
LEMMA PriorOf ==
  ASSUME TypeOK, NEW r \in Review, NEW sees \in BOOLEAN, NEW f \in Findings
  PROVE  LET p == Prior(r, sees)[f]  was == r.read[f] IN
         /\ p.quote = was.quote
         /\ \/ p.state = was.state /\ p.refutedAt = was.refutedAt
            \/ /\ was.state = "open" /\ p.state = "refuted" /\ p.refutedAt = r.head
               /\ f \in DismissedFindings
<1> DEFINE row == [r.read[f] EXCEPT !.thread = IF sees /\ FirstThread(f) # 0
                                              THEN FirstThread(f) ELSE @]
<1>1. r.read[f] \in Row
  BY DEF Review
<1>2. /\ row \in Row
      /\ row.state = r.read[f].state /\ row.quote = r.read[f].quote
      /\ row.refutedAt = r.read[f].refutedAt
  BY <1>1, FirstThreadType DEF Row
<1>3. Prior(r, sees)[f] = IF sees /\ Dismissed(r, f)
                          THEN [row EXCEPT !.state = "refuted", !.refutedAt = r.head] ELSE row
  BY DEF Prior
<1> HIDE DEF row
<1>4. CASE sees /\ Dismissed(r, f)
  <2>1. FirstThread(f) \in ThreadsOf(f)
    <3>1. ThreadsOf(f) # {}
      BY <1>4 DEF Dismissed, FirstThread
    <3>2. ThreadsOf(f) \in SUBSET Nat
      BY ThreadsAreNumbers
    <3>3. \E t \in ThreadsOf(f) : \A u \in ThreadsOf(f) : t <= u
      BY <3>1, <3>2, SmallestExists
    <3> QED BY <3>1, <3>3 DEF FirstThread
  <2>2. f \in DismissedFindings /\ r.read[f].state = "open"
    BY <1>4, <2>1 DEF Dismissed, DismissedFindings
  <2>3. LET p == [row EXCEPT !.state = "refuted", !.refutedAt = r.head] IN
        p.state = "refuted" /\ p.refutedAt = r.head /\ p.quote = row.quote
    BY <1>2 DEF Row
  <2> QED BY <1>2, <1>3, <1>4, <2>2, <2>3
<1>5. CASE ~(sees /\ Dismissed(r, f))
  BY <1>2, <1>3, <1>5
<1> QED BY <1>4, <1>5

(* Reconciliation resolves what is proven absent, opens candidates, and    *)
(* leaves the state of every other finding.                                *)
LEMMA ReconciledOf ==
  ASSUME NEW prior \in [Findings -> Row], NEW candidates, NEW regressed, NEW absent,
         NEW id, id.head \in Heads, id.context \in Context, NEW f \in Findings,
         QuoteAt(id.head, f) \in Quotes
  PROVE  LET n == Reconciled(prior, candidates, regressed, absent, id)[f] IN
         \/ n.state = prior[f].state /\ n.refutedAt = prior[f].refutedAt
         \/ /\ n.state = "open"
            /\ prior[f].state = "refuted" => f \in regressed
         \/ n.state = "resolved" /\ f \in absent /\ f \notin candidates
<1> DEFINE n == Reconciled(prior, candidates, regressed, absent, id)[f]
<1>1. \/ n = EvaluatedAt(prior[f], id)
      \/ n = Reopened(prior[f], f, id) /\ (prior[f].state = "refuted" => f \in regressed)
      \/ n = prior[f]
      \/ n = [EvaluatedAt(prior[f], id) EXCEPT !.state = "resolved"]
           /\ f \in absent /\ f \notin candidates
  BY DEF Reconciled
<1> HIDE DEF n
<1>2. prior[f] \in Row
  OBVIOUS
<1>3. CASE n = EvaluatedAt(prior[f], id)
  BY <1>2, <1>3 DEF EvaluatedAt, Row, n
<1>4. CASE n = Reopened(prior[f], f, id) /\ (prior[f].state = "refuted" => f \in regressed)
  BY <1>2, <1>4, ReopenedRow DEF n
<1>5. CASE n = prior[f]
  BY <1>5 DEF n
<1>6. CASE n = [EvaluatedAt(prior[f], id) EXCEPT !.state = "resolved"]
             /\ f \in absent /\ f \notin candidates
  BY <1>2, <1>6, EvaluatedRow DEF n
<1> QED BY <1>1, <1>3, <1>4, <1>5, <1>6

(* So what a review decides about a finding has a cause.                   *)
LEMMA DecidedForCause ==
  ASSUME TypeOK, NEW r \in Review, r.head \in 1..CurrentHead, NEW sees \in BOOLEAN,
         NEW candidates, NEW regressed, NEW grounded, NEW loaded,
         grounded \subseteq {f \in MissingTests : code[r.head][f] = 0},
         loaded \subseteq Fatal,
         regressed \subseteq AddedSince(r.head, Prior(r, sees), candidates),
         NEW f \in Findings, RefutedBy(r.read[f], r.head)
  PROVE  LET prior == Prior(r, sees)
             absent == ProvenAbsent(r.head, prior, candidates, grounded, loaded)
             n == Reconciled(prior, candidates, regressed, absent,
                             [head |-> r.head, context |-> ContextOf(prior)])[f]
         IN /\ RefutedBy(n, r.head)
            /\ ClosesForCause(f, r.read[f], n, r.head, code, DismissedFindings)
            /\ OpensForCause(f, r.read[f], n, r.head, code)
<1> DEFINE prior == Prior(r, sees)
           absent == ProvenAbsent(r.head, prior, candidates, grounded, loaded)
           id == [head |-> r.head, context |-> ContextOf(prior)]
           n == Reconciled(prior, candidates, regressed, absent, id)[f]
           p == prior[f]
           was == r.read[f]
<1>1. prior \in [Findings -> Row]
  BY PriorIsLedger
<1>2. /\ p.quote = was.quote
      /\ \/ p.state = was.state /\ p.refutedAt = was.refutedAt
         \/ /\ was.state = "open" /\ p.state = "refuted" /\ p.refutedAt = r.head
            /\ f \in DismissedFindings
  BY PriorOf
<1>3. CurrentHead \in Nat \ {0} /\ r.head \in Heads /\ code[r.head][f] \in Quotes
  <2>1. /\ code \in Seq([Findings -> Quotes]) /\ CurrentHead = Len(code)
        /\ CurrentHead \in 1..MaxHead
    BY DEF TypeOK, CurrentHead, Heads
  <2>2. r.head \in 1..Len(code) /\ r.head \in 1..MaxHead
    BY <2>1
  <2>3. code[r.head] \in [Findings -> Quotes]
    BY <2>1, <2>2
  <2>4. code[r.head][f] \in Quotes
    BY <2>3
  <2>5. CurrentHead \in Nat \ {0}
    BY <2>1
  <2> QED BY <2>2, <2>4, <2>5 DEF Heads
<1>4. QuoteAt(r.head, f) \in Quotes
  BY <1>3, SmallValues DEF QuoteAt
<1>5. id.head = r.head /\ id.context = ContextOf(prior) /\ ContextOf(prior) \in Context
  BY <1>1, ContextType
<1>6. f \in absent => p.state = "open" /\ ~Supported(r.head, was, f)
  <2>1. f \in absent => /\ p.state = "open"
                        /\ \/ f \in grounded
                           \/ f \in loaded /\ code[r.head][f] # p.quote
    BY DEF ProvenAbsent
  <2>2. f \in grounded => f \in MissingTests /\ code[r.head][f] = 0
    OBVIOUS
  <2>3. f \in loaded => f \notin MissingTests
    BY DEF Fatal
  <2> HIDE DEF absent, p, was
  <2> QED BY <1>2, <2>1, <2>2, <2>3 DEF Supported
<1>7. f \in regressed => /\ p.refutedAt # r.head
                         /\ code[p.refutedAt][f] # code[r.head][f]
  BY DEF AddedSince
<1> HIDE DEF prior, id
<1>8. \/ n.state = p.state /\ n.refutedAt = p.refutedAt
      \/ n.state = "open" /\ (p.state = "refuted" => f \in regressed)
      \/ n.state = "resolved" /\ f \in absent /\ f \notin candidates
  <2> HIDE DEF absent
  <2> QED BY <1>1, <1>3, <1>4, <1>5, ReconciledOf
<1> HIDE DEF n, p, absent
<1>9. RefutedBy(n, r.head)
  BY <1>2, <1>3, <1>8 DEF RefutedBy
<1>10. ClosesForCause(f, was, n, r.head, code, DismissedFindings)
  BY <1>2, <1>6, <1>8 DEF ClosesForCause, Supported
<1>11. OpensForCause(f, was, n, r.head, code)
  <2>1. SUFFICES ASSUME was.state = "refuted", n.state # "refuted"
                 PROVE  n.state = "open" /\ r.head > was.refutedAt
                        /\ code[r.head][f] # code[was.refutedAt][f]
    BY DEF OpensForCause
  <2>2. p.state = "refuted" /\ p.refutedAt = was.refutedAt
    BY <1>2, <2>1
  <2>3. n.state = "open" /\ f \in regressed
    BY <1>6, <1>8, <2>1, <2>2
  <2>4. was.refutedAt \in 1..r.head /\ was.refutedAt # r.head
    BY <1>7, <2>1, <2>2, <2>3 DEF RefutedBy
  <2> QED BY <1>3, <1>7, <2>2, <2>3, <2>4
<1> QED BY <1>9, <1>10, <1>11 DEF n, absent, id, prior

(* What has a cause keeps it while HEADs are pushed and answers given.     *)
LEMMA CauseLasts ==
  ASSUME TypeOK, Grows, NEW r \in Review, Caused(r, CurrentHead, code, DismissedFindings)
  PROVE  Caused(r, CurrentHead', code', DismissedFindings')
<1>1. CurrentHead \in Nat /\ CurrentHead' \in Nat /\ CurrentHead' >= CurrentHead
  BY DEF TypeOK, Heads, Grows
<1>2. \A x : RefutedBy(x, CurrentHead) => RefutedBy(x, CurrentHead')
  BY <1>1 DEF RefutedBy
<1>3. r.head \in 1..CurrentHead => r.head \in 1..CurrentHead' /\ code'[r.head] = code[r.head]
  BY <1>1 DEF Grows
<1>4. ASSUME r.at = "upsert", NEW f \in Findings
      PROVE  /\ ClosesForCause(f, r.read[f], r.next[f], r.head, code', DismissedFindings')
             /\ OpensForCause(f, r.read[f], r.next[f], r.head, code')
  <2>1. /\ r.head \in 1..CurrentHead /\ code'[r.head] = code[r.head]
        /\ RefutedBy(r.read[f], r.head)
        /\ ClosesForCause(f, r.read[f], r.next[f], r.head, code, DismissedFindings)
        /\ OpensForCause(f, r.read[f], r.next[f], r.head, code)
    BY <1>3, <1>4 DEF Caused
  <2>2. f \in DismissedFindings => f \in DismissedFindings'
    BY DEF Grows
  <2>3. ClosesForCause(f, r.read[f], r.next[f], r.head, code', DismissedFindings')
    BY <2>1, <2>2 DEF ClosesForCause
  <2>4. ASSUME r.read[f].state = "refuted"
        PROVE  code'[r.read[f].refutedAt] = code[r.read[f].refutedAt]
    <3>1. r.read[f].refutedAt \in 1..CurrentHead
      BY <1>1, <2>1, <2>4 DEF RefutedBy
    <3> QED BY <3>1 DEF Grows
  <2> QED BY <2>1, <2>3, <2>4 DEF OpensForCause
<1> QED BY <1>2, <1>3, <1>4 DEF Caused

(* An idle handler has decided nothing.                                    *)
LEMMA IdleIsCaused ==
  ASSUME NEW current, NEW files, NEW dismissed
  PROVE  Caused(Idle, current, files, dismissed)
BY DEF Caused, Idle, NoRows, AbsentRow, RefutedBy

(* A step of v that writes no row.                                         *)
LEMMA CausedGoes ==
  ASSUME TypeOK, TypeOK', CauseInv, Grows, NEW v \in Reviewers, NEW r \in Review, Goes(v, r),
         Caused(r, CurrentHead, code, DismissedFindings), UNCHANGED rows
  PROVE  CauseInv' /\ RowsChangeForCause
<1>1. ASSUME NEW u \in Reviewers
      PROVE  Caused(review'[u], CurrentHead', code', DismissedFindings')
  <2>1. review'[u] \in Review /\ Caused(review'[u], CurrentHead, code, DismissedFindings)
    BY GoesToReview DEF CauseInv, TypeOK
  <2> QED BY <2>1, CauseLasts
<1>2. ASSUME NEW f \in Findings PROVE RefutedBy(rows'[f], CurrentHead')
  BY SMTT(30) DEF CauseInv, RefutedBy, Grows, TypeOK, Heads
<1> QED BY <1>1, <1>2 DEF CauseInv, RowsChangeForCause

(* Dismissals are kept by whatever keeps threads and adds to them.         *)
LEMMA DismissalsLast ==
  ASSUME TypeOK, DOMAIN threads \subseteq DOMAIN threads',
         \A t \in DOMAIN threads :
           /\ threads'[t].finding = threads[t].finding
           /\ threads[t].refuted => threads'[t].refuted
           /\ threads[t].resolvedBy = "human" => threads'[t].resolvedBy = "human"
  PROVE  DismissedFindings \subseteq DismissedFindings'
BY DEF DismissedFindings, ThreadsOf

(* Without a push, that is all it takes for causes to last.                *)
LEMMA GrowsQuietly ==
  ASSUME TypeOK, UNCHANGED code, DismissedFindings \subseteq DismissedFindings'
  PROVE  Grows
BY DEF Grows, TypeOK, CurrentHead, Heads

(* Nobody answered and nothing was pushed.                                 *)
LEMMA ThreadsKept ==
  ASSUME TypeOK, UNCHANGED <<code, threads>>
  PROVE  Grows
<1>1. DismissedFindings' = DismissedFindings
  BY DEF DismissedFindings, ThreadsOf
<1> QED BY <1>1, GrowsQuietly

(* A review that starts reads rows whose dismissals are of older HEADs.    *)
LEMMA StartCaused ==
  ASSUME TypeOK, TypeOK', CauseInv, NEW v \in Reviewers, Start(v)
  PROVE  CauseInv' /\ RowsChangeForCause
<1> DEFINE r == [Idle EXCEPT !.at = "threads", !.alone = Running = {},
                             !.head = CurrentHead, !.read = rows]
<1>1. /\ review' = [u \in Reviewers |-> IF u = v THEN r ELSE [review[u] EXCEPT !.alone = FALSE]]
      /\ UNCHANGED <<code, rows, threads>>
  BY DEF Start
<1>2. /\ r.at = "threads" /\ r.head = CurrentHead /\ r.read = rows /\ r.next = NoRows
  BY DEF Idle
<1> HIDE DEF r
<1>3. Grows /\ CurrentHead \in Nat \ {0}
  BY SMTT(30), <1>1, ThreadsKept DEF TypeOK, Heads
<1>4. Caused(r, CurrentHead, code, DismissedFindings)
  <2>1. \A f \in Findings : RefutedBy(r.next[f], CurrentHead)
    BY <1>2 DEF NoRows, AbsentRow, RefutedBy
  <2>2. \A f \in Findings : RefutedBy(r.read[f], r.head)
    BY <1>2 DEF CauseInv
  <2>3. r.head \in 1..CurrentHead /\ r.at # "upsert"
    BY <1>2, <1>3
  <2> QED BY <2>1, <2>2, <2>3, Zenon DEF Caused
<1>5. ASSUME NEW u \in Reviewers
      PROVE  Caused(review'[u], CurrentHead', code', DismissedFindings')
  <2>1. Caused(review'[u], CurrentHead, code, DismissedFindings)
    <3>1. CASE u = v
      BY <1>1, <1>4, <3>1
    <3>2. CASE u # v
      <4>1. review'[u] = [review[u] EXCEPT !.alone = FALSE] /\ review[u] \in Review
        BY <1>1, <3>2 DEF TypeOK
      <4>2. /\ review'[u].at = review[u].at /\ review'[u].head = review[u].head
            /\ review'[u].read = review[u].read /\ review'[u].next = review[u].next
        BY <4>1 DEF Review
      <4>3. Caused(review[u], CurrentHead, code, DismissedFindings)
        BY DEF CauseInv
      <4> QED BY <4>2, <4>3 DEF Caused
    <3> QED BY <3>1, <3>2
  <2>2. review'[u] \in Review
    BY DEF TypeOK
  <2> QED BY <1>3, <2>1, <2>2, CauseLasts
<1>6. ASSUME NEW f \in Findings PROVE RefutedBy(rows'[f], CurrentHead')
  BY <1>1 DEF CauseInv, CurrentHead
<1> QED BY <1>1, <1>5, <1>6 DEF CauseInv, RowsChangeForCause

(* Whatever the gate finds, what the review has decided has causes.        *)
LEMMA JudgesCaused ==
  ASSUME TypeOK, CauseInv, NEW v \in Reviewers, At(v, "threads"), ~Outdated(review[v]), Judges(v)
  PROVE  \E r \in Review : Goes(v, r) /\ Caused(r, CurrentHead, code, DismissedFindings)
<1> DEFINE old == review[v]
           Missing(sees, c, g, l) == ProvenAbsent(old.head, Prior(old, sees), c, g, l)
           Id(sees) == [head |-> old.head, context |-> ContextOf(Prior(old, sees))]
           Ledger(sees, c, d, g, l) ==
             Reconciled(Prior(old, sees), c, d, Missing(sees, c, g, l), Id(sees))
           New(sees, c, d, g, l, w, k) ==
             Judged(old, Prior(old, sees), Ledger(sees, c, d, g, l), c, w, k)
<1> DEFINE Unproven(c) == c \in SUBSET {f \in MissingTests : code[old.head][f] = 0}
<1>1. PICK sees, loaded, known, grounded, candidates, regressed, reworded :
        /\ sees \in BOOLEAN /\ loaded \in SUBSET Fatal
        /\ Unproven(grounded)
        /\ regressed \in SUBSET AddedSince(old.head, Prior(old, sees), candidates)
        /\ Goes(v, New(sees, candidates, regressed, grounded, loaded, reworded, known))
  <2>1. PICK sees \in BOOLEAN, loaded \in SUBSET Fatal :
          \E known \in {Known(sees, seesComments) : seesComments \in BOOLEAN},
             grounded \in SUBSET {f \in MissingTests : code[old.head][f] = 0},
             raised \in SUBSET loaded :
          \E missing \in SUBSET (MissingTests \ grounded) :
          \E regressed \in SUBSET AddedSince(old.head, Prior(old, sees), raised \cup missing) :
          \E reworded \in SUBSET
               {f \in Open(Ledger(sees, raised \cup missing, regressed, grounded, loaded))
                        \cap (raised \cup missing) : Prior(old, sees)[f].state = "open"} :
            Goes(v, New(sees, raised \cup missing, regressed, grounded, loaded, reworded, known))
    BY DEF Judges
  <2> HIDE DEF New, Ledger, old
  <2>2. PICK known, grounded, raised, missing :
          /\ Unproven(grounded)
          /\ \E regressed \in SUBSET AddedSince(old.head, Prior(old, sees), raised \cup missing) :
             \E reworded \in SUBSET
                  {f \in Open(Ledger(sees, raised \cup missing, regressed, grounded, loaded))
                           \cap (raised \cup missing) : Prior(old, sees)[f].state = "open"} :
               Goes(v, New(sees, raised \cup missing, regressed, grounded, loaded, reworded, known))
    BY <2>1
  <2> HIDE DEF Unproven
  <2> QED BY <2>1, <2>2
<1> DEFINE ledger == Ledger(sees, candidates, regressed, grounded, loaded)
           new == New(sees, candidates, regressed, grounded, loaded, reworded, known)
<1>2. PICK r : Goes(v, r) /\ Decided(old, r)
  BY JudgedIsDecided
<1>3. r = new /\ r \in Review /\ r.at = "upsert" /\ r.head = old.head /\ r.read = old.read
  <2>1. r \in Review /\ r.at = "upsert" /\ r.head = old.head /\ r.read = old.read
    BY <1>2 DEF Decided
  <2>2. v \in DOMAIN review
    BY DEF TypeOK
  <2>3. review' = [review EXCEPT ![v] = r] /\ review' = [review EXCEPT ![v] = new]
    BY <1>1, <1>2 DEF Goes
  <2> HIDE DEF new
  <2>4. review'[v] = r /\ review'[v] = new
    BY <2>2, <2>3
  <2> QED BY <2>1, <2>4
<1>4. new.next = ledger
  <2>1. old \in Review
    BY HeadOfReview
  <2> HIDE DEF old, ledger
  <2> QED BY <2>1 DEF Judged, Review, ledger
<1>5. /\ old \in Review /\ old.head \in 1..CurrentHead
      /\ \A f \in Findings : RefutedBy(old.read[f], old.head)
  BY HeadOfReview DEF CauseInv, Caused, At
<1>6. ASSUME NEW f \in Findings
      PROVE  /\ RefutedBy(ledger[f], old.head)
             /\ ClosesForCause(f, old.read[f], ledger[f], old.head, code, DismissedFindings)
             /\ OpensForCause(f, old.read[f], ledger[f], old.head, code)
  <2>1. RefutedBy(old.read[f], old.head)
    BY <1>5
  <2> HIDE DEF old
  <2> QED BY <1>1, <1>5, <2>1, DecidedForCause DEF old
<1> HIDE DEF old, ledger, new
<1>7. CurrentHead \in Nat
  BY DEF TypeOK, Heads
<1>8. \A f \in Findings : RefutedBy(r.next[f], CurrentHead)
  BY <1>3, <1>4, <1>5, <1>6, <1>7 DEF RefutedBy
<1>9. Caused(r, CurrentHead, code, DismissedFindings)
  BY <1>3, <1>4, <1>5, <1>6, <1>8 DEF Caused
<1> QED BY <1>2, <1>3, <1>9

(* Judging decides only what has a cause.                                  *)
LEMMA JudgeCaused ==
  ASSUME TypeOK, TypeOK', CauseInv, NEW v \in Reviewers, Judge(v)
  PROVE  CauseInv' /\ RowsChangeForCause
<1>1. PICK r \in Review : Goes(v, r) /\ Caused(r, CurrentHead, code, DismissedFindings)
  BY JudgesCaused, IdleIsReview, IdleIsCaused DEF Judge
<1> QED BY <1>1, CausedGoes, ThreadsKept DEF Judge

(* After the write nothing is decided any more; dismissals in what is left *)
(* are those that were there.                                              *)
LEMMA QuietStepCaused ==
  ASSUME TypeOK, TypeOK', CauseInv, Grows, NEW v \in Reviewers, UNCHANGED rows,
         NEW r \in Review, Goes(v, r), r.at \notin {"threads", "upsert"},
         \A f \in Findings : \/ r.next[f].state = "absent"
                             \/ /\ r.next[f].state = review[v].next[f].state
                                /\ r.next[f].refutedAt = review[v].next[f].refutedAt
  PROVE  CauseInv' /\ RowsChangeForCause
<1>1. \A f \in Findings : RefutedBy(review[v].next[f], CurrentHead)
  BY DEF CauseInv, Caused
<1>2. \A f \in Findings : RefutedBy(r.next[f], CurrentHead)
  BY <1>1 DEF RefutedBy
<1>3. Caused(r, CurrentHead, code, DismissedFindings)
  BY <1>2 DEF Caused
<1> QED BY <1>3, CausedGoes

(* A review that gives up.                                                 *)
LEMMA IdleStepCaused ==
  ASSUME TypeOK, TypeOK', CauseInv, Grows, NEW v \in Reviewers, UNCHANGED rows, Goes(v, Idle)
  PROVE  CauseInv' /\ RowsChangeForCause
BY CausedGoes, IdleIsCaused, IdleIsReview

(* A row that is accepted over the row the review read has its cause, or   *)
(* the row was the twin of the one read.                                   *)
LEMMA UpsertCaused ==
  ASSUME EvaluationInv, TypeOK', CauseInv, NEW v \in Reviewers, Upsert(v)
  PROVE  CauseInv' /\ RowsChangeForCause
<1> DEFINE r == review[v]
           f == FirstOf(Todo(r))
           next == [r EXCEPT !.todo = f + 1]
           row == Stored(r.next[f], rows[f])
<1>1. /\ TypeOK /\ Grows /\ r \in Review /\ f \in Findings /\ f \in Nat
      /\ r.next[f].state # "absent" /\ r.at = "upsert" /\ f >= r.todo
  <2>1. TypeOK /\ Todo(r) # {} /\ r.at = "upsert"
    BY DEF EvaluationInv, Upsert, At
  <2>2. f \in Todo(r)
    <3>1. Todo(r) \in SUBSET Findings
      BY DEF Todo
    <3> QED BY <2>1, <3>1, FirstOfIsIn
  <2>3. f \in Findings /\ f >= r.todo /\ r.next[f].state # "absent"
    BY <2>2 DEF Todo
  <2> QED BY <2>1, <2>3, HeadOfReview, ThreadsKept DEF Upsert
<1>2. CASE Goes(v, Idle) /\ UNCHANGED rows
  BY <1>1, <1>2, IdleStepCaused
<1>3. CASE /\ Accepts(rows[f], r.read[f], r.next[f])
           /\ rows' = [rows EXCEPT ![f] = row] /\ Goes(v, next)
  <2>1. /\ r.next[f] \in Row /\ rows \in [Findings -> Row] /\ r.todo \in Nat
        /\ r.read[f] \in Row /\ r.next[f].evaluated = r.head
    <3>1. r.next[f].evaluated = r.head
      BY <1>1 DEF EvaluationInv, Timely
    <3> QED BY <1>1, <3>1 DEF TypeOK, Review
  <2>2. /\ row.state = r.next[f].state /\ row.refutedAt = r.next[f].refutedAt
        /\ row.evaluated = r.head
    BY <2>1 DEF Stored, Row
  <2>3. /\ next \in Review /\ next.at = r.at /\ next.head = r.head /\ next.todo # r.todo
        /\ next.read = r.read /\ next.next = r.next
    BY <1>1, <2>1 DEF Review
  <2>4. Caused(r, CurrentHead, code, DismissedFindings)
    BY DEF CauseInv
  <2>5. Caused(next, CurrentHead, code, DismissedFindings)
    BY <2>3, <2>4 DEF Caused
  <2>6. review' \in [Reviewers -> Review] /\ review'[v] = next
        /\ \A u \in Reviewers \ {v} : review'[u] = review[u]
    BY <1>1, <1>3, <2>3, GoesToReview
  <2>7. KnownRow(r, f) = r.read[f] /\ review'[v] # review[v]
    BY <1>1, <2>3, <2>6 DEF KnownRow
  <2>8. rows'[f] = row /\ \A g \in Findings \ {f} : rows'[g] = rows[g]
    BY <1>1, <1>3, <2>1
  <2> HIDE DEF f, next, row
  <2>9. ASSUME NEW u \in Reviewers
        PROVE  Caused(review'[u], CurrentHead', code', DismissedFindings')
    <3>1. review'[u] \in Review /\ Caused(review'[u], CurrentHead, code, DismissedFindings)
      BY <2>5, <2>6 DEF CauseInv
    <3> QED BY <1>1, <3>1, CauseLasts
  <2>10. ASSUME NEW g \in Findings PROVE RefutedBy(rows'[g], CurrentHead')
    <3>1. RefutedBy(rows'[g], CurrentHead)
      <4>1. RefutedBy(r.next[f], CurrentHead) /\ RefutedBy(rows[g], CurrentHead)
        BY <1>1, <2>4 DEF Caused, CauseInv
      <4> HIDE DEF r
      <4> QED BY <1>1, <2>2, <2>8, <4>1 DEF RefutedBy
    <3>2. CurrentHead' = CurrentHead
      BY DEF Upsert, CurrentHead
    <3> QED BY <3>1, <3>2
  <2>11. ASSUME ~OverwritesTwin(f)
         PROVE  /\ ClosesForCause(f, rows[f], row, row.evaluated, code, DismissedFindings)
                /\ OpensForCause(f, rows[f], row, row.evaluated, code)
    <3>1. ~IsTwin(rows[f], r.read[f])
      BY <2>7, <2>11 DEF OverwritesTwin
    <3>2. /\ ClosesForCause(f, r.read[f], r.next[f], r.head, code, DismissedFindings)
          /\ OpensForCause(f, r.read[f], r.next[f], r.head, code)
      BY <1>1, <2>4 DEF Caused
    <3> HIDE DEF r
    <3>3. CASE SameSnapshot(rows[f], r.read[f])
      <4>1. /\ rows[f].state = r.read[f].state /\ rows[f].quote = r.read[f].quote
            /\ rows[f].refutedAt = r.read[f].refutedAt
        BY <3>1, <3>3 DEF IsTwin, SameSnapshot
      <4> QED BY <2>2, <3>2, <4>1 DEF ClosesForCause, OpensForCause
    <3>4. CASE ~SameSnapshot(rows[f], r.read[f])
      <4>1. rows[f].state \in {"absent", row.state}
        BY <1>3, <2>2, <3>4 DEF Accepts
      <4> QED BY <4>1 DEF ClosesForCause, OpensForCause
    <3> QED BY <3>3, <3>4
  <2>12. RowsChangeForCause
    BY <2>8, <2>11 DEF RowsChangeForCause
  <2> QED BY <2>9, <2>10, <2>12 DEF CauseInv
<1> QED BY <1>2, <1>3 DEF Upsert

(* The second listing, the closing of threads, the publication and the     *)
(* listing of the new threads write no row.                                *)
LEMMA RelistCaused ==
  ASSUME TypeOK, TypeOK', CauseInv, NEW v \in Reviewers, Relist(v)
  PROVE  CauseInv' /\ RowsChangeForCause
<1> DEFINE r == review[v]
           at == IF r.closing = {} THEN "publish" ELSE "settle"
           next == IF r.post = {} THEN NoRows ELSE r.next
           new == [r EXCEPT !.at = at, !.read = NoRows, !.todo = 0, !.next = next]
<1>1. /\ r \in Review /\ at \in {"publish", "settle"} /\ UNCHANGED rows /\ Grows
      /\ next \in [Findings -> Row] /\ NoRows \in [Findings -> Row]
  BY HeadOfReview, AbsentIsRow, ThreadsKept DEF Relist, Review
<1>2. Goes(v, new) \/ Goes(v, Idle)
  BY DEF Relist
<1>3. \A f \in Findings : next[f].state = "absent" \/ next[f] = r.next[f]
  BY DEF NoRows, AbsentRow
<1> HIDE DEF at, next
<1>4. new \in Review /\ new.at = at /\ new.next = next
  BY <1>1 DEF Review
<1> HIDE DEF new
<1>5. \A f \in Findings : \/ new.next[f].state = "absent"
                          \/ /\ new.next[f].state = review[v].next[f].state
                             /\ new.next[f].refutedAt = review[v].next[f].refutedAt
  BY <1>3, <1>4
<1>6. CASE Goes(v, new)
  BY <1>1, <1>4, <1>5, <1>6, QuietStepCaused
<1> QED BY <1>1, <1>2, <1>6, IdleStepCaused

(* Settling the threads decides nothing new.                               *)
LEMMA SettleThreadsCaused ==
  ASSUME TypeOK, TypeOK', CauseInv, NEW v \in Reviewers, SettleThreads(v)
  PROVE  CauseInv' /\ RowsChangeForCause
<1> DEFINE new == [review[v] EXCEPT !.at = "publish", !.closing = {}]
<1>1. UNCHANGED <<code, rows>> /\ review[v] \in Review
  BY HeadOfReview DEF SettleThreads
<1>2. Goes(v, new) \/ Goes(v, Idle)
  BY DEF SettleThreads
<1>3. new \in Review /\ new.at = "publish" /\ new.next = review[v].next
  BY <1>1 DEF Review
<1> HIDE DEF new
<1>4. Grows
  <2>1. PICK closed : threads' = [t \in DOMAIN threads |->
                     IF t \in closed /\ threads[t].resolvedBy = "nobody"
                     THEN [threads[t] EXCEPT !.resolvedBy = "bot"] ELSE threads[t]]
    BY DEF SettleThreads
  <2>2. \A t \in DOMAIN threads : threads[t] \in ThreadRecord
    BY DEF TypeOK
  <2>3. ASSUME NEW t \in DOMAIN threads
        PROVE  /\ threads'[t].finding = threads[t].finding
               /\ threads[t].refuted => threads'[t].refuted
               /\ threads[t].resolvedBy = "human" => threads'[t].resolvedBy = "human"
    <3>1. LET x == [threads[t] EXCEPT !.resolvedBy = "bot"] IN
          x.finding = threads[t].finding /\ x.refuted = threads[t].refuted
      BY <2>2 DEF ThreadRecord
    <3> QED BY <2>1, <3>1
  <2>4. DismissedFindings \subseteq DismissedFindings'
    BY <2>1, <2>3, DismissalsLast
  <2> QED BY <1>1, <2>4, GrowsQuietly
<1>5. CASE Goes(v, new)
  BY <1>1, <1>3, <1>4, <1>5, QuietStepCaused
<1> QED BY <1>1, <1>2, <1>4, <1>5, IdleStepCaused

(* Nor does asking for changes.                                            *)
LEMMA RequestChangesCaused ==
  ASSUME TypeOK, TypeOK', CauseInv, NEW v \in Reviewers, RequestChanges(v)
  PROVE  CauseInv' /\ RowsChangeForCause
<1> DEFINE new == [Idle EXCEPT !.at = "refresh", !.next = review[v].next]
<1>1. UNCHANGED <<code, rows>> /\ review[v] \in Review
  BY HeadOfReview DEF RequestChanges
<1>2. Goes(v, new) \/ Goes(v, Idle)
  BY DEF RequestChanges
<1>3. new \in Review
  BY <1>1, IdleIsReview DEF Review
<1>4. new.at = "refresh" /\ new.next = review[v].next
  BY DEF Idle
<1> HIDE DEF new
<1>5. Grows
  <2>1. UNCHANGED threads \/ \E more : threads' = threads \o more /\ more \in Seq(ThreadRecord)
    <3>1. CASE OpensThreads(review[v].post \cap Fatal)
      <4> DEFINE S == review[v].post \cap Fatal
      <4>1. PICK order \in [1..Cardinality(S) -> S] :
              threads' = threads \o [i \in DOMAIN order |-> NewThread(order[i])]
        BY <3>1 DEF OpensThreads
      <4>2. Cardinality(S) \in Nat
        <5>1. IsFiniteSet(S)
          BY FS_Subset DEF Fatal
        <5> QED BY <5>1, FS_CardinalityType
      <4>3. \A i \in 1..Cardinality(S) : NewThread(order[i]) \in ThreadRecord
        BY DEF NewThread, ThreadRecord
      <4>4. DOMAIN order = 1..Cardinality(S)
        OBVIOUS
      <4> DEFINE n == Cardinality(S)
      <4> HIDE DEF n
      <4>5. [i \in 1..n |-> NewThread(order[i])] \in Seq(ThreadRecord)
        <5>1. n \in Nat
          BY <4>2 DEF n
        <5>2. \A i \in 1..n : NewThread(order[i]) \in ThreadRecord
          BY <4>3 DEF n
        <5> HIDE DEF S
        <5> QED BY <5>1, <5>2
      <4> QED BY <4>1, <4>4, <4>5 DEF n
    <3> QED BY <3>1 DEF RequestChanges
  <2>2. DismissedFindings \subseteq DismissedFindings'
    <3>1. CASE UNCHANGED threads
      BY <3>1 DEF DismissedFindings, ThreadsOf
    <3>2. ASSUME NEW more \in Seq(ThreadRecord), threads' = threads \o more
          PROVE  DismissedFindings \subseteq DismissedFindings'
      <4>1. threads \in Seq(ThreadRecord)
        BY DEF TypeOK
      <4>2. DOMAIN threads \subseteq DOMAIN threads' /\ \A t \in DOMAIN threads : threads'[t] = threads[t]
        BY <3>2, <4>1
      <4> QED BY <4>2, DismissalsLast
    <3> QED BY <2>1, <3>1, <3>2
  <2> QED BY <1>1, <2>2, GrowsQuietly
<1>6. CASE Goes(v, new)
  BY <1>1, <1>3, <1>4, <1>5, <1>6, QuietStepCaused
<1> QED BY <1>1, <1>2, <1>5, <1>6, IdleStepCaused

(* The threads that are looked up again come with the rows that were       *)
(* written.                                                                *)
LEMMA RefreshThreadsCaused ==
  ASSUME TypeOK, TypeOK', CauseInv, NEW v \in Reviewers, RefreshThreads(v)
  PROVE  CauseInv' /\ RowsChangeForCause
<1> DEFINE r == review[v]
           next == [f \in Findings |-> IF ThreadsOf(f) = {} THEN AbsentRow
                                       ELSE [r.next[f] EXCEPT !.thread = LastThread(f)]]
           new == [r EXCEPT !.at = "attach", !.next = next]
<1>1. UNCHANGED rows /\ r \in Review /\ Grows
  BY HeadOfReview, ThreadsKept DEF RefreshThreads
<1>2. Goes(v, new) \/ Goes(v, Idle)
  BY DEF RefreshThreads
<1>3. ASSUME NEW f \in Findings
      PROVE  /\ next[f] \in Row
             /\ \/ next[f].state = "absent"
                \/ next[f].state = r.next[f].state /\ next[f].refutedAt = r.next[f].refutedAt
  <2>1. r.next[f] \in Row
    BY <1>1 DEF Review
  <2>2. CASE ThreadsOf(f) = {}
    BY <2>2, AbsentIsRow DEF AbsentRow
  <2>3. CASE ThreadsOf(f) # {}
    <3>1. [r.next[f] EXCEPT !.thread = LastThread(f)] \in Row
      BY <2>1, <2>3, LastThreadType, DismissedRow, SmallValues
    <3>2. LET x == [r.next[f] EXCEPT !.thread = LastThread(f)] IN
          x.state = r.next[f].state /\ x.refutedAt = r.next[f].refutedAt
      BY <2>1 DEF Row
    <3> QED BY <2>3, <3>1, <3>2
  <2> QED BY <2>2, <2>3
<1>4. next \in [Findings -> Row]
  BY <1>3
<1> HIDE DEF next
<1>5. new \in Review /\ new.at = "attach" /\ new.next = next
  BY <1>1, <1>4 DEF Review
<1> HIDE DEF new
<1>6. CASE Goes(v, new)
  BY <1>1, <1>3, <1>5, <1>6, QuietStepCaused
<1> QED BY <1>1, <1>2, <1>6, IdleStepCaused

(* A thread's id is attached to a row of the same evaluation: the row that *)
(* was written keeps its state, or it is a twin.                           *)
LEMMA AttachThreadCaused ==
  ASSUME TypeOK, TypeOK', CauseInv, NEW v \in Reviewers, AttachThread(v)
  PROVE  CauseInv' /\ RowsChangeForCause
<1> DEFINE r == review[v]
           f == FirstOf(Todo(r))
           new == [r EXCEPT !.todo = f + 1]
<1>1. UNCHANGED code /\ Grows /\ r \in Review /\ r.at = "attach"
  BY HeadOfReview, ThreadsKept DEF AttachThread, At
<1>2. CASE Todo(r) = {}
  BY <1>1, <1>2, IdleStepCaused DEF AttachThread
<1>3. CASE Todo(r) # {}
  <2>1. f \in Findings /\ f \in Nat /\ f >= r.todo /\ r.next[f].state # "absent"
    <3>1. f \in Todo(r)
      <4>1. Todo(r) \in SUBSET Findings
        BY DEF Todo
      <4> QED BY <1>3, <4>1, FirstOfIsIn
    <3> QED BY <3>1 DEF Todo
  <2>2. /\ Goes(v, new)
        /\ rows' = IF Accepts(rows[f], r.next[f], r.next[f])
                   THEN [rows EXCEPT ![f] = r.next[f]] ELSE rows
    BY <1>3 DEF AttachThread
  <2>3. rows \in [Findings -> Row] /\ r.todo \in Nat
    BY <1>1 DEF TypeOK, Review
  <2>4. Caused(r, CurrentHead, code, DismissedFindings)
    BY DEF CauseInv
  <2> HIDE DEF f
  <2>5. /\ new \in Review /\ new.at = r.at /\ new.next = r.next /\ new.todo # r.todo
    BY <1>1, <2>1, <2>3 DEF Review
  <2>6. Caused(new, CurrentHead, code, DismissedFindings)
    BY <1>1, <2>4, <2>5 DEF Caused
  <2>7. /\ review' \in [Reviewers -> Review] /\ review'[v] = new
        /\ \A u \in Reviewers \ {v} : review'[u] = review[u]
    BY <2>2, <2>5, GoesToReview
  <2>8. KnownRow(r, f) = r.next[f] /\ review'[v] # review[v]
    BY <1>1, <2>5, <2>7 DEF KnownRow
  <2>9. /\ rows'[f] = IF Accepts(rows[f], r.next[f], r.next[f]) THEN r.next[f] ELSE rows[f]
        /\ \A g \in Findings \ {f} : rows'[g] = rows[g]
    BY <2>1, <2>2, <2>3
  <2> HIDE DEF new
  <2>10. ASSUME NEW u \in Reviewers
         PROVE  Caused(review'[u], CurrentHead', code', DismissedFindings')
    <3>1. review'[u] \in Review /\ Caused(review'[u], CurrentHead, code, DismissedFindings)
      BY <2>6, <2>7 DEF CauseInv
    <3> QED BY <1>1, <3>1, CauseLasts
  <2>11. ASSUME NEW g \in Findings PROVE RefutedBy(rows'[g], CurrentHead')
    <3>1. RefutedBy(r.next[f], CurrentHead) /\ RefutedBy(rows[g], CurrentHead)
      BY <2>1, <2>4 DEF Caused, CauseInv
    <3>2. rows'[g] \in {rows[g], r.next[f]} /\ CurrentHead' = CurrentHead
      BY <1>1, <2>9 DEF CurrentHead
    <3> QED BY <3>1, <3>2
  <2>12. ASSUME ~OverwritesTwin(f), rows'[f] # rows[f]
         PROVE  /\ ClosesForCause(f, rows[f], rows'[f], rows'[f].evaluated, code, DismissedFindings)
                /\ OpensForCause(f, rows[f], rows'[f], rows'[f].evaluated, code)
    <3>1. ~IsTwin(rows[f], r.next[f])
      BY <2>8, <2>12 DEF OverwritesTwin
    <3>2. rows'[f] = r.next[f] /\ Accepts(rows[f], r.next[f], r.next[f])
      BY <2>9, <2>12
    <3>3. rows[f].state \in {"absent", rows'[f].state}
      BY <3>1, <3>2 DEF Accepts, SameSnapshot, IsTwin
    <3> QED BY <3>3 DEF ClosesForCause, OpensForCause
  <2>13. RowsChangeForCause
    BY <2>9, <2>12 DEF RowsChangeForCause
  <2> QED BY <2>10, <2>11, <2>13 DEF CauseInv
<1> QED BY <1>2, <1>3

(* A step that no review takes.                                            *)
LEMMA ReviewsKeptCaused ==
  ASSUME TypeOK, TypeOK', CauseInv, Grows, UNCHANGED <<rows, review>>
  PROVE  CauseInv' /\ RowsChangeForCause
<1>1. ASSUME NEW u \in Reviewers
      PROVE  Caused(review'[u], CurrentHead', code', DismissedFindings')
  <2>1. review'[u] \in Review /\ Caused(review'[u], CurrentHead, code, DismissedFindings)
    BY DEF CauseInv, TypeOK
  <2> QED BY <2>1, CauseLasts
<1>2. ASSUME NEW f \in Findings PROVE RefutedBy(rows'[f], CurrentHead')
  BY DEF CauseInv, RefutedBy, Grows, TypeOK, Heads
<1> QED BY <1>1, <1>2 DEF CauseInv, RowsChangeForCause

(* A push and an answer take no cause away.                                *)
LEMMA PushGrows ==
  ASSUME TypeOK, Push
  PROVE  Grows
<1>1. PICK files \in Files : code' = Append(code, files)
  BY DEF Push
<1>2. files \in [Findings -> Quotes] /\ code \in Seq([Findings -> Quotes]) /\ CurrentHead = Len(code)
  BY DEF Files, TypeOK, CurrentHead
<1>3. /\ CurrentHead' = CurrentHead + 1 /\ CurrentHead \in Nat
      /\ \A h \in 1..CurrentHead : code'[h] = code[h]
  BY <1>1, <1>2 DEF CurrentHead
<1>4. DismissedFindings' = DismissedFindings
  BY DEF Push, DismissedFindings, ThreadsOf
<1> QED BY <1>3, <1>4 DEF Grows

LEMMA MaintainerAnswersGrows ==
  ASSUME TypeOK, MaintainerAnswers
  PROVE  Grows
<1>1. PICK t \in DOMAIN threads :
        \/ threads' = [threads EXCEPT ![t].refuted = TRUE]
        \/ threads' = [threads EXCEPT ![t].resolvedBy = "human"]
  BY DEF MaintainerAnswers
<1>2. \A u \in DOMAIN threads : threads[u] \in ThreadRecord
  BY DEF TypeOK
<1>3. \A x \in ThreadRecord :
        LET a == [x EXCEPT !.refuted = TRUE]
            b == [x EXCEPT !.resolvedBy = "human"] IN
        /\ a.finding = x.finding /\ a.refuted /\ a.resolvedBy = x.resolvedBy
        /\ b.finding = x.finding /\ b.refuted = x.refuted /\ b.resolvedBy = "human"
  BY DEF ThreadRecord
<1>4. /\ DOMAIN threads' = DOMAIN threads
      /\ \A u \in DOMAIN threads : u # t => threads'[u] = threads[u]
      /\ \/ threads'[t] = [threads[t] EXCEPT !.refuted = TRUE]
         \/ threads'[t] = [threads[t] EXCEPT !.resolvedBy = "human"]
  BY <1>1
<1>5. ASSUME NEW u \in DOMAIN threads
      PROVE  /\ threads'[u].finding = threads[u].finding
             /\ threads[u].refuted => threads'[u].refuted
             /\ threads[u].resolvedBy = "human" => threads'[u].resolvedBy = "human"
  <2>1. CASE u # t
    BY <1>4, <2>1
  <2>2. CASE u = t /\ threads'[t] = [threads[t] EXCEPT !.refuted = TRUE]
    BY <1>2, <1>3, <2>2
  <2>3. CASE u = t /\ threads'[t] = [threads[t] EXCEPT !.resolvedBy = "human"]
    BY <1>2, <1>3, <2>3
  <2> QED BY <1>4, <2>1, <2>2, <2>3
<1>6. DismissedFindings \subseteq DismissedFindings'
  BY <1>4, <1>5, DismissalsLast
<1> QED BY <1>6, GrowsQuietly DEF MaintainerAnswers

(* Hence every step changes the rows for a cause, or overwrites a twin.    *)
LEMMA StepCaused ==
  ASSUME EvaluationInv, TypeOK', CauseInv, [Next]_vars
  PROVE  CauseInv' /\ RowsChangeForCause
<1>1. TypeOK
  BY DEF EvaluationInv
<1>2. ASSUME NEW v \in Reviewers, Step(v) PROVE CauseInv' /\ RowsChangeForCause
  <2>1. CASE Conclude(v) \/ Stops(v)
    BY <1>1, <2>1, IdleStepCaused, ThreadsKept DEF Conclude, Stops
  <2> QED BY <1>1, <1>2, <2>1, StartCaused, JudgeCaused, UpsertCaused, RelistCaused,
             SettleThreadsCaused, RequestChangesCaused, RefreshThreadsCaused,
             AttachThreadCaused DEF Step
<1>3. CASE Push
  BY <1>1, <1>3, PushGrows, ReviewsKeptCaused DEF Push
<1>4. CASE MaintainerAnswers
  BY <1>1, <1>4, MaintainerAnswersGrows, ReviewsKeptCaused DEF MaintainerAnswers
<1>5. CASE AtRest \/ UNCHANGED vars
  BY <1>1, <1>5, ThreadsKept, ReviewsKeptCaused DEF AtRest, vars
<1> QED BY <1>2, <1>3, <1>4, <1>5 DEF Next

(* At the start there is nothing to close.                                 *)
LEMMA InitCaused == Init => CauseInv
<1> SUFFICES ASSUME Init PROVE CauseInv
  OBVIOUS
<1>1. \A f \in Findings : RefutedBy(rows[f], CurrentHead)
  BY DEF Init, NoRows, AbsentRow, RefutedBy
<1>2. \A v \in Reviewers : review[v] = Idle
  BY DEF Init
<1> QED BY <1>1, <1>2, IdleIsCaused DEF CauseInv

CausesInv == EvaluationInv /\ CauseInv

(* One step of the system.                                                 *)
LEMMA CausesInductive == CausesInv /\ [Next]_vars => CausesInv' /\ RowsChangeForCause
<1> SUFFICES ASSUME CausesInv, [Next]_vars PROVE CausesInv' /\ RowsChangeForCause
  OBVIOUS
<1>1. EvaluationInv' /\ TypeOK'
  BY StepAdvances DEF CausesInv, EvaluationInv
<1> QED BY <1>1, StepCaused DEF CausesInv

(* Unless its row is the twin of the one the review knows, an open finding *)
(* is closed only because its evidence is gone from the HEAD it was        *)
(* evaluated at, or because a maintainer dismissed it.                     *)
THEOREM OpenFindingsEndForCause == Spec => OpenEndsForCause
<1> DEFINE A == \A f \in Findings :
             (rows[f].state = "open" /\ rows'[f].state # "open" /\ ~OverwritesTwin(f)) =>
               \/ rows'[f].state = "resolved" /\ ~Supported(rows'[f].evaluated, rows[f], f)
               \/ rows'[f].state = "refuted" /\ \E t \in ThreadsOf(f) :
                    threads[t].refuted \/ threads[t].resolvedBy = "human"
<1>1. CausesInv /\ [Next]_vars => CausesInv'
  BY CausesInductive
<1>2. CausesInv /\ [Next]_vars => A
  <2> SUFFICES ASSUME CausesInv, [Next]_vars, NEW f \in Findings,
                      rows[f].state = "open", rows'[f].state # "open", ~OverwritesTwin(f)
               PROVE  \/ rows'[f].state = "resolved" /\ ~Supported(rows'[f].evaluated, rows[f], f)
                      \/ rows'[f].state = "refuted" /\ \E t \in ThreadsOf(f) :
                           threads[t].refuted \/ threads[t].resolvedBy = "human"
    OBVIOUS
  <2>1. ClosesForCause(f, rows[f], rows'[f], rows'[f].evaluated, code, DismissedFindings)
    BY CausesInductive DEF RowsChangeForCause
  <2> QED BY <2>1 DEF ClosesForCause, Supported, DismissedFindings
<1>3. Init => CausesInv
  BY InitEvaluation, InitCaused DEF CausesInv
<1>4. CausesInv /\ [Next]_vars => [A]_vars
  BY <1>2
<1> QED BY <1>1, <1>3, <1>4, PTL DEF Spec, OpenEndsForCause

(* Unless its row is such a twin, a refuted finding is opened again only   *)
(* by the evaluation of a later HEAD whose lines differ.                   *)
THEOREM RefutationsStand == Spec => RefutedStaysRefuted
<1> DEFINE A == \A f \in Findings :
             (rows[f].state = "refuted" /\ rows'[f].state # "refuted" /\ ~OverwritesTwin(f)) =>
               /\ rows'[f].state = "open" /\ rows'[f].evaluated > rows[f].refutedAt
               /\ code[rows'[f].evaluated][f] # code[rows[f].refutedAt][f]
<1>1. CausesInv /\ [Next]_vars => CausesInv'
  BY CausesInductive
<1>2. CausesInv /\ [Next]_vars => A
  <2> SUFFICES ASSUME CausesInv, [Next]_vars, NEW f \in Findings,
                      rows[f].state = "refuted", rows'[f].state # "refuted", ~OverwritesTwin(f)
               PROVE  /\ rows'[f].state = "open" /\ rows'[f].evaluated > rows[f].refutedAt
                      /\ code[rows'[f].evaluated][f] # code[rows[f].refutedAt][f]
    OBVIOUS
  <2>1. OpensForCause(f, rows[f], rows'[f], rows'[f].evaluated, code)
    BY CausesInductive DEF RowsChangeForCause
  <2> QED BY <2>1 DEF OpensForCause
<1>3. Init => CausesInv
  BY InitEvaluation, InitCaused DEF CausesInv
<1>4. CausesInv /\ [Next]_vars => [A]_vars
  BY <1>2
<1> QED BY <1>1, <1>3, <1>4, PTL DEF Spec, RefutedStaysRefuted

=============================================================================
