------------------------------- MODULE ReviewGate -------------------------------
(***************************************************************************)
(* The conservative gate over the reviews of one pull request: what one    *)
(* runStructuredReview (src/src/bot.ts) takes from the recorded runs of    *)
(* earlier ones, what it asks of the model, how it comes to its verdict,   *)
(* and what it records for later ones. Reviews run one after another: what *)
(* two of them do to the ledger side by side is FindingLedger's subject,   *)
(* the check run and the approval ReviewJobs'. In guide mode the same run  *)
(* is recorded, but its ledger is not kept; it is not modelled here.       *)
(*                                                                         *)
(* An answer of the model is any that the strict parser lets through. What *)
(* a criterion or a finding is called is its number; the pull request's    *)
(* text only counts how often it was reworded.                             *)
(***************************************************************************)
EXTENDS GateGrounding

CONSTANTS
  Peripheral,      \* criteria of wording or layout (isPeripheralAcceptanceCriterion)
  Pushes,          \* <<f, g>>: from the files f a push may make g
  Answers,         \* what the two passes may answer
  Checks,          \* what a verifier may answer
  EarlierRounds,   \* turns published before a change of the prompt version,
                   \* whose recorded runs no longer count
  MaxChanges,      \* bound: pushes and rewordings of the criteria
  MaxRows,         \* bound: recorded runs
  MaxFaults        \* bound: failed calls, crashes and stops

MaxCandidates == 2
MinRoundForAbstain == 3

(* validateCandidateResult and validateVerificationResult: one row per     *)
(* criterion, evidence exactly for what is covered; ids in order; a test   *)
(* reported missing only where the coverage says so; a defect with its     *)
(* root among its lines; one verification per candidate, in their order,   *)
(* which rests on code where it confirms a defect or rejects anything.     *)
CoverageShape(coverage) ==
  \A k \in Criteria :
    /\ coverage[k].status \in {"covered", "missing", "unknown"}
    /\ (coverage[k].status = "covered") <=> (coverage[k].evidence # <<>>)
    /\ coverage[k].evidence \in Seq(Range(coverage[k].evidence))
    /\ Len(coverage[k].evidence) <= 4
DefectShape(claim) == claim.root \in Range(claim.chain)
CandidateShape(coverage, c) ==
  IF c.kind = "missing" THEN coverage[c.criterion].status = "missing" ELSE DefectShape(c.claim)
VerificationShape(c, v) ==
  /\ v.verdict = "rejected" => v.evidence # {}
  /\ v.verdict = "confirmed" /\ c.kind = "defect" => v.evidence # {}
VerificationsShape(candidates, verifications) ==
  /\ DOMAIN verifications = DOMAIN candidates
  /\ \A i \in DOMAIN candidates :
       verifications[i].id = i /\ VerificationShape(candidates[i], verifications[i])
WellFormed(e) ==
  /\ CoverageShape(e.coverage)
  /\ Len(e.candidates) <= MaxCandidates
  /\ \A i \in DOMAIN e.candidates :
       e.candidates[i].id = i /\ CandidateShape(e.coverage, e.candidates[i])
  /\ VerificationsShape(e.candidates, e.verifications)

(* missing and claims: the candidates of the coverage and the defect pass. *)
ASSUME AnswerAssumption == \A a \in Answers :
  /\ CoverageShape(a.coverage)
  /\ a.missing \in Seq(Criteria) /\ a.claims \in Seq(Range(a.claims))
  /\ Len(a.missing) <= MaxCandidates /\ Len(a.claims) <= MaxCandidates
  /\ \A k \in Range(a.missing) : a.coverage[k].status = "missing"
  /\ \A c \in Range(a.claims) : DefectShape(c)

LineShape(e) == e = [line |-> e.line, text |-> e.text]
ClaimShape(c) ==
  /\ c = [outcome |-> c.outcome, symbol |-> c.symbol, root |-> c.root, chain |-> c.chain]
  /\ c.chain \in Seq(Range(c.chain))
  /\ \A e \in Range(c.chain) : LineShape(e)
ASSUME ShapeAssumption ==
  /\ \A a \in Answers : \A c \in Range(a.claims) : ClaimShape(c)
  /\ \A v \in Checks : \A e \in v.evidence : LineShape(e)

ASSUME PushAssumption == \A push \in Pushes :
  /\ DOMAIN push = {1, 2}
  /\ \A f \in Range(push) : f.code \in Seq(Range(f.code)) /\ f.tests \in Seq(Range(f.tests))

ASSUME BoundAssumption ==
  EarlierRounds \subseteq Nat /\ MaxChanges \in Nat /\ MaxRows \in Nat /\ MaxFaults \in Nat

VARIABLES
  heads,           \* the files of each HEAD so far, the current one last
  wording,         \* of the acceptance criteria
  ledger,          \* the findings, open and resolved
  rows,            \* gemini_pr_bot_review_runs, as they were inserted
  run,             \* the review under way
  said,            \* the last published result
  faults

gateVars == <<heads, wording, ledger, rows, run, said, faults>>

CurrentHead == Len(heads)
Files(h) == heads[h]

(* A review job rests before its first call and after a crash; busy: it is *)
(* not completed.                                                          *)
Resting(busy) == [at |-> "rest", busy |-> busy]
AtRest == run.at = "rest"

GateInit ==
  /\ \E push \in Pushes : heads = <<push[1]>>
  /\ wording = 1
  /\ ledger = [open |-> {}, resolved |-> {}]
  /\ rows = <<>>
  /\ run = Resting(FALSE)
  /\ \E n \in EarlierRounds : said = [verdict |-> "none", head |-> 0, round |-> n]
  /\ faults = 0

-----------------------------------------------------------------------------
(***************************************************************************)
(* What earlier runs are good for. A run counts once its job is completed. *)
(***************************************************************************)
Complete == {i \in DOMAIN rows : rows[i].valid /\ ~rows[i].live}

(* decodeReviewGateCache: the stored answers go through the parser again,  *)
(* against the criteria as they read now.                                  *)
Decodes(i) == rows[i].wording = wording /\ WellFormed(rows[i].envelope)

(* groundedAcceptanceCriteriaFromReviewRun                                 *)
GroundedInRun(row) ==
  {k \in Automated : row.envelope.coverage[k].status = "covered" /\ k \notin row.unproven}

GroundedIfCovered(row) ==   \* mutant
  {k \in Automated : row.envelope.coverage[k].status = "covered"}

(* Per criterion the newest evidence that a listed run had proven.         *)
StickyCoverage(history) ==
  [k \in Criteria |->
     LET proving == {i \in history : k \in GroundedInRun(rows[i])}
     IN  IF proving = {} THEN Unknown ELSE rows[Max(proving)].envelope.coverage[k]]

(* findCachedReviewGateRun: the context hash covers the criteria and the   *)
(* findings; whether the files are complete follows from the HEAD.         *)
ReusableOnAnyHead ==   \* mutant
  {i \in Complete : /\ rows[i].wording = wording /\ rows[i].known = ledger
                    /\ rows[i].verdict \in {"PASS", "FAIL"}}
Reusable ==
  {i \in Complete : /\ rows[i].head = CurrentHead /\ rows[i].wording = wording
                    /\ rows[i].known = ledger
                    /\ rows[i].verdict \in {"PASS", "FAIL"}}
CacheHit ==
  LET i == Max(Reusable)
  IN  IF Reusable # {} /\ rows[i].failed = {} /\ Decodes(i) THEN i ELSE 0

CountFault(b) == faults' = IF b THEN faults + 1 ELSE faults
MayFail(b) == b => faults < MaxFaults

(* From the snapshot of the ledger to the cache lookup. Either read of the *)
(* earlier runs may fail and then counts as having found nothing.          *)
Begin ==
  /\ AtRest /\ Len(rows) < MaxRows
  /\ \E listed, looked \in BOOLEAN :
       LET prior == StickyCoverage(IF listed THEN {i \in Complete : Decodes(i)} ELSE {})
           cited == UNION {Range(prior[k].evidence) : k \in Criteria}
       IN  /\ MayFail(~listed \/ ~looked) /\ CountFault(~listed \/ ~looked)
           /\ \E menu \in Menus(Files(CurrentHead), Pins(Files(CurrentHead), cited)) :
                run' = [at |-> "ask", busy |-> TRUE, head |-> CurrentHead, wording |-> wording,
                        known |-> ledger, prior |-> prior, listed |-> listed, menu |-> menu,
                        cached |-> IF looked THEN CacheHit ELSE 0]
  /\ UNCHANGED <<heads, wording, ledger, rows, said>>

-----------------------------------------------------------------------------
(***************************************************************************)
(* Asking the model.                                                       *)
(***************************************************************************)
Passes == {"defect"} \cup {p \in {"coverage"} : Criteria # {}}

MissingTest(k) == [id |-> 0, kind |-> "missing", criterion |-> k]
Defect(c) == [id |-> 0, kind |-> "defect", claim |-> c]
Renumbered(s) == [i \in DOMAIN s |-> [s[i] EXCEPT !.id = i]]

(* mergeReviewGateCandidates: defects come first.                          *)
Merged(claims, missing) ==
  LET all == [i \in DOMAIN claims |-> Defect(claims[i])]
               \o [i \in DOMAIN missing |-> MissingTest(missing[i])]
  IN  Renumbered(SubSeq(all, 1, Min({MaxCandidates, Len(all)})))

(* extractReviewGateCandidatesIsolated: a failed pass leaves its defaults. *)
Extracted(a, failed) ==
  [coverage |-> IF "coverage" \in failed THEN [k \in Criteria |-> Unknown] ELSE a.coverage,
   candidates |-> Merged(IF "defect" \in failed THEN <<>> ELSE a.claims,
                         IF "coverage" \in failed THEN <<>> ELSE a.missing)]

(* verifyReviewGateCandidatesIsolated: a failed call counts as uncertain.  *)
NoAnswer == [verdict |-> "uncertain", evidence |-> {}]
Verifications(candidates, failed, checks) ==
  [i \in DOMAIN candidates |->
     LET v == IF i \in failed THEN NoAnswer ELSE checks[i]
     IN  [id |-> candidates[i].id, verdict |-> v.verdict, evidence |-> v.evidence]]

-----------------------------------------------------------------------------
(***************************************************************************)
(* The verdict, from the answers alone and the files of the HEAD.          *)
(***************************************************************************)
(* What earlier runs prove on this HEAD still.                             *)
StillProven(r) == Grounded(r.prior, r.menu)

EffectiveCoverage(r, coverage) ==
  [k \in Criteria |-> IF k \in StillProven(r) \ Grounded(coverage, r.menu)
                      THEN r.prior[k] ELSE coverage[k]]

(* filterReviewGateCacheCandidates: no missing test is taken up for a      *)
(* criterion that an earlier run has proven.                               *)
Nth(I, j) == CHOOSE i \in I : Cardinality({h \in I : h <= i}) = j
Kept(s, I) == [j \in 1..Cardinality(I) |-> [s[Nth(I, j)] EXCEPT !.id = j]]

Wanted(r, e) ==
  {i \in DOMAIN e.candidates : LET c == e.candidates[i]
                               IN  c.kind # "missing" \/ c.criterion \notin StillProven(r)}
Judged(r, e) ==
  LET ids == {e.candidates[i].id : i \in Wanted(r, e)}
  IN  {i \in DOMAIN e.verifications : e.verifications[i].id \in ids}
FilteredWithGaps(r, e) ==   \* mutant
  LET kept(s, I) == [j \in 1..Cardinality(I) |-> s[Nth(I, j)]]
  IN  [coverage |-> EffectiveCoverage(r, e.coverage),
       candidates |-> kept(e.candidates, Wanted(r, e)),
       verifications |-> kept(e.verifications, Judged(r, e))]
Filtered(r, e) ==
  [coverage |-> EffectiveCoverage(r, e.coverage),
   candidates |-> Kept(e.candidates, Wanted(r, e)),
   verifications |-> Kept(e.verifications, Judged(r, e))]

(* validateCandidateProtocol *)
InputValid(e) ==
  /\ Len(e.candidates) <= MaxCandidates
  /\ \A i \in DOMAIN e.candidates : e.candidates[i].id = i
  /\ DOMAIN e.verifications = DOMAIN e.candidates
  /\ \A i \in DOMAIN e.verifications : e.verifications[i].id = i

MissingTestStands(f, k) == k \in Automated /\ f.inventory
Stands(f, c, v) ==
  /\ v.verdict = "confirmed"
  /\ IF c.kind = "missing" THEN MissingTestStands(f, c.criterion)
     ELSE DefectStands(f, c.claim, v.evidence)

Accepted(f, e) ==
  IF ~InputValid(e) THEN {}
  ELSE {i \in DOMAIN e.candidates : Stands(f, e.candidates[i], e.verifications[i])}

IsMissingTest(x) == "criterion" \in DOMAIN x
Blocks(x) == IsMissingTest(x) \/ Severity(x.outcome) = "fatal"
Same(x, y) ==
  IF IsMissingTest(x) \/ IsMissingTest(y) THEN x = y
  ELSE x.outcome = y.outcome /\ x.symbol = y.symbol

(* The accepted candidates as the ledger knows them, one per identity.     *)
FindingsOf(r, e) ==
  LET f == Files(r.head)
      found == {IF e.candidates[i].kind = "missing"
                THEN [criterion |-> e.candidates[i].criterion, wording |-> r.wording]
                ELSE DefectFinding(f, e.candidates[i].claim) : i \in Accepted(f, e)}
  IN  {IF IsMissingTest(x) THEN x
       ELSE [x EXCEPT !.texts = UNION {y.texts : y \in {z \in found : Same(x, z)}}] : x \in found}

(* A finding is resolved by a proof of its criterion, or when a line of    *)
(* its evidence is gone. See FindingLedger for the rest of its life.       *)
Resolved(r, x, proven) ==
  IF IsMissingTest(x) THEN x.wording = r.wording /\ x.criterion \in proven
  ELSE ~(x.texts \subseteq Range(Files(r.head).code))
NextLedger(r, current, proven) ==
  LET absent == {x \in r.known.open \cup r.known.resolved : ~\E y \in current : Same(x, y)}
      resolved == {x \in absent : x \in r.known.resolved \/ Resolved(r, x, proven)}
  IN  [open |-> current \cup (absent \ resolved), resolved |-> resolved]

IsAdvisory(c) == c.kind = "defect" /\ Severity(c.claim.outcome) = "advisory"

(* hasUnresolvedValidation of runStructuredReview.                         *)
Unresolved(r, e, failed, proven, unconfirmed) ==
  \/ ~InputValid(e)
  \/ ~Files(r.head).complete
  \/ proven # Automated
  \/ failed # {}
  \/ \E x \in unconfirmed : Blocks(x)
  \/ \E i \in DOMAIN e.candidates \ Accepted(Files(r.head), e) :
       ~IsAdvisory(e.candidates[i]) /\ e.verifications[i].verdict = "uncertain"

(* buildReviewGateDisclosure: what the contributor is asked to see to.     *)
ItemsOfAll(r, e, failed, proven, unconfirmed) ==   \* mutant
  {<<"criterion", k>> : k \in Automated \ proven}
    \cup {<<"context", 0>> : x \in {y \in {0} : ~Files(r.head).complete}}
    \cup {<<"candidate", i>> : i \in {j \in DOMAIN e.candidates :
            e.verifications[j].verdict = "uncertain"}}
    \cup {<<"pass", p>> : p \in failed}
    \cup {<<"finding", x>> : x \in unconfirmed}
Items(r, e, failed, proven, unconfirmed) ==
  {<<"criterion", k>> : k \in Automated \ proven}
    \cup {<<"protocol", 0>> : x \in {y \in {0} : ~InputValid(e)}}
    \cup {<<"context", 0>> : x \in {y \in {0} : ~Files(r.head).complete}}
    \cup {<<"candidate", i>> : i \in {j \in DOMAIN e.candidates :
            e.verifications[j].verdict = "uncertain" /\ ~IsAdvisory(e.candidates[j])}}
    \cup {<<"pass", p>> : p \in failed}
    \cup {<<"finding", x>> : x \in {y \in unconfirmed : Blocks(y)}}
IsPeripheral(item) == item[1] = "criterion" /\ item[2] \in Peripheral

BaseVerdict(blocking, unresolved) ==
  IF blocking # {} THEN "FAIL" ELSE IF unresolved THEN "ABSTAIN" ELSE "PASS"

(* resolveReviewTurnVerdict: only a later turn hands over to a human, and  *)
(* only what is peripheral.                                                *)
TurnVerdict(base, round, items) ==
  IF base = "ABSTAIN" /\ ~(/\ round >= MinRoundForAbstain
                          /\ items # {} /\ \A x \in items : IsPeripheral(x))
  THEN "FOLLOW_UP" ELSE base

Evaluated(r, envelope, failed) ==
  LET e == Filtered(r, envelope)
      proven == Grounded(e.coverage, r.menu)
      current == FindingsOf(r, e)
      next == NextLedger(r, current, proven)
      unconfirmed == next.open \ current
      items == Items(r, e, failed, proven, unconfirmed)
      base == BaseVerdict({x \in current : Blocks(x)},
                          Unresolved(r, e, failed, proven, unconfirmed))
  IN  [envelope |-> e, proven |-> proven, current |-> current, next |-> next, items |-> items,
       verdict |-> TurnVerdict(base, said.round + 1, items)]

-----------------------------------------------------------------------------
(* recordReviewGateRun comes before anything is published. Storing the row *)
(* may fail, which is only logged.                                         *)
Row(r, v, calls) ==
  [head |-> r.head, wording |-> r.wording, known |-> r.known, valid |-> TRUE, live |-> TRUE,
   envelope |-> v.envelope, unproven |-> Automated \ v.proven, failed |-> calls,
   verdict |-> v.verdict]

Conclude(envelope, passes, calls, stored) ==
  LET v == Evaluated(run, envelope, passes)
  IN  /\ run' = [at |-> "publish", busy |-> TRUE, head |-> run.head, wording |-> run.wording,
                 listed |-> run.listed, cached |-> run.cached, proven |-> v.proven,
                 current |-> v.current, next |-> v.next, items |-> v.items,
                 verdict |-> v.verdict]
      /\ rows' = IF stored THEN Append(rows, Row(run, v, calls)) ELSE rows
      /\ UNCHANGED <<heads, wording, ledger, said>>

Reuse ==
  /\ run.at = "ask" /\ run.cached # 0
  /\ \E stored \in BOOLEAN :
       /\ MayFail(~stored) /\ CountFault(~stored)
       /\ Conclude(rows[run.cached].envelope, {}, {}, stored)

(* One pass may fail and any verifier: the review goes on with less.       *)
Ask ==
  /\ run.at = "ask" /\ run.cached = 0
  /\ \E a \in Answers, passes \in {p \in SUBSET Passes : p # Passes}, stored \in BOOLEAN :
       LET x == Extracted(a, passes)
       IN  \E lost \in SUBSET DOMAIN x.candidates :
             \E checks \in [DOMAIN x.candidates \ lost -> Checks] :
               /\ \A i \in DOMAIN checks : VerificationShape(x.candidates[i], checks[i])
               /\ LET fault == passes # {} \/ lost # {} \/ ~stored
                  IN  MayFail(fault) /\ CountFault(fault)
               /\ Conclude([coverage |-> x.coverage, candidates |-> x.candidates,
                            verifications |-> Verifications(x.candidates, lost, checks)],
                           passes,
                           passes \cup {"verifier" : i \in lost}, stored)

(* Every pass failed: a run without answers is recorded, and a comment     *)
(* asks for another review.                                                *)
AskInVain ==
  /\ run.at = "ask" /\ run.cached = 0
  /\ MayFail(TRUE) /\ CountFault(TRUE)
  /\ run' = [at |-> "report", busy |-> TRUE, head |-> run.head]
  /\ rows' = Append(rows, [head |-> run.head, valid |-> FALSE, live |-> TRUE])
  /\ UNCHANGED <<heads, wording, ledger, said>>

-----------------------------------------------------------------------------
(***************************************************************************)
(* Publication, while the HEAD is still the one reviewed.                  *)
(***************************************************************************)
JobEndsUnseen ==   \* mutant
  run' = Resting(FALSE) /\ UNCHANGED rows
JobEnds ==
  /\ run' = Resting(FALSE)
  /\ rows' = [i \in DOMAIN rows |-> [rows[i] EXCEPT !.live = FALSE]]

IsCurrent == run.head = CurrentHead
Discard ==
  /\ run.at \in {"publish", "post", "report"} /\ ~IsCurrent
  /\ JobEnds
  /\ UNCHANGED <<heads, wording, ledger, said, faults>>

Persist ==
  /\ run.at = "publish" /\ IsCurrent
  /\ ledger' = run.next
  /\ run' = [run EXCEPT !.at = "post"]
  /\ UNCHANGED <<heads, wording, rows, said, faults>>

Says(verdict) ==
  said' = [verdict |-> verdict, head |-> run.head, round |-> said.round + 1]

Post ==
  /\ run.at = "post" /\ IsCurrent
  /\ Says(run.verdict)
  /\ JobEnds
  /\ UNCHANGED <<heads, wording, ledger, faults>>

Report ==
  /\ run.at = "report" /\ IsCurrent
  /\ Says("FOLLOW_UP")
  /\ JobEnds
  /\ UNCHANGED <<heads, wording, ledger, faults>>

(* SIGTERM before the result is published ends the job as completed.       *)
Stop ==
  /\ run.at = "publish"
  /\ MayFail(TRUE) /\ CountFault(TRUE)
  /\ JobEnds
  /\ UNCHANGED <<heads, wording, ledger, said>>

(* A crash: the same job starts over.                                      *)
Crash ==
  /\ ~AtRest
  /\ MayFail(TRUE) /\ CountFault(TRUE)
  /\ run' = Resting(TRUE)
  /\ UNCHANGED <<heads, wording, ledger, rows, said>>

-----------------------------------------------------------------------------
(* Nothing looks at what changes after the last review.                    *)
ChangesLeft ==
  CurrentHead + wording < MaxChanges + 2 /\ (AtRest => Len(rows) < MaxRows)

Push ==
  /\ ChangesLeft
  /\ \E push \in Pushes : push[1] = Files(CurrentHead) /\ heads' = Append(heads, push[2])
  /\ UNCHANGED <<wording, ledger, rows, run, said, faults>>

Reword ==
  /\ ChangesLeft
  /\ wording' = wording + 1
  /\ UNCHANGED <<heads, ledger, rows, run, said, faults>>

GateNext ==
  \/ Begin \/ Reuse \/ Ask \/ AskInVain
  \/ Discard \/ Persist \/ Post \/ Report
  \/ Stop \/ Crash
  \/ Push \/ Reword

GateSpec == GateInit /\ [][GateNext]_gateVars

-----------------------------------------------------------------------------
(***************************************************************************)
(* Properties.                                                             *)
(***************************************************************************)
Contents == UNION {Range(push) : push \in Pushes}

(* The bookkeeping of the gate: a review works on a HEAD that exists, the  *)
(* ledger keeps one finding per identity in one state, and a recorded run  *)
(* is live only while its job is.                                          *)
GateTypeOK ==
  /\ CurrentHead + wording <= MaxChanges + 2 /\ Range(heads) \subseteq Contents
  /\ faults \in 0..MaxFaults
  /\ Len(rows) <= MaxRows
  /\ run.at \in {"rest", "ask", "publish", "post", "report"}
  /\ ~AtRest => run.head \in 1..CurrentHead
  /\ said.verdict \in {"none", "PASS", "FAIL", "FOLLOW_UP", "ABSTAIN"}
  /\ \A x, y \in ledger.open \cup ledger.resolved : Same(x, y) => x = y
  /\ ledger.open \cap ledger.resolved = {}
  /\ \A i \in DOMAIN rows : rows[i].live => run.busy

(* "PASS" is said only of what stands on the HEAD as it is then: complete  *)
(* files, no blocking finding left open in the ledger, and for every       *)
(* criterion to be tested a proof among the test lines of this very HEAD,  *)
(* whatever the evidence was first found in, an earlier run or a cached    *)
(* one (runStructuredReview from the lists of earlier runs to approval).   *)
PassNow ==
  /\ Files(CurrentHead).complete
  /\ ~\E x \in ledger.open : Blocks(x)
  /\ \A k \in Automated :
       \E Q \in Proofs[k] : Q \subseteq Range(Files(CurrentHead).tests)
PassIsProven == [][(said' # said /\ said'.verdict = "PASS") => PassNow]_gateVars

(* A criterion once proven is not asked for again while its proof is in    *)
(* the files: if the newest completed run that proved it cites rows that   *)
(* prove it on this HEAD, and the menu has room for what is cited, the     *)
(* review takes it as proven and raises no missing test for it, whatever   *)
(* the model now says of it (mergeStickyAcceptanceCoverageHistory, with    *)
(* the pinned evidence of buildReviewEvidenceCandidates).                  *)
ProvingRuns(k) ==
  {i \in Complete : /\ Decodes(i)
                    /\ rows[i].envelope.coverage[k].status = "covered"
                    /\ k \notin rows[i].unproven}
NewestProof(k) == rows[Max(ProvingRuns(k))].envelope.coverage[k]
ProvenStaysProven ==
  (run.at = "publish" /\ run.listed /\ run.wording = wording) =>
    LET rowsNow == TestRows(Files(run.head))
        known == {k \in Automated : ProvingRuns(k) # {}}
        cited == UNION {Range(NewestProof(k).evidence) : k \in known}
    IN  Cardinality(cited) <= MenuSize =>
          \A k \in known : Proven(k, NewestProof(k), rowsNow) =>
            k \in run.proven /\ ~\E x \in run.current : IsMissingTest(x) /\ x.criterion = k

(* A pass that is reused is a pass again: the answers recorded with it     *)
(* hold under the same key, although what else is known of the criteria    *)
(* may by then come from other runs (findCachedReviewGateRun, whose result *)
(* is evaluated anew).                                                     *)
CachedPassIsRepeated ==
  (run.at = "publish" /\ run.cached # 0 /\ run.listed) =>
    (rows[run.cached].verdict = "PASS" => run.verdict = "PASS")

(* What a review records, the next one can read: after the candidates that *)
(* earlier evidence settles are taken out, the rest is again what the      *)
(* strict parser accepts, ids in order and each missing test matching the  *)
(* coverage that was merged in (filterReviewGateCacheCandidates and        *)
(* encodeReviewGateCache against decodeReviewGateCache).                   *)
RecordedRunDecodes ==
  \A i \in DOMAIN rows : rows[i].valid => WellFormed(rows[i].envelope)

(* The verdict and what the contributor is told agree: a review that does  *)
(* not fail passes exactly when it has nothing left to ask for. (The check *)
(* output refuses to be built from an inconclusive verdict without items,  *)
(* formatReviewGateCheckOutput.)                                           *)
VerdictHasItems ==
  (run.at = "publish" /\ run.verdict # "FAIL") => (run.verdict = "PASS" <=> run.items = {})

(* The files of which this holds: as long as each quote of a claim and of  *)
(* its check is one line of the file, the claim stands or falls, and is    *)
(* known to the ledger, the same with any lines as with the right ones.    *)
Drifts(code, e) == {[e EXCEPT !.line = n] : n \in 1..Len(code) + 1}
Unambiguous(code, texts) ==
  \A t \in texts : Cardinality({i \in DOMAIN code : code[i] = t}) = 1
SurviveDrift ==
  {f \in Contents :
    \A a \in Answers, v \in Checks : \A c \in Range(a.claims) :
      LET exact == ReboundClaim(f.code, c)
          cited == {Rebind(f.code, e) : e \in v.evidence}
      IN  Unambiguous(f.code, {e.text : e \in Range(c.chain) \cup v.evidence}) =>
            \A root \in Drifts(f.code, c.root), first \in Drifts(f.code, c.chain[1]),
               other \in UNION {Drifts(f.code, e) : e \in v.evidence} :
              LET d == [c EXCEPT !.root = root, !.chain[1] = first]
                  others == {e \in v.evidence : e.text # other.text} \cup {other}
              IN  /\ DefectStands(f, d, others) = DefectStands(f, exact, cited)
                  /\ DefectStands(f, d, others) => DefectFinding(f, d) = DefectFinding(f, exact)}

(* The lines a model gives for its quotes are only hints: whatever it      *)
(* answers on the HEAD under review, wrong lines change nothing            *)
(* (rebindCandidateLines for the candidate and the verifier's evidence).   *)
DriftIsHarmless == run.at = "ask" => Files(run.head) \in SurviveDrift
================================================================================
