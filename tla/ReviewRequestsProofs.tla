------------------------- MODULE ReviewRequestsProofs -------------------------
(***************************************************************************)
(* What holds as long as nothing fails and leases outlive runs, for every  *)
(* number of pods, check runs, rechecks and pushes: requests for a review  *)
(* lead to one, a check run that ends as a success is of a HEAD that was   *)
(* approved, and with one request a check run in progress is always in     *)
(* somebody's hands.                                                       *)
(***************************************************************************)
EXTENDS ReviewChecksProofs

USE MaxAttemptsAssumption, MaxRowsAssumption, RequestKeys, RequestShape,
    StandardLane, ReviewBounds

-----------------------------------------------------------------------------
(***************************************************************************)
(* Coalescing never leaves a quiet PR unreviewed, if nothing fails, and    *)
(* lost races for the findings do only when two reviews wrote part of the  *)
(* ledger each. The proof follows the oldest row: nobody is before it, so  *)
(* it can only be dropped for findings that another review has written     *)
(* since; and who wrote last goes on to its verdict, unless somebody wrote *)
(* over its findings in turn, and left the ledger mixed.                   *)
(***************************************************************************)
Early == {"ignore", "context", "target", "find", "create", "record", "think", "verdict",
          "publish", "ledger"}
Planning == {"target", "find", "create", "record"}
Pinned == {"target", "find", "create", "record", "think", "verdict", "publish", "ledger",
           "republish"}

(* The HEAD is reviewed, or about to be: a review has its findings stored, *)
(* or is storing them and still has one there. Or the ledger is mixed.     *)
HoldsFinding(w) == StandsAt(w, "ledger") /\ \E f \in Findings : ledger[f] = Me(w)

Assured ==
  \/ Reviewed(1) \/ MixedLedger
  \/ \E w \in Worker : StandsAt(w, "republish") \/ HoldsFinding(w)

(* Nobody is asked for anything but a review, and the PR stands still.     *)
GateJob(j) ==
  /\ j.kind # "agent" /\ j.verdict \notin AgentVerdict
  /\ j.at \notin {"close", "merge", "cooldown"}
  /\ j.at \in Planning => j.plan = "think"
  /\ j.at \in Pinned => j.head = 1
  /\ j.at \in {"register", "recheck"} => j.verdict = "none"

QuietPr ==
  /\ pr.head = 1 /\ pr.open /\ pr.mergeable
  /\ \A i \in Ids : rec[i].kind # "agent"
  /\ \A w \in Worker : GateJob(job[w])

PodsUp == \A p \in Pods : pod[p] = "up"

FirstRow ==
  \A i \in Ids : rows[i].status # "absent" =>
    rows[1].status # "absent" /\ rows[1].key \in Requests

(* Once a finding is written, or row 1 is through, the HEAD is seen to. A  *)
(* finding that is marked as overwritten is indeed somebody else's.        *)
RowOneOver(w) == run[w].id = 1 /\ pc[w] = "busy" /\ job[w].at \notin Early

AssuredInv ==
  /\ \A f \in Findings : ledger[f] # 0 => Assured
  /\ \A w \in Worker : \A f \in job[w].overwritten : ledger[f] \notin {0, Me(w)}
  /\ \A w \in Worker : job[w].at = "post" /\ job[w].verdict = "FAIL" => Reviewed(1)
  /\ \A w \in Worker : RowOneOver(w) => Assured
  /\ 1 \in Ids /\ rows[1].status = "completed" => Assured

QuietInv == PodsUp /\ FirstRow /\ (pr.events = 0 => QuietPr /\ AssuredInv)

(* What one step of a handler does for that.                               *)
GoesOn(w) ==
  /\ job'[w].overwritten \subseteq job[w].overwritten
  /\ job'[w].at \notin Early => \/ job[w].at \notin Early \/ job[w].overwritten # {}
                                \/ job'[w].at = "republish" \/ Reviewed(1)'
                                \/ \E i \in Ids : i < Me(w)
  /\ job[w].at = "republish" => Reviewed(1)'
  /\ job'[w].at = "post" /\ job'[w].verdict = "FAIL" =>
        Reviewed(1)' \/ (job[w].at = "post" /\ job[w].verdict = "FAIL")

(* One step of a handler on the way to a verdict.                          *)
LEMMA HandlerGoesOn ==
  ASSUME JobsOK, QuietPr, PodsUp, NEW w \in Worker, HandlerStep(w)
  PROVE  GateJob(job'[w]) /\ GoesOn(w)
<1>1. job[w] \in Job /\ Shaped(job[w]) /\ GateJob(job[w])
  BY DEF JobsOK, QuietPr
<1>2. ~Stopping(w) /\ pr.head = 1 /\ pr.open /\ pr.mergeable
  BY WorkerParts DEF QuietPr, PodsUp, Stopping
<1>3. job[w].at \in Pinned => ~Outdated(w)
  BY <1>1, <1>2 DEF GateJob, Outdated
<1>4. ASSUME NEW at, NEW c,
             \/ job'[w] = [job[w] EXCEPT !.at = at]
             \/ job'[w] = [job[w] EXCEPT !.at = at, !.conclusion = c]
      PROVE  /\ job'[w].at = at /\ job'[w].kind = job[w].kind
             /\ job'[w].head = job[w].head /\ job'[w].plan = job[w].plan
             /\ job'[w].verdict = job[w].verdict /\ job'[w].overwritten = job[w].overwritten
  BY <1>1, <1>4 DEF Job
<1>5. ASSUME NEW at, NEW c,
             \/ job'[w] = [job[w] EXCEPT !.at = at]
             \/ job'[w] = [job[w] EXCEPT !.at = at, !.conclusion = c],
             at \notin Early \cup Pinned \cup {"close", "merge", "cooldown", "register", "recheck"},
             at = "post" => Reviewed(1)' \/ job[w].verdict # "FAIL",
             \/ Reviewed(1)' \/ job[w].at \notin Early \cup {"republish"}
             \/ job[w].at \in Early /\ (\E i \in Ids : i < Me(w))
      PROVE  GateJob(job'[w]) /\ GoesOn(w)
  <2>1. GateJob(job'[w])
    <3>1. /\ job'[w].at = at /\ job'[w].kind = job[w].kind
          /\ job'[w].plan = job[w].plan /\ job'[w].verdict = job[w].verdict
      BY <1>4, <1>5
    <3>2. Planning \subseteq Early \cup Pinned
      BY DEF Planning, Early, Pinned
    <3>3. /\ at \notin Planning /\ at \notin Pinned
          /\ at \notin {"close", "merge", "cooldown", "register", "recheck"}
      BY <1>5, <3>2
    <3>4. job[w].kind # "agent" /\ job[w].verdict \notin AgentVerdict
      BY <1>1 DEF GateJob
    <3>5. QED
      BY <3>1, <3>3, <3>4 DEF GateJob
  <2>2. GoesOn(w)
    <3>1. /\ job'[w].at = at /\ job'[w].verdict = job[w].verdict
          /\ job'[w].overwritten = job[w].overwritten
      BY <1>4, <1>5
    <3>2. \/ Reviewed(1)' \/ job[w].at \notin Early \/ \E i \in Ids : i < Me(w)
      BY <1>5
    <3>3. job[w].at = "republish" => Reviewed(1)'
      BY <1>5 DEF Early
    <3>4. at = "post" /\ job[w].verdict = "FAIL" => Reviewed(1)'
      BY <1>5
    <3>5. QED
      BY <3>1, <3>2, <3>3, <3>4 DEF GoesOn
  <2>3. QED
    BY <2>1, <2>2
<1> DEFINE Away == {"returned", "finish", "post", "request", "wait", "approve", "schedule",
                    "discard", "coalesce"}
<1>6. ASSUME NEW at \in Away, Go(w, at),
             at = "post" => Reviewed(1)' \/ job[w].verdict # "FAIL",
             \/ Reviewed(1)' \/ job[w].at \notin Early \cup {"republish"}
             \/ job[w].at \in Early /\ (\E i \in Ids : i < Me(w))
      PROVE  GateJob(job'[w]) /\ GoesOn(w)
  <2>1. job'[w] = [job[w] EXCEPT !.at = at]
    BY <1>6, MoveKeepsOthers DEF Go
  <2>2. at \notin Early \cup Pinned \cup {"close", "merge", "cooldown", "register", "recheck"}
    BY DEF Early, Pinned
  <2>3. QED
    BY <1>5, <1>6, <2>1, <2>2
<1>7. ASSUME NEW c, Finish(w, c) \/ Post(w, c),
             Post(w, c) => Reviewed(1)' \/ job[w].verdict # "FAIL",
             Reviewed(1)' \/ job[w].at \notin Early \cup {"republish"}
      PROVE  GateJob(job'[w]) /\ GoesOn(w)
  <2>1. {"finish", "post"}
           \cap (Early \cup Pinned \cup {"close", "merge", "cooldown", "register", "recheck"}) = {}
    BY DEF Early, Pinned
  <2>2. CASE Finish(w, c)
    <3>1. job'[w] = [job[w] EXCEPT !.at = "finish", !.conclusion = c]
      BY <2>2, MoveKeepsOthers DEF Finish
    <3>2. QED
      BY <1>5, <1>7, <2>1, <3>1
  <2>3. CASE Post(w, c)
    <3>1. job'[w] = [job[w] EXCEPT !.at = "post", !.conclusion = c]
      BY <2>3, MoveKeepsOthers DEF Post
    <3>2. QED
      BY <1>5, <1>7, <2>1, <2>3, <3>1
  <2>4. QED
    BY <1>7, <2>2, <2>3
<1>8. ASSUME NEW at, Go(w, at), <<job[w].at, at>> \in
               {<<"ignore", "context">>, <<"target", "find">>, <<"publish", "ledger">>}
      PROVE  GateJob(job'[w]) /\ GoesOn(w)
  <2>1. job'[w] = [job[w] EXCEPT !.at = at]
    BY <1>8, MoveKeepsOthers DEF Go
  <2>2. QED
    BY <1>1, <1>4, <1>8, <2>1 DEF GateJob, GoesOn, Early, Planning, Pinned
<1>9. CASE Ignore(w) \/ RecordTarget(w)
  BY <1>2, <1>8, <1>9 DEF Ignore, RecordTarget, StandsAt
<1>10. CASE ReadContext(w)
  <2>1. Move(w, [job[w] EXCEPT !.head = 1, !.plan = "think", !.at = "target"])
    BY <1>1, <1>2, <1>10 DEF ReadContext, GateJob, Job
  <2>2. job'[w] = [job[w] EXCEPT !.head = 1, !.plan = "think", !.at = "target"]
    BY <2>1, MoveKeepsOthers
  <2>3. QED
    BY <1>1, <1>10, <2>2 DEF GateJob, GoesOn, Early, Planning, Pinned, Job, ReadContext, StandsAt
<1>11. CASE FindActive(w)
  <2>1. job[w].at = "find"
    BY <1>11 DEF FindActive, StandsAt
  <2>2. CASE Move(w, CheckOrCreate(job[w]))
    <3>1. PICK at \in {"create", "think"} : job'[w] = [job[w] EXCEPT !.at = at]
      BY <1>1, <2>1, <2>2, MoveKeepsOthers DEF CheckOrCreate, Tracked, GateJob, Planning, Job
    <3>2. QED
      BY <1>1, <1>4, <2>1, <3>1 DEF GateJob, GoesOn, Early, Planning, Pinned
  <2>3. ASSUME NEW i \in Ids, FirstActive(w, i),
               Move(w, [job[w] EXCEPT !.at = "coalesce", !.other = rec[i].check])
        PROVE  GateJob(job'[w]) /\ GoesOn(w)
    <3>1. job'[w] = [job[w] EXCEPT !.at = "coalesce", !.other = rec[i].check]
      BY <2>3, MoveKeepsOthers
    <3>2. i < Me(w)
      BY <2>3 DEF FirstActive, Active
    <3>3. QED
      BY <1>1, <2>1, <3>1, <3>2 DEF GateJob, GoesOn, Early, Planning, Pinned, Job
  <2>4. ASSUME NEW i \in Ids, FirstActive(w, i), Go(w, "returned")
        PROVE  GateJob(job'[w]) /\ GoesOn(w)
    <3>1. i < Me(w)
      BY <2>4 DEF FirstActive, Active
    <3>2. QED
      BY <1>6, <2>1, <2>4, <3>1 DEF Early
  <2>5. QED
    BY <1>11, <2>2, <2>3, <2>4 DEF FindActive
<1>12. ASSUME NEW c \in CheckIds, CreateCheck(w, c)
       PROVE  GateJob(job'[w]) /\ GoesOn(w)
  <2>1. job'[w] = [job[w] EXCEPT !.at = "record", !.check = c] /\ job[w].at = "create"
    BY <1>12, MoveKeepsOthers DEF CreateCheck, StandsAt
  <2>2. QED
    BY <1>1, <2>1 DEF GateJob, GoesOn, Early, Planning, Pinned, Job
<1>13. CASE RecordCheck(w)
  <2>1. job'[w] = [job[w] EXCEPT !.at = "think"] /\ job[w].at = "record"
    BY <1>1, <1>13, MoveKeepsOthers DEF RecordCheck, StandsAt, Tracked, GateJob, Planning
  <2>2. QED
    BY <1>1, <1>4, <2>1 DEF GateJob, GoesOn, Early, Planning, Pinned
<1>14. CASE ClosedContext(w) \/ ConflictContext(w) \/ SkipMerge(w) \/ Schedule(w)
  <2>1. job[w].at \notin Early \cup {"republish"}
    BY <1>14 DEF ClosedContext, ConflictContext, SkipMerge, Schedule, StandsAt, Early
  <2>2. CASE \E at \in {"returned", "request"} : Go(w, at)
    BY <1>6, <2>1, <2>2
  <2>3. CASE Finish(w, "cancelled")
    <3>1. job'[w] = [job[w] EXCEPT !.at = "finish", !.conclusion = "cancelled"]
      BY <2>3, MoveKeepsOthers DEF Finish
    <3>2. "finish" \notin Early \cup Pinned \cup {"close", "merge", "cooldown", "register", "recheck"}
      BY DEF Early, Pinned
    <3>3. QED
      BY <1>5, <2>1, <3>1, <3>2
  <2>4. QED
    BY <1>14, <2>2, <2>3 DEF ClosedContext, ConflictContext, SkipMerge, Schedule
<1>24. CASE RegisterRecheck(w)
  <2>1. job'[w] = [job[w] EXCEPT !.at = "recheck"] /\ job[w].at = "register"
    BY <1>24, MoveKeepsOthers DEF RegisterRecheck, Go, StandsAt
  <2>2. /\ job'[w].at = "recheck" /\ job'[w].kind = job[w].kind
        /\ job'[w].verdict = job[w].verdict /\ job'[w].overwritten = job[w].overwritten
    BY <1>4, <2>1
  <2>3. GateJob(job'[w])
    BY <1>1, <2>1, <2>2 DEF GateJob, Planning, Pinned
  <2>4. GoesOn(w)
    BY <2>1, <2>2 DEF GoesOn, Early
  <2>5. QED
    BY <2>3, <2>4
<1>15. CASE Think(w)
  <2>1. job'[w] = [job[w] EXCEPT !.at = "verdict", !.stored = {}, !.overwritten = {}] /\ job[w].at = "think"
    BY <1>15, MoveKeepsOthers DEF Think, StandsAt
  <2>2. QED
    BY <1>1, <2>1 DEF GateJob, GoesOn, Early, Planning, Pinned, Job
<1>16. CASE ReachVerdict(w)
  <2>1. PICK v \in GateVerdict : Move(w, [job[w] EXCEPT !.at = "publish", !.verdict = v])
    BY <1>1, <1>2, <1>16 DEF ReachVerdict, GateJob
  <2>2. job'[w] = [job[w] EXCEPT !.at = "publish", !.verdict = v] /\ job[w].at = "verdict"
    BY <1>16, <2>1, MoveKeepsOthers DEF ReachVerdict, StandsAt
  <2>3. v \notin AgentVerdict
    BY DEF GateVerdict, AgentVerdict
  <2>4. QED
    BY <1>1, <2>2, <2>3 DEF GateJob, GoesOn, Early, Planning, Pinned, Job
<1>17. CASE ProviderCooldown(w)
  BY <1>1, <1>17 DEF ProviderCooldown, GateJob
<1>18. ASSUME Decide(w), job[w].at \in {"publish", "republish"}
       PROVE  GateJob(job'[w]) /\ GoesOn(w)
  <2>1. job[w].verdict \in GateVerdict /\ job[w].head = 1
    BY <1>1, <1>18 DEF Job, Shaped, GateJob, Pinned
  <2>2. Reviewed(1)'
    BY <1>18, <2>1 DEF Decide, Reviewed
  <2>3. CASE Approves(w)
    <3>1. CASE GoApprove(w)
      <4>1. job'[w] = [job[w] EXCEPT !.at = "approve", !.head = pr.head]
        BY <3>1, MoveKeepsOthers DEF GoApprove
      <4>2. QED
        BY <1>1, <2>2, <4>1 DEF GateJob, GoesOn, Early, Planning, Pinned, Job
    <3>2. QED
      BY <1>6, <1>7, <2>2, <2>3, <3>1 DEF Approves
  <2>4. QED
    BY <1>6, <1>7, <1>18, <2>2, <2>3 DEF Decide
<1>19. CASE Publish(w) \/ Republish(w)
  <2>1. CASE Publish(w)
    <3>1. job[w].at = "publish" /\ (Decide(w) \/ Go(w, "ledger"))
      BY <1>1, <1>2, <1>3, <2>1 DEF Publish, StandsAt, GateJob, Pinned
    <3>2. QED
      BY <1>8, <1>18, <3>1
  <2>2. CASE Republish(w)
    BY <1>2, <1>3, <1>18, <2>2 DEF Republish, StandsAt, Pinned
  <2>3. QED
    BY <1>19, <2>1, <2>2
<1>20. CASE PersistLedger(w) \/ AttachThread(w)
  <2>1. /\ <<job[w].at, job'[w].at>> \in LedgerMoves /\ KeptButPlace(w)
        /\ job'[w].at \in {"returned", "discard"} => job[w].overwritten # {}
    BY <1>1, <1>20, LedgerStepMoves
  <2>2. GateJob(job'[w])
    BY <1>1, <2>1 DEF GateJob, KeptButPlace, LedgerMoves, Planning, Pinned
  <2>3. GoesOn(w)
    BY <2>1 DEF GoesOn, KeptButPlace, LedgerMoves, Early
  <2>4. QED
    BY <2>2, <2>3
<1>21. CASE CallSucceeds(w)
  <2>1. job'[w] = [job[w] EXCEPT !.at = NextCall(job[w]), !.conclusion = ConclusionOf(job[w])]
    BY <1>21, MoveKeepsOthers DEF CallSucceeds
  <2>2. job[w].at \in WriteCalls /\ job[w].at \notin Early \cup {"republish"}
    BY <1>21 DEF CallSucceeds, Calls, WriteCalls, Early
  <2>3. ~SquashMerges(job[w]) /\ job[w].verdict # "close"
    BY <1>1 DEF SquashMerges, QuietPr, GateJob, AgentVerdict
  <2>4. NextCall(job[w]) \in {"returned", "threw", "schedule", "finish"}
    BY <1>1, <2>2, <2>3 DEF NextCall, WriteCalls, GateJob
  <2>5. NextCall(job[w]) \notin Early \cup Pinned \cup {"close", "merge", "cooldown", "register", "recheck"}
    BY <2>4 DEF Early, Pinned
  <2>6. NextCall(job[w]) # "post"
    BY <2>4
  <2>7. QED
    BY <1>5, <2>1, <2>2, <2>5, <2>6
<1>22. CASE Recheck(w)
  <2>1. job[w].at \notin Early \cup {"republish"} /\ job[w].verdict # "FAIL"
    BY <1>1, <1>22 DEF Recheck, StandsAt, Early, GateJob
  <2>2. CASE GoApprove(w)
    <3>1. job'[w] = [job[w] EXCEPT !.at = "approve", !.head = pr.head]
      BY <2>2, MoveKeepsOthers DEF GoApprove
    <3>2. QED
      BY <1>1, <2>1, <3>1 DEF GateJob, GoesOn, Early, Planning, Pinned, Job
  <2>3. QED
    BY <1>6, <1>7, <1>22, <2>1, <2>2 DEF Recheck
<1>23. QED
  BY <1>9, <1>10, <1>11, <1>12, <1>13, <1>14, <1>15, <1>16, <1>17, <1>19, <1>20, <1>21, <1>22,
     <1>24 DEF HandlerStep

(* The first row is somebody's request: only who has a row schedules one.  *)
LEMMA EnqueueFirst ==
  ASSUME UniqueInv, FirstRow, NEW k, NEW lane, NEW due, Enqueue(k, lane, due),
         k \in Requests \/ \E h \in Ids : rows[h].status # "absent"
  PROVE  /\ FirstRow'
         /\ 1 \in Ids /\ rows'[1].status = "completed" => rows[1].status = "completed"
<1>1. \A i \in Ids : rows[i].status # "absent" => rows'[i] = rows[i]
  BY EnqueueAdds
<1>2. CASE rows' = rows
  BY <1>2 DEF FirstRow
<1>3. CASE rows' # rows
  <2>1. PICK n \in Ids : FreshId(n) /\ rows' = [rows EXCEPT ![n] = NewRow(k, lane, due)]
    BY <1>3 DEF Enqueue, InsertIgnore
  <2>2. NewRow(k, lane, due).status = "queued" /\ NewRow(k, lane, due).key = k
    BY DEF NewRow, AbsentRow
  <2>3. 1 \in Ids /\ rows' \in [Ids -> Row \cup {NewRow(k, lane, due)}]
    BY <2>1 DEF Ids, UniqueInv, TypeOK
  <2>4. rows'[1].status # "absent" /\ rows'[1].key \in Requests
    <3>1. CASE \E h \in Ids : rows[h].status # "absent"
      BY <1>1, <2>3, <3>1 DEF FirstRow
    <3>2. CASE \A h \in Ids : rows[h].status = "absent"
      <4>1. n = 1
        BY <2>1, <2>3, <3>2 DEF FreshId, Ids
      <4>2. QED
        BY <2>1, <2>2, <3>2, <4>1 DEF UniqueInv, TypeOK
    <3>3. QED
      BY <3>1, <3>2
  <2>5. rows'[1].status = "completed" => rows[1].status = "completed"
    BY <2>1, <2>2 DEF UniqueInv, TypeOK
  <2>6. QED
    BY <2>4, <2>5 DEF FirstRow
<1>4. QED
  BY <1>2, <1>3

(* Only a call changes the PR.                                             *)
LEMMA HandlerOnPr ==
  ASSUME NEW w \in Worker, HandlerStep(w)
  PROVE  pr' = pr \/ Calls(w)
  BY DEF HandlerStep, Ignore, ReadContext, RecordTarget, RecordsTarget, FindActive,
         CreateCheck, CreatesCheck, RecordCheck, RecordsCheck, ClosedContext,
         ConflictContext, Think, ReachVerdict, ProviderCooldown, Progress, Publish,
         Decide, PersistLedger, LeavesLedger, AttachThread, WritesFinding, Republish,
         CallSucceeds, SkipMerge, RegisterRecheck, Recheck, Reads, Schedule, EnqueuesRecheck, github

(* No row is ever recorded as an agent's.                                  *)
LEMMA NoAgentRecorded ==
  ASSUME rec \in [Ids -> Record], NEW w \in Worker, HandlerStep(w), job[w].kind # "agent",
         NEW i \in Ids, rec[i].kind # "agent"
  PROVE  rec'[i].kind # "agent"
<1>1. rec[i] \in Record
  OBVIOUS
<1>2. CASE RecordsTarget(w)
  <2>1. rec'[i] = rec[i] \/ rec'[i] = [rec[i] EXCEPT !.kind = "review", !.head = job[w].head]
    BY <1>1, <1>2 DEF RecordsTarget, Record
  <2>2. QED
    BY <1>1, <2>1 DEF Record
<1>3. CASE RecordsCheck(w)
  <2>1. PICK k : /\ k # "agent"
                 /\ rec' = [rec EXCEPT ![Me(w)] = [@ EXCEPT !.kind = k, !.head = job[w].head,
                                                            !.check = job[w].check]]
    BY <1>3 DEF RecordsCheck
  <2>2. \/ rec'[i] = rec[i]
        \/ rec'[i] = [rec[i] EXCEPT !.kind = k, !.head = job[w].head, !.check = job[w].check]
    BY <2>1
  <2>3. QED
    BY <1>1, <2>1, <2>2 DEF Record
<1>4. QED
  BY <1>2, <1>3, HandlerRecords

(* On a quiet PR a handler changes neither the PR nor what rows are for.   *)
LEMMA HandlerLeavesQuiet ==
  ASSUME JobsOK, rec \in [Ids -> Record], QuietPr, NEW w \in Worker, HandlerStep(w)
  PROVE  pr' = pr /\ \A i \in Ids : rec'[i].kind # "agent"
<1>1. GateJob(job[w])
  BY DEF QuietPr
<1>2. pr' = pr
  BY <1>1, HandlerOnPr DEF GateJob, Calls
<1>3. \A i \in Ids : rec'[i].kind # "agent"
  BY <1>1, NoAgentRecorded DEF QuietPr, GateJob
<1>4. QED
  BY <1>2, <1>3

(* A handler writes one finding of the ledger, which is its own from then  *)
(* on and overwritten for who has read it, or none.                        *)
WroteFinding(w, f) ==
  /\ ledger' = [ledger EXCEPT ![f] = Me(w)]
  /\ f \notin job'[w].overwritten
  /\ job'[w].at = job[w].at
  /\ job[w].at = "ledger" \/ (job[w].at = "post" /\ job[w].verdict = "FAIL")
  /\ \A v \in Worker : v # w =>
       job'[v].overwritten = IF ReadLedger(v) THEN job[v].overwritten \cup {f}
                             ELSE job[v].overwritten

LEMMA HandlerOnLedger ==
  ASSUME JobsOK, NEW w \in Worker, HandlerStep(w)
  PROVE  \/ /\ ledger' = ledger
            /\ \A v \in Worker : v # w => job'[v].overwritten = job[v].overwritten
         \/ \E f \in Findings : WroteFinding(w, f)
<1>1. job[w] \in Job
  BY DEF JobsOK
<1>2. ASSUME NEW j, Move(w, j), ledger' = ledger
      PROVE  /\ ledger' = ledger
             /\ \A v \in Worker : v # w => job'[v].overwritten = job[v].overwritten
  BY <1>2 DEF JobsOK, Move
<1>3. ASSUME NEW f \in Findings, NEW j, WritesFinding(w, f, j),
             f \notin j.overwritten, j.at = job[w].at,
             job[w].at = "ledger" \/ (job[w].at = "post" /\ job[w].verdict = "FAIL")
      PROVE  WroteFinding(w, f)
  <2>1. job'[w] = j
    BY <1>3 DEF WritesFinding
  <2>2. ASSUME NEW v \in Worker, v # w
        PROVE  job'[v].overwritten = IF ReadLedger(v) THEN job[v].overwritten \cup {f}
                                     ELSE job[v].overwritten
    <3>1. job[v] \in Job
      BY DEF JobsOK
    <3>2. QED
      BY <1>3, <2>2, <3>1 DEF WritesFinding, Job
  <2>3. QED
    BY <1>3, <2>1, <2>2 DEF WroteFinding, WritesFinding
<1>4. ASSUME NEW f
      PROVE  LET j == Stored(job[w], f)
                 k == [job[w] EXCEPT !.stored = @ \ {f}, !.overwritten = @ \ {f}]
             IN  /\ f \notin j.overwritten /\ j.at = job[w].at
                 /\ f \notin k.overwritten /\ k.at = job[w].at
  BY <1>1 DEF Stored, Job
<1>5. CASE PersistLedger(w)
  BY <1>2, <1>3, <1>4, <1>5 DEF PersistLedger, LeavesLedger, StandsAt, Reads
<1>6. CASE AttachThread(w)
  <2>1. job[w].stored \subseteq Findings
    BY <1>1 DEF Job
  <2>2. QED
    BY <1>3, <1>4, <1>6, <2>1 DEF AttachThread, StandsAt
<1>7. CASE ~PersistLedger(w) /\ ~AttachThread(w)
  <2>1. ledger' = ledger
    BY <1>7 DEF HandlerStep, Ignore, ReadContext, RecordTarget, RecordsTarget, FindActive,
       CreateCheck, CreatesCheck, RecordCheck, RecordsCheck, ClosedContext, ConflictContext,
       Think, ReachVerdict, ProviderCooldown, Progress, Publish, Decide, Republish,
       CallSucceeds, Calls, SkipMerge, RegisterRecheck, Recheck, Schedule, EnqueuesRecheck, Reads
  <2>2. \E j : Move(w, j)
    BY <1>7 DEF HandlerStep, Ignore, ReadContext, RecordTarget, FindActive,
       CreateCheck, RecordCheck, ClosedContext, ConflictContext, Think, ReachVerdict,
       ProviderCooldown, Publish, Decide, Approves, Republish, CallSucceeds, SkipMerge,
       RegisterRecheck, Recheck, Schedule, Go, Finish, Post, GoApprove
  <2>3. QED
    BY <1>2, <2>1, <2>2
<1>8. QED
  BY <1>5, <1>6, <1>7

(* Who is assured stays so: only who holds the last finding that was       *)
(* written can let the others down, and it is gone only when overwritten.  *)
LEMMA AssuredStays ==
  ASSUME ShapeInv, ExclusiveInv, RecordedInv, QuietPr, AssuredInv, NEW w \in Worker,
         HandlerStep(w), GoesOn(w), Assured
  PROVE  Assured'
<1>1. /\ JobsOK /\ ledger \in [Findings -> Ids \cup {0}] /\ run' = run
      /\ \A v \in Worker : v # w => Kept(v)
  <2>1. JobsOK /\ UniqueInv /\ OthersOK
    BY ShapeParts
  <2>2. QED
    BY <2>1, HandlerRows, OthersKept DEF OthersOK
<1>2. Reviewed(1) => Reviewed(1)'
  BY HandlerApproves DEF Reviewed
<1>3. ASSUME NEW f \in Findings, WroteFinding(w, f) PROVE Assured'
  <2>1. CASE job[w].at = "ledger"
    <3>1. StandsAt(w, "ledger")' /\ ledger'[f] = Me(w)'
      BY <1>1, <1>3, <2>1 DEF WroteFinding, StandsAt, Me
    <3>2. HoldsFinding(w)'
      BY <3>1 DEF HoldsFinding
    <3>3. QED
      BY <3>2 DEF Assured
  <2>2. CASE job[w].at = "post" /\ job[w].verdict = "FAIL"
    BY <1>2, <2>2 DEF AssuredInv, Assured
  <2>3. QED
    BY <1>3, <2>1, <2>2 DEF WroteFinding
<1>4. CASE ledger' = ledger
  <2>1. MixedLedger => MixedLedger'
    BY <1>4 DEF MixedLedger
  <2>2. ASSUME NEW v \in Worker, StandsAt(v, "republish") PROVE Assured'
    BY <1>1, <2>2 DEF GoesOn, Kept, StandsAt, Assured
  <2>3. ASSUME NEW v \in Worker, v # w, HoldsFinding(v) PROVE Assured'
    <3>1. HoldsFinding(v)'
      BY <1>1, <1>4, <2>3 DEF HoldsFinding, Kept, StandsAt, Me
    <3>2. QED
      BY <3>1 DEF Assured
  <2>4. CASE HoldsFinding(w)
    <3>1. PICK f \in Findings : ledger[f] = Me(w)
      BY <2>4 DEF HoldsFinding
    <3>2. Me(w) # 0 /\ job[w].at = "ledger"
      BY <2>4 DEF HoldsFinding, StandsAt, RecordedInv, ReportsOnRecorded, Me
    <3>3. <<job[w].at, job'[w].at>> \in LedgerMoves
          /\ (job'[w].at \in {"returned", "discard"} => job[w].overwritten # {})
      <4>1. PersistLedger(w)
        BY <3>2 DEF HandlerStep, StandsAt, Ignore, ReadContext, RecordTarget, FindActive,
         CreateCheck, RecordCheck, ClosedContext, ConflictContext, Think, ReachVerdict,
         ProviderCooldown, Publish, AttachThread, Republish, CallSucceeds, Calls,
         WriteCalls, SkipMerge, RegisterRecheck, Recheck, Schedule
      <4>2. QED
        BY <1>1, <4>1, LedgerStepMoves
    <3>4. CASE job'[w].at = "republish"
      BY <3>4 DEF Assured, StandsAt
    <3>5. CASE job'[w].at = "ledger"
      <4>1. HoldsFinding(w)'
        BY <1>1, <1>4, <3>1, <3>5 DEF HoldsFinding, StandsAt, Me
      <4>2. QED
        BY <4>1 DEF Assured
    <3>6. CASE job'[w].at \in {"returned", "discard"}
      <4>1. PICK g \in job[w].overwritten : TRUE
        BY <3>3, <3>6
      <4>2. g \in Findings /\ ledger[g] \notin {0, Me(w)}
        BY <1>1, <4>1 DEF AssuredInv, JobsOK, Job
      <4>3. MixedLedger
        BY <3>1, <3>2, <4>2 DEF MixedLedger
      <4>4. QED
        BY <2>1, <4>3 DEF Assured
    <3>7. QED
      BY <3>2, <3>3, <3>4, <3>5, <3>6 DEF LedgerMoves
  <2>5. QED
    BY <1>2, <2>1, <2>2, <2>3, <2>4 DEF Assured
<1>5. QED
  BY <1>1, <1>3, <1>4, HandlerOnLedger

(* A finding that is marked as overwritten is another row's: no two        *)
(* workers have one row.                                                   *)
LEMMA MarksStay ==
  ASSUME ShapeInv, ExclusiveInv, RecordedInv, AssuredInv, NEW w \in Worker,
         HandlerStep(w), GoesOn(w), NEW v \in Worker, NEW f \in job'[v].overwritten
  PROVE  ledger'[f] \notin {0, Me(v)'}
<1>1. /\ JobsOK /\ ledger \in [Findings -> Ids \cup {0}] /\ run' = run
      /\ OneWorkerPerRow
  <2>1. JobsOK /\ UniqueInv /\ OthersOK
    BY ShapeParts
  <2>2. QED
    BY <2>1, HandlerRows, ExclusiveParts DEF OthersOK
<1>2. ASSUME NEW g \in job[v].overwritten PROVE g \in Findings /\ ledger[g] \notin {0, Me(v)}
  BY <1>1, <1>2 DEF AssuredInv, JobsOK, Job
<1>3. CASE ledger' = ledger /\ f \in job[v].overwritten
  BY <1>1, <1>2, <1>3 DEF Me
<1>4. ASSUME NEW g \in Findings, WroteFinding(w, g) PROVE ledger'[f] \notin {0, Me(v)'}
  <2>1. run[w].id # 0
    BY <1>4 DEF WroteFinding, RecordedInv, ReportsOnRecorded
  <2>2. CASE f = g
    <3>1. v # w
      BY <1>4, <2>2 DEF WroteFinding
    <3>2. ledger'[f] = Me(w) /\ Me(w) # 0 /\ Me(w) # Me(v)
      BY <1>1, <1>4, <2>1, <2>2, <3>1 DEF WroteFinding, OneWorkerPerRow, Me
    <3>3. QED
      BY <1>1, <3>2 DEF Me
  <2>3. CASE f # g
    <3>1. f \in job[v].overwritten
      <4>1. CASE v = w
        BY <4>1 DEF GoesOn
      <4>2. CASE v # w
        <5>1. job'[v].overwritten \in {job[v].overwritten, job[v].overwritten \cup {g}}
          BY <1>4, <4>2 DEF WroteFinding
        <5>2. QED
          BY <2>3, <5>1
      <4>3. QED
        BY <4>1, <4>2
    <3>2. f \in Findings /\ ledger[f] \notin {0, Me(v)}
      BY <1>2, <3>1
    <3>3. ledger'[f] = ledger[f]
      BY <1>1, <1>4, <2>3, <3>2 DEF WroteFinding
    <3>4. QED
      BY <1>1, <3>2, <3>3 DEF Me
  <2>4. QED
    BY <2>2, <2>3
<1>5. QED
  BY <1>1, <1>3, <1>4, HandlerOnLedger DEF GoesOn

(* The handlers keep the invariant.                                        *)
LEMMA HandlerQuiet ==
  ASSUME ShapeInv, ExclusiveInv, RecordedInv, QuietInv, NEW w \in Worker, HandlerStep(w)
  PROVE  QuietInv'
<1>1. JobsOK /\ OthersOK /\ rec \in [Ids -> Record] /\ UniqueInv /\ pr \in PullRequest
  BY ShapeParts DEF OthersOK
<1>2. UNCHANGED <<pod, pc, run>>
  BY <1>1, HandlerRows
<1>3. PodsUp' /\ PodsUp /\ FirstRow
  BY <1>2 DEF QuietInv, PodsUp
<1>4. /\ FirstRow'
      /\ 1 \in Ids /\ rows'[1].status = "completed" => rows[1].status = "completed"
  <2>1. CASE rows' = rows
    BY <1>3, <2>1 DEF FirstRow
  <2>2. CASE rows' # rows
    <3>1. EnqueuesRecheck(w) /\ StandsAt(w, "schedule")
      BY <2>2, HandlerOnQueue DEF vars, Schedule
    <3>2. run[w].id # 0
      BY <3>1 DEF RecordedInv, ReportsOnRecorded, StandsAt
    <3>3. \E h \in Ids : rows[h].status # "absent"
      BY <1>1, <3>2 DEF UniqueInv, HeldRowsExist, TypeOK, Snapshot
    <3>4. QED
      BY <1>1, <1>3, <3>1, <3>3, EnqueueFirst DEF EnqueuesRecheck
  <2>3. QED
    BY <2>1, <2>2
<1>5. pr'.events = 0 => pr.events = 0
  <2>1. pr' = pr \/ pr' = [pr EXCEPT !.open = FALSE]
    BY HandlerOnPr DEF Calls
  <2>2. QED
    BY <1>1, <2>1 DEF PullRequest
<1>6. ASSUME pr.events = 0 PROVE QuietPr' /\ AssuredInv'
  <2>1. QuietPr /\ AssuredInv
    BY <1>6 DEF QuietInv
  <2>2. GateJob(job'[w]) /\ GoesOn(w)
    BY <1>1, <1>3, <2>1, HandlerGoesOn
  <2>3. \A v \in Worker : v # w => Kept(v)
    BY <1>1, OthersKept
  <2>4. QuietPr'
    <3>1. pr' = pr /\ \A i \in Ids : rec'[i].kind # "agent"
      BY <1>1, <2>1, HandlerLeavesQuiet
    <3>2. \A v \in Worker : GateJob(job'[v])
      BY <2>1, <2>2, <2>3 DEF QuietPr, GateJob, Kept
    <3>3. QED
      BY <2>1, <3>1, <3>2 DEF QuietPr
  <2>5. Reviewed(1) => Reviewed(1)'
    BY HandlerApproves DEF Reviewed
  <2>6. (Assured \/ Reviewed(1)' \/ job'[w].at = "republish") => Assured'
    <3>1. Assured => Assured'
      BY <2>1, <2>2, AssuredStays
    <3>2. QED
      BY <3>1 DEF Assured, StandsAt
  <2>7. ASSUME NEW f \in Findings, ledger'[f] # 0 PROVE Assured'
    <3>1. CASE ledger[f] # 0
      BY <2>1, <2>6, <3>1 DEF AssuredInv
    <3>2. CASE ledger[f] = 0
      <4>1. PICK g \in Findings : WroteFinding(w, g)
        BY <1>1, <2>7, <3>2, HandlerOnLedger
      <4>2. ledger'[g] = Me(w)'
        BY <1>1, <1>2, <4>1 DEF WroteFinding, OthersOK, Me
      <4>3. CASE job[w].at = "ledger"
        <5>1. HoldsFinding(w)'
          BY <4>1, <4>2, <4>3 DEF WroteFinding, HoldsFinding, StandsAt
        <5>2. QED
          BY <5>1 DEF Assured
      <4>4. CASE job[w].at = "post" /\ job[w].verdict = "FAIL"
        BY <2>1, <2>6, <4>4 DEF AssuredInv, Assured
      <4>5. QED
        BY <4>1, <4>3, <4>4 DEF WroteFinding
    <3>3. QED
      BY <3>1, <3>2
  <2>11. \A v \in Worker : \A f \in job'[v].overwritten : ledger'[f] \notin {0, Me(v)'}
    BY <2>1, <2>2, MarksStay
  <2>12. ASSUME NEW v \in Worker, job'[v].at = "post", job'[v].verdict = "FAIL"
         PROVE  Reviewed(1)'
    <3>1. CASE v = w
      BY <2>1, <2>2, <2>5, <2>12, <3>1 DEF GoesOn, AssuredInv
    <3>2. CASE v # w
      BY <2>1, <2>3, <2>5, <2>12, <3>2 DEF Kept, AssuredInv
    <3>3. QED
      BY <3>1, <3>2
  <2>8. ASSUME NEW v \in Worker, RowOneOver(v)' PROVE Assured'
    <3>1. run[v].id = 1 /\ pc[v] = "busy"
      BY <1>2, <2>8 DEF RowOneOver
    <3>2. CASE v = w
      <4>1. ~\E i \in Ids : i < Me(w)
        BY <3>1, <3>2 DEF Me, Ids
      <4>2. job'[w].at \notin Early
        BY <2>8, <3>2 DEF RowOneOver
      <4>3. job[w].at \notin Early => Assured
        BY <2>1, <3>1, <3>2 DEF AssuredInv, RowOneOver
      <4>5. ASSUME NEW f \in job[w].overwritten PROVE Assured
        BY <1>1, <2>1, <4>5 DEF AssuredInv, JobsOK, Job
      <4>4. QED
        BY <2>2, <2>6, <4>1, <4>2, <4>3, <4>5 DEF GoesOn
    <3>3. CASE v # w
      <4>1. RowOneOver(v)
        BY <2>3, <2>8, <3>1, <3>3 DEF RowOneOver, Kept
      <4>2. QED
        BY <2>1, <2>6, <4>1 DEF AssuredInv
    <3>4. QED
      BY <3>2, <3>3
  <2>9. AssuredInv'
    BY <1>4, <2>1, <2>6, <2>7, <2>8, <2>11, <2>12 DEF AssuredInv
  <2>10. QED
    BY <2>4, <2>9
<1>7. QED
  BY <1>3, <1>4, <1>5, <1>6 DEF QuietInv

(* Without outages no pod moves, and without errors of the database every  *)
(* settling is heard of.                                                   *)
Faultless == MaxOutages = 0 /\ MaxDbErrors = 0 /\ MaxCallErrors = 0
ReviewsOnly == \A k \in Requests : JobKind[k] # "agent"

(* No pod stops and no call to the database fails.                         *)
LEMMA NoPodStep ==
  ASSUME Faultless, TypeOK, PodsUp, NEW p \in Pods
  PROVE  ~PodStep(p)
<1>1. ~CountOutage /\ pod[p] = "up"
  BY DEF Faultless, TypeOK, CountOutage, PodsUp
<1>2. QED
  BY <1>1 DEF PodStep, Stop, Exit, ForceExit, Crash, Restart

LEMMA NoDbError ==
  ASSUME Faultless, TypeOK
  PROVE  ~CountDbError
  BY DEF Faultless, TypeOK, CountDbError

(* A row is completed only by a loop whose handler returned.               *)
LEMMA WhoCompletes ==
  ASSUME Faultless, TypeOK, PodsUp, QueueStep, NEW i \in Ids,
         rows'[i].status = "completed", rows[i].status # "completed"
  PROVE  \E w \in Worker : run[w].id = i /\ pc[w] = "busy" /\ StandsAt(w, "returned")
<1>1. rows[i] \in Row
  BY DEF TypeOK
<1>2. ASSUME NEW n \in Ids, TimeStep(n) PROVE FALSE
  <2>1. rows'[i].status = rows[i].status
    BY <1>2 DEF TypeOK, TimeStep, LeaseExpires, BecomesDue, RetryWindowCloses, Row
  <2>2. QED
    BY <2>1
<1>3. ASSUME NEW w \in Worker, Polls(w) PROVE FALSE
  <2>1. ASSUME NEW n \in Ids, LeaseExpiredFinal(w, n) PROVE FALSE
    <3>1. rows'[i].status = rows[i].status
      BY <1>1, <2>1 DEF LeaseExpiredFinal, RecoveredRow, TypeOK, Row
    <3>2. QED
      BY <3>1
  <2>2. ASSUME NEW n \in Ids, LeaseNext(w, n) PROVE FALSE
    <3>1. rows'[i].status \in {"running", rows[i].status}
      BY <1>1, <2>2 DEF LeaseNext, LeasedRow, TypeOK, Row
    <3>2. QED
      BY <3>1
  <2>3. QED
    BY <1>3, <2>1, <2>2, NoDbError
       DEF Polls, BeginPoll, NoExpiredFinal, NothingToLease, LeaseLost, ExitLoop
<1>4. ASSUME NEW w \in Worker, Settles(w)
      PROVE  run[w].id = i /\ pc[w] = "busy" /\ StandsAt(w, "returned")
  <2>1. ASSUME NEW x, Settle(w, x)
        PROVE  run[w].id = i /\ x.status = "completed"
    BY <2>1 DEF Settle, TypeOK
  <2>2. ASSUME NEW r \in Row, NEW n
        PROVE  /\ FailedRow(r, n).status \in {"queued", "failed"}
               /\ DeferredRow(r).status = "queued" /\ ExpiredFailedRow(r).status = "failed"
    <3>1. ASSUME NEW st \in {"queued", "failed"}
          PROVE  Released(r, st).status = st /\ Released(r, st) \in Row
      BY <2>2, <3>1 DEF Released, Row
    <3>2. ASSUME NEW s \in Row, NEW m
          PROVE  /\ [s EXCEPT !.due = FALSE].status = s.status
                 /\ [s EXCEPT !.attempts = m, !.due = FALSE].status = s.status
      BY <3>2 DEF Row
    <3>3. QED
      BY <3>1, <3>2 DEF FailedRow, DeferredRow, ExpiredFailedRow
  <2>3. ~Fail(w) /\ ~DeferForTransientFailure(w) /\ ~DeferForProviderCooldown(w)
        /\ ~FailExpiredFinalAttempt(w)
    BY <1>1, <2>1, <2>2 DEF Fail, DeferForTransientFailure, DeferForProviderCooldown,
                           FailExpiredFinalAttempt
  <2>4. Complete(w) /\ StandsAt(w, "returned") /\ pc[w] = "busy"
    BY <1>4, <2>3, NoDbError DEF Settles, CompleteThrows, SettleThrows
  <2>5. QED
    BY <2>1, <2>4 DEF Complete
<1>5. QED
  BY <1>2, <1>3, <1>4, NoPodStep DEF QueueStep

(* A loop goes to work on a row only as it takes it up.                    *)
LEMMA WhoIsBusy ==
  ASSUME ExclusiveInv, QueueStep \/ (\E k \in Requests : RequestJob(k)), NEW v \in Worker,
         pc'[v] = "busy", pc[v] # "busy"
  PROVE  run'[v].id # run[v].id
<1>1. TypeOK
  BY ExclusiveParts
<1>2. ASSUME NEW w \in Worker, Polls(w) PROVE run'[v].id # run[v].id
  <2>1. PICK i \in Ids : LeaseNext(v, i)
    BY <1>1, <1>2 DEF Polls, BeginPoll, LeaseExpiredFinal, NoExpiredFinal, LeaseNext,
                NothingToLease, LeaseLost, ExitLoop, Goto, TypeOK
  <2>2. SeesItsRow(v)
    BY ExclusiveParts
  <2>3. QED
    BY <1>1, <2>1, <2>2 DEF LeaseNext, SeesItsRow, Working, TypeOK, Ids
<1>3. ASSUME NEW w \in Worker, Settles(w) PROVE FALSE
  BY <1>1, <1>3 DEF Settles, Complete, CompleteThrows, Fail, DeferForTransientFailure,
     DeferForProviderCooldown, FailExpiredFinalAttempt, SettleThrows, Settle, LetGo, Goto, TypeOK
<1>4. ASSUME NEW p \in Pods, PodStep(p) PROVE FALSE
  BY <1>1, <1>4 DEF PodStep, Stop, Exit, ForceExit, Crash, Restart, PodDown, TypeOK
<1>5. ASSUME NEW i \in Ids, TimeStep(i) PROVE FALSE
  BY <1>5 DEF TimeStep, LeaseExpires, BecomesDue, RetryWindowCloses
<1>6. ASSUME NEW k \in Requests, RequestJob(k) PROVE FALSE
  BY <1>6 DEF RequestJob, Enqueue
<1>7. QED
  BY <1>2, <1>3, <1>4, <1>5, <1>6 DEF QueueStep

(* The queue keeps the invariant.                                          *)
LEMMA QueueQuiet ==
  ASSUME Faultless, ReviewsOnly, ShapeInv, ExclusiveInv, RecordedInv, TypeOK', QuietInv,
         QueueStep \/ \E k \in Requests : RequestJob(k)
  PROVE  QuietInv'
<1>1. /\ FollowQueue
      /\ \A i \in Ids : rows[i].status # "absent" =>
           rows'[i].status # "absent" /\ rows'[i].key = rows[i].key
      /\ \A w \in Worker : (run'[w].id # run[w].id /\ run'[w].id # 0) =>
           run'[w].id \in Ids /\ rows[run'[w].id].status # "absent"
  BY QueueHands
<1>2. /\ UniqueInv /\ RowKeysKnown /\ TypeOK /\ ReviewTypeOK /\ PodsUp /\ FirstRow
      /\ \A v \in Worker : ReportsOnRecorded(v)
  BY ShapeParts, ExclusiveParts DEF QuietInv, RecordedInv, ShapeInv
<1>3. PodsUp'
  <2>1. pod' = pod
    BY <1>2, NoPodStep DEF QueueStep, Polls, BeginPoll, LeaseExpiredFinal, NoExpiredFinal,
       LeaseNext, NothingToLease, LeaseLost, ExitLoop, Settles, Complete, CompleteThrows, Fail,
       DeferForTransientFailure, DeferForProviderCooldown, FailExpiredFinalAttempt,
       SettleThrows, Settle, LetGo, TimeStep, LeaseExpires, BecomesDue, RetryWindowCloses,
       RequestJob, Enqueue
  <2>2. QED
    BY <1>2, <2>1 DEF PodsUp
<1>4. FirstRow'
  <2>1. CASE QueueStep
    BY <1>2, <2>1, QueueStepKeys DEF SameKeys, FirstRow, Ids
  <2>2. ASSUME NEW k \in Requests, RequestJob(k) PROVE FirstRow'
    BY <1>2, <2>2, EnqueueFirst DEF RequestJob
  <2>3. QED
    BY <2>1, <2>2
<1>5. ASSUME NEW v \in Worker, run'[v].id # run[v].id
      PROVE  job[v].at \in {"none", "returned", "threw", "cooldown"}
  <2>1. ~GoesDown(PodOf(v))
    BY <1>3, WorkerParts DEF PodsUp, GoesDown
  <2>2. run[v].id = 0 \/ LetsGo(v)
    BY <1>5, <2>1, QueueStepHands DEF Hands
  <2>3. QED
    BY <1>2, <2>2 DEF ReportsOnRecorded, LetsGo, StandsAt
<1>6. ASSUME NEW v \in Worker
      PROVE  \/ run'[v].id = run[v].id /\ job'[v] = job[v]
             \/ /\ run'[v].id # run[v].id /\ job'[v].kind # "agent" /\ job'[v].verdict = "none"
                /\ job'[v].at \in {"none", "expired", "register", "context", "ignore"}
                /\ job'[v].overwritten = {}
                /\ run'[v].id = 1 /\ pc'[v] = "busy" => job'[v].at \in {"context", "ignore"}
  <2>1. CASE run'[v].id = run[v].id
    BY <1>1, <2>1 DEF FollowQueue
  <2>2. CASE run'[v].id # run[v].id /\ run'[v].id = 0
    <3>1. job'[v] = NoJob
      BY <1>1, <2>2 DEF FollowQueue
    <3>2. /\ job'[v].kind # "agent" /\ job'[v].verdict = "none"
          /\ job'[v].at = "none" /\ job'[v].overwritten = {}
      BY <3>1 DEF NoJob
    <3>3. run'[v].id # 1
      BY <2>2
    <3>4. QED
      BY <2>2, <3>2, <3>3
  <2>3. CASE run'[v].id # run[v].id /\ run'[v].id # 0 /\ pc'[v] = "recovering"
    BY <1>1, <2>3 DEF FollowQueue, NoJob
  <2>4. CASE run'[v].id # run[v].id /\ run'[v].id # 0 /\ pc'[v] # "recovering"
    <3> DEFINE i == run'[v].id
    <3>1. job'[v] = Started(i) /\ i \in Ids /\ rows[i].status # "absent"
      BY <1>1, <2>4 DEF FollowQueue
    <3>2. CASE IsRecheck(rows[i].key)
      <4>1. /\ job'[v].at = "register" /\ job'[v].kind = "ci_recheck"
            /\ job'[v].verdict = "none" /\ job'[v].overwritten = {}
        BY <3>1, <3>2 DEF Started, NoJob
      <4>2. i # 1
        BY <1>2, <3>1, <3>2 DEF FirstRow, IsRecheck
      <4>3. QED
        BY <2>4, <4>1, <4>2
    <3>3. CASE ~IsRecheck(rows[i].key)
      <4>1. rows[i].key \in Requests
        BY <1>2, <3>1, <3>3 DEF RowKeysKnown, IsRecheck
      <4>2. /\ job'[v].at \in {"context", "ignore"} /\ job'[v].kind = JobKind[rows[i].key]
            /\ job'[v].verdict = "none" /\ job'[v].overwritten = {}
        BY <3>1, <3>3 DEF Started, NoJob
      <4>3. QED
        BY <2>4, <4>1, <4>2 DEF ReviewsOnly
    <3>4. QED
      BY <3>2, <3>3
  <2>5. QED
    BY <2>1, <2>2, <2>3, <2>4
<1>7. pr' = pr /\ verdicts' = verdicts /\ ledger' = ledger
  BY <1>1 DEF FollowQueue, github
<1>8. ASSUME pr.events = 0 PROVE QuietPr' /\ AssuredInv'
  <2>1. QuietPr /\ AssuredInv
    BY <1>8 DEF QuietInv
  <2>2. QuietPr'
    <3>1. \A i \in Ids : rec'[i].kind # "agent"
      <4>1. \A i \in Ids : rec'[i].kind = rec[i].kind
        BY ZenonT(30), <1>1, <1>2 DEF FollowQueue, Stamped, ReviewTypeOK, Record
      <4>2. QED
        BY <2>1, <4>1 DEF QuietPr
    <3>2. ASSUME NEW v \in Worker PROVE GateJob(job'[v])
      <4>1. CASE job'[v] = job[v]
        BY <2>1, <4>1 DEF QuietPr
      <4>2. CASE job'[v] # job[v]
        BY <1>6, <4>2 DEF GateJob, Planning, Pinned, AgentVerdict
      <4>3. QED
        BY <4>1, <4>2
    <3>3. QED
      BY <1>7, <2>1, <3>1, <3>2 DEF QuietPr
  <2>3. ASSUME Assured PROVE Assured'
    <3>1. CASE Reviewed(1)
      BY <1>7, <3>1 DEF Assured, Reviewed
    <3>2. ASSUME NEW v \in Worker, StandsAt(v, "republish") PROVE Assured'
      <4>1. run'[v].id = run[v].id
        BY <1>5, <3>2 DEF StandsAt
      <4>2. job'[v].at = "republish"
        BY <1>6, <3>2, <4>1 DEF StandsAt
      <4>3. QED
        BY <4>2 DEF Assured, StandsAt
    <3>3. ASSUME NEW v \in Worker, HoldsFinding(v) PROVE Assured'
      <4>1. run'[v].id = run[v].id
        BY <1>5, <3>3 DEF HoldsFinding, StandsAt
      <4>2. HoldsFinding(v)'
        BY <1>6, <1>7, <3>3, <4>1 DEF HoldsFinding, StandsAt, Me
      <4>3. QED
        BY <4>2 DEF Assured
    <3>4. CASE MixedLedger
      BY <1>7, <3>4 DEF MixedLedger, Assured
    <3>5. QED
      BY <2>3, <3>1, <3>2, <3>3, <3>4 DEF Assured
  <2>4. /\ \A f \in Findings : ledger'[f] # 0 => Assured'
        /\ \A v \in Worker : \A f \in job'[v].overwritten : ledger'[f] \notin {0, Me(v)'}
        /\ \A v \in Worker : job'[v].at = "post" /\ job'[v].verdict = "FAIL" => Reviewed(1)'
    <3>1. \A f \in Findings : ledger'[f] # 0 => Assured'
      BY <1>7, <2>1, <2>3 DEF AssuredInv
    <3>2. ASSUME NEW v \in Worker, NEW f \in job'[v].overwritten
          PROVE  ledger'[f] \notin {0, Me(v)'}
      BY <1>6, <1>7, <2>1, <3>2 DEF AssuredInv, Me
    <3>3. ASSUME NEW v \in Worker, job'[v].at = "post", job'[v].verdict = "FAIL"
          PROVE  Reviewed(1)'
      BY <1>6, <1>7, <2>1, <3>3 DEF AssuredInv, Reviewed
    <3>4. QED
      BY <3>1, <3>2, <3>3
  <2>5. ASSUME NEW v \in Worker, RowOneOver(v)' PROVE Assured'
    <3>1. run'[v].id = 1 /\ pc'[v] = "busy" /\ job'[v].at \notin Early
      BY <2>5 DEF RowOneOver
    <3>2. run'[v].id = run[v].id /\ job'[v] = job[v]
      BY <1>6, <3>1 DEF Early
    <3>3. pc[v] = "busy"
      BY <3>1, <3>2, WhoIsBusy
    <3>4. QED
      BY <2>1, <2>3, <3>1, <3>2, <3>3 DEF RowOneOver, AssuredInv
  <2>6. ASSUME 1 \in Ids, rows'[1].status = "completed" PROVE Assured'
    <3>1. CASE rows[1].status = "completed"
      BY <2>1, <2>3, <2>6, <3>1 DEF AssuredInv
    <3>2. CASE QueueStep /\ rows[1].status # "completed"
      <4>1. PICK w \in Worker : run[w].id = 1 /\ pc[w] = "busy" /\ StandsAt(w, "returned")
        BY <1>2, <2>6, <3>2, WhoCompletes
      <4>2. RowOneOver(w)
        BY <4>1 DEF RowOneOver, StandsAt, Early
      <4>3. QED
        BY <2>1, <2>3, <4>2 DEF AssuredInv
    <3>3. ASSUME NEW k \in Requests, RequestJob(k) PROVE Assured'
      <4>1. rows[1].status = "completed"
        BY <1>2, <2>6, <3>3, EnqueueFirst DEF RequestJob
      <4>2. QED
        BY <3>1, <4>1
    <3>4. QED
      BY <3>1, <3>2, <3>3
  <2>7. QED
    BY <2>2, <2>4, <2>5, <2>6 DEF AssuredInv
<1>9. QED
  BY <1>3, <1>4, <1>7, <1>8 DEF QuietInv

(* One step of the system.                                                 *)
LEMMA QuietInductive ==
  ASSUME Faultless, ReviewsOnly
  PROVE  ShapeInv /\ ExclusiveInv /\ RecordedInv /\ QuietInv /\ [ReviewNext]_reviewVars => QuietInv'
<1> SUFFICES ASSUME ShapeInv, ExclusiveInv, RecordedInv, QuietInv, [ReviewNext]_reviewVars
             PROVE  QuietInv'
  OBVIOUS
<1>1. TypeOK'
  BY ShapeInductive DEF ShapeInv, ReviewTypeOK
<1>2. ASSUME NEW w \in Worker, CallFails(w) \/ CreateFails(w) PROVE FALSE
  <2>1. errors \in Nat
    BY DEF ShapeInv, ReviewTypeOK
  <2>2. QED
    BY <1>2, <2>1 DEF CallFails, CreateFails, CountError, Faultless
<1>3. CASE PrEvent
  <2>1. pr'.events # 0 /\ UNCHANGED <<pod, rows>>
    <3>1. pr.events \in Nat
      BY DEF ShapeInv, ReviewTypeOK, PullRequest
    <3>2. pr'.events = pr.events + 1
      BY <1>3 DEF PrEvent
    <3>3. QED
      BY <1>3, <3>1, <3>2 DEF PrEvent, vars
  <2>2. QED
    BY <2>1 DEF QuietInv, PodsUp, FirstRow
<1>4. CASE UNCHANGED reviewVars
  BY <1>4 DEF reviewVars, vars, github, QuietInv, PodsUp, FirstRow, QuietPr, AssuredInv, Assured,
              RowOneOver, StandsAt, Reviewed, HoldsFinding, MixedLedger, Me
<1>5. QED
  BY <1>1, <1>2, <1>3, <1>4, QueueQuiet, HandlerQuiet DEF ReviewNext, ReviewStep

(* If nothing fails and leases outlive runs: once every row is completed   *)
(* and the PR has stood still, its HEAD was reviewed, however many         *)
(* requests race, or the ledger is left with findings of two reviews that  *)
(* wrote over each other's and may both have been discarded. Coalescing    *)
(* alone, and a race for a single finding, never drop the last review that *)
(* would have said something.                                              *)
THEOREM QuietPrIsReviewed ==
  ASSUME LeaseOutlivesRun, MaxOutages = 0, MaxDbErrors = 0, MaxCallErrors = 0,
         \A k \in Requests : JobKind[k] # "agent"
  PROVE  ReviewSpec => []RequestsLeadToReview
<1>1. Faultless /\ ReviewsOnly
  BY DEF Faultless, ReviewsOnly
<1>2. ReviewInit => QuietInv
  <2> SUFFICES ASSUME ReviewInit PROVE QuietInv
    OBVIOUS
  <2>1. \A i \in Ids : rows[i].status = "absent"
    BY DEF ReviewInit, Init, AbsentRow
  <2>2. PodsUp /\ FirstRow
    BY <2>1 DEF ReviewInit, Init, PodsUp, FirstRow
  <2>3. QuietPr
    BY DEF ReviewInit, QuietPr, NoRecord, NoJob, GateJob, Planning, Pinned, AgentVerdict
  <2>4. AssuredInv
    BY <2>1 DEF ReviewInit, Init, AssuredInv, RowOneOver, NoJob, NoRun
  <2>5. QED
    BY <2>2, <2>3, <2>4 DEF QuietInv
<1>3. ShapeInv /\ ExclusiveInv /\ RecordedInv /\ QuietInv => RequestsLeadToReview
  <2> SUFFICES ASSUME ShapeInv, ExclusiveInv, RecordedInv, QuietInv,
                      RowsInserted > 0, pr.events = 0,
                      \A i \in Ids : rows[i].status \in {"absent", "completed"}
               PROVE  Reviewed(pr.head) \/ MixedLedger
    BY DEF RequestsLeadToReview
  <2>1. QuietPr /\ AssuredInv /\ FirstRow
    BY DEF QuietInv
  <2>2. PICK i \in Ids : rows[i].status # "absent"
    <3>1. CASE {i \in Ids : rows[i].status # "absent"} = {}
      <4>1. Cardinality({}) = 0
        BY FS_EmptySet
      <4>2. RowsInserted = 0
        BY <3>1, <4>1 DEF RowsInserted
      <4>3. QED
        BY <4>2
    <3>2. QED
      BY <3>1
  <2>3. 1 \in Ids /\ rows[1].status = "completed"
    BY <2>1, <2>2 DEF FirstRow, Ids
  <2>4. ASSUME NEW w \in Worker, StandsAt(w, "republish") \/ HoldsFinding(w) PROVE FALSE
    <3>1. run[w].id # 0 /\ pc[w] # "failing"
      BY <2>4 DEF RecordedInv, ReportsOnRecorded, StandsAt, HoldsFinding
    <3>2. SeesItsRow(w) /\ run[w].id \in Ids
      BY <3>1, ExclusiveParts DEF TypeOK, Snapshot
    <3>3. rows[run[w].id].status = "running"
      BY <3>1, <3>2 DEF SeesItsRow
    <3>4. QED
      BY <3>2, <3>3
  <2>5. QED
    BY <2>1, <2>3, <2>4 DEF AssuredInv, Assured, QuietPr
<1>4. QED
  BY <1>1, <1>2, <1>3, QuietInductive, ShapeAlways, ReviewExclusive,
     RecordedAlways, PTL DEF ReviewSpec
-----------------------------------------------------------------------------
(***************************************************************************)
(* Without faults a row is taken up once. No worker gets a row for the     *)
(* second time, so no job starts with a check run that was created for a   *)
(* HEAD the PR may have left since.                                        *)
(***************************************************************************)
Faulty == {"threw", "cooldown", "abort", "expired", "merge", "closed"}

FirstTry(w) ==
  LET j == job[w] IN
  /\ j.kind # "agent" /\ j.plan # "closed" /\ j.at \notin Faulty
  /\ j.at \in Arrivals => j.check = NoCheck
  /\ pc[w] \notin {"failing", "recovering"}

TakenOnce(i) ==
  /\ rows[i].status \in {"absent", "queued"} => rec[i].check = NoCheck
  /\ rows[i].status = "running" => \E w \in Worker : run[w].id = i
  /\ rec[i].kind # "agent"

OnceInv == PodsUp /\ (\A w \in Worker : FirstTry(w)) /\ \A i \in Ids : TakenOnce(i)

(* The queries find nothing but queued rows: all others are settled or in  *)
(* somebody's hands.                                                       *)
LEMMA OnlyQueuedFound ==
  ASSUME ExclusiveInv, OnceInv, NEW i \in Ids,
         ExpiredFinal(i) \/ (\E lane \in Lanes : Leasable(i, lane))
  PROVE  rows[i].status = "queued"
<1>1. rows[i].status # "running"
  BY NotHeld DEF OnceInv, TakenOnce
<1>2. QED
  BY <1>1 DEF ExpiredFinal, Leasable

(* What the queue can do then.                                             *)
LEMMA QueueSteadily ==
  ASSUME Faultless, ExclusiveInv, OnceInv, QueueStep
  PROVE  /\ \/ UNCHANGED <<rows, run>>
            \/ \E i \in Ids : UNCHANGED run /\ TimeStep(i)
            \/ \E w \in Worker, i \in Ids : LeaseNext(w, i) /\ rows[i].status = "queued"
            \/ \E w \in Worker : StandsAt(w, "returned") /\ Complete(w)
         /\ pod' = pod
         /\ \A v \in Worker : pc'[v] \notin {"failing", "recovering"}
<1>1. TypeOK /\ PodsUp /\ \A v \in Worker : FirstTry(v)
  BY ExclusiveParts DEF OnceInv
<1>2. \A v \in Worker : pc[v] \notin {"failing", "recovering"} /\ job[v].at \notin Faulty
  BY <1>1 DEF FirstTry
<1>3. ASSUME NEW phase \in {"idle", "polling", "leasing", "busy", "exited"}, NEW w \in Worker,
             Goto(w, phase)
      PROVE  \A v \in Worker : pc'[v] \notin {"failing", "recovering"}
  BY <1>1, <1>2, <1>3 DEF Goto, TypeOK
<1>4. ~CountDbError
  BY <1>1, NoDbError
<1>5. ASSUME NEW i \in Ids, TimeStep(i)
      PROVE  UNCHANGED <<run, pod, pc>>
  BY <1>5 DEF TimeStep, LeaseExpires, BecomesDue, RetryWindowCloses
<1>6. ASSUME NEW w \in Worker, Polls(w)
      PROVE  /\ \/ UNCHANGED <<rows, run>>
                \/ \E i \in Ids : LeaseNext(w, i) /\ rows[i].status = "queued"
             /\ pod' = pod
             /\ \E phase \in {"idle", "polling", "leasing", "busy", "exited"} : Goto(w, phase)
  <2>1. ASSUME NEW i \in Ids, LeaseExpiredFinal(w, i) PROVE FALSE
    <3>1. rows[i].status = "running"
      BY <2>1 DEF LeaseExpiredFinal, ExpiredFinal
    <3>2. QED
      BY <2>1, <3>1, OnlyQueuedFound DEF LeaseExpiredFinal
  <2>2. ASSUME NEW i \in Ids, LeaseNext(w, i)
        PROVE  rows[i].status = "queued" /\ pod' = pod /\ Goto(w, "busy")
    <3>1. Leasable(i, LaneOf(w)) /\ LaneOf(w) \in Lanes
      BY <2>2, WorkerParts DEF LeaseNext, FirstLeasable
    <3>2. QED
      BY <2>2, <3>1, OnlyQueuedFound DEF LeaseNext
  <2>3. QED
    BY <1>4, <1>6, <2>1, <2>2 DEF Polls, BeginPoll, NoExpiredFinal, NothingToLease, LeaseLost,
                                 ExitLoop
<1>7. ASSUME NEW w \in Worker, Settles(w)
      PROVE  /\ StandsAt(w, "returned") /\ Complete(w)
             /\ pod' = pod /\ Goto(w, "idle")
  <2>1. StandsAt(w, "returned") /\ Complete(w)
    BY <1>2, <1>4, <1>7 DEF Settles, CompleteThrows, SettleThrows, FailExpiredFinalAttempt,
                           StandsAt, Faulty
  <2>2. QED
    BY <2>1 DEF Complete, Settle, LetGo
<1>8. QED
  BY <1>1, <1>3, <1>5, <1>6, <1>7, NoPodStep, <1>2 DEF QueueStep

(* Whose job that changes: of a loop that is through with its row, or of   *)
(* one that takes up a queued row.                                         *)
LEMMA JobChanges ==
  ASSUME Faultless, ExclusiveInv, OnceInv, QueueStep \/ (\E k \in Requests : RequestJob(k)),
         FollowQueue, NEW v \in Worker
  PROVE  \/ run'[v] = run[v] /\ job'[v] = job[v]
         \/ /\ run'[v].id = 0 /\ job'[v] = NoJob /\ StandsAt(v, "returned")
            /\ run[v].id # 0 => rows'[run[v].id].status = "completed"
         \/ /\ run[v].id = 0 /\ run'[v].id \in Ids /\ rows[run'[v].id].status = "queued"
            /\ rows'[run'[v].id].status = "running" /\ job'[v] = Started(run'[v].id)
<1>1. TypeOK /\ \A u \in Worker : SeesItsRow(u)
  BY ExclusiveParts
<1>2. CASE UNCHANGED run
  BY <1>2 DEF FollowQueue
<1>3. ASSUME NEW w \in Worker, NEW i \in Ids, LeaseNext(w, i), rows[i].status = "queued"
      PROVE  \/ v # w /\ run'[v] = run[v]
             \/ v = w /\ run[v].id = 0 /\ run'[v].id = i /\ rows'[i].status = "running"
                /\ pc'[v] = "busy"
  <2>1. rows[i] \in Row /\ i # 0
    BY <1>1 DEF TypeOK, Ids
  <2>2. rows'[i].status = "running"
    BY <1>1, <1>3, <2>1 DEF LeaseNext, LeasedRow, TypeOK, Row
  <2>3. QED
    BY <1>1, <1>3, <2>2 DEF LeaseNext, Goto, TypeOK, SeesItsRow, Working
<1>4. ASSUME NEW w \in Worker, StandsAt(w, "returned"), Complete(w)
      PROVE  \/ v # w /\ run'[v] = run[v]
             \/ /\ v = w /\ run'[v].id = 0
                /\ run[v].id # 0 => rows'[run[v].id].status = "completed"
  <2>1. ASSUME run[w].id # 0 PROVE rows'[run[w].id].status = "completed"
    <3>1. run[w].id \in Ids /\ rows[run[w].id] \in Row
      BY <1>1, <2>1 DEF TypeOK, Snapshot
    <3>2. QED
      BY <1>1, <1>4, <3>1 DEF Complete, Settle, CompletedRow, Released, TypeOK, Row
  <2>2. QED
    BY <1>1, <1>4, <2>1 DEF Complete, Settle, LetGo, NoRun, TypeOK
<1>5. run'[v] = run[v] => job'[v] = job[v]
  BY DEF FollowQueue
<1>6. ASSUME NEW w \in Worker, NEW i \in Ids, LeaseNext(w, i), rows[i].status = "queued"
      PROVE  \/ run'[v] = run[v] /\ job'[v] = job[v]
             \/ /\ run[v].id = 0 /\ run'[v].id \in Ids /\ rows[run'[v].id].status = "queued"
                /\ rows'[run'[v].id].status = "running" /\ job'[v] = Started(run'[v].id)
  <2>1. CASE v # w
    BY <1>3, <1>5, <1>6, <2>1
  <2>2. CASE v = w
    <3>1. /\ run[v].id = 0 /\ run'[v].id = i /\ rows'[i].status = "running"
          /\ pc'[v] = "busy" /\ i # 0
      BY <1>3, <1>6, <2>2 DEF Ids
    <3>2. job'[v] = Started(i)
      BY <3>1 DEF FollowQueue
    <3>3. QED
      BY <1>6, <3>1, <3>2
  <2>3. QED
    BY <2>1, <2>2
<1>7. ASSUME NEW w \in Worker, StandsAt(w, "returned"), Complete(w)
      PROVE  \/ run'[v] = run[v] /\ job'[v] = job[v]
             \/ /\ run'[v].id = 0 /\ job'[v] = NoJob /\ StandsAt(v, "returned")
                /\ run[v].id # 0 => rows'[run[v].id].status = "completed"
  <2>1. CASE v # w
    BY <1>4, <1>5, <1>7, <2>1
  <2>2. CASE v = w /\ run[v].id # 0
    <3>1. run'[v].id = 0 /\ rows'[run[v].id].status = "completed"
      BY <1>4, <1>7, <2>2
    <3>2. job'[v] = NoJob
      BY <2>2, <3>1 DEF FollowQueue
    <3>3. QED
      BY <1>7, <2>2, <3>1, <3>2
  <2>3. CASE v = w /\ run[v].id = 0
    BY <1>1, <1>7, <2>3 DEF Complete, SeesItsRow, Working
  <2>4. QED
    BY <2>1, <2>2, <2>3
<1>8. (\E k \in Requests : RequestJob(k)) => UNCHANGED run
  BY DEF RequestJob, Enqueue
<1>9. QED
  BY <1>2, <1>6, <1>7, <1>8, QueueSteadily

(* What becomes of a row that way.                                         *)
LEMMA RowChanges ==
  ASSUME Faultless, ExclusiveInv, OnceInv, QueueStep, NEW i \in Ids
  PROVE  /\ \/ rows'[i].status = rows[i].status
            \/ /\ rows[i].status = "queued" /\ rows'[i].status = "running"
               /\ \E v \in Worker : run'[v].id = i /\ run[v].id = 0
            \/ rows[i].status = "running" /\ rows'[i].status = "completed"
         /\ rows'[i].key = rows[i].key
<1>1. /\ TypeOK /\ rows[i] \in Row /\ i # 0 /\ \A u \in Worker : SeesItsRow(u)
      /\ \A u \in Worker : FirstTry(u)
  BY ExclusiveParts DEF TypeOK, Ids, OnceInv
<1>2. ASSUME NEW n \in Ids, TimeStep(n)
      PROVE  rows'[i].status = rows[i].status /\ rows'[i].key = rows[i].key
  BY <1>1, <1>2 DEF TimeStep, LeaseExpires, BecomesDue, RetryWindowCloses, TypeOK, Row
<1>3. ASSUME NEW w \in Worker, NEW n \in Ids, LeaseNext(w, n), rows[n].status = "queued"
      PROVE  \/ rows'[i] = rows[i]
             \/ /\ rows[i].status = "queued" /\ rows'[i].status = "running"
                /\ run'[w].id = i /\ run[w].id = 0 /\ rows'[i].key = rows[i].key
  <2>1. run[w].id = 0
    BY <1>1, <1>3 DEF LeaseNext, SeesItsRow, Working
  <2>2. QED
    BY <1>1, <1>3, <2>1 DEF LeaseNext, LeasedRow, TypeOK, Row
<1>4. ASSUME NEW w \in Worker, Complete(w)
      PROVE  \/ rows'[i] = rows[i]
             \/ /\ rows[i].status = "running" /\ rows'[i].status = "completed"
                /\ rows'[i].key = rows[i].key
  <2>1. CASE run[w].id # i
    BY <1>1, <1>4, <2>1 DEF Complete, Settle, TypeOK
  <2>2. CASE run[w].id = i
    <3>1. rows[i].status = "running"
      BY <1>1, <1>4, <2>2 DEF Complete, SeesItsRow, Working
    <3>2. rows'[i] = CompletedRow(rows[i])
      BY <1>1, <1>4, <2>2 DEF Complete, Settle, TypeOK
    <3>3. QED
      BY <1>1, <3>1, <3>2 DEF CompletedRow, Released, Row
  <2>3. QED
    BY <2>1, <2>2
<1>5. QED
  BY <1>2, <1>3, <1>4, QueueSteadily

(* A request adds its row and touches no other.                            *)
LEMMA RequestAdds ==
  ASSUME UniqueInv, NEW k \in Requests, RequestJob(k)
  PROVE  /\ UNCHANGED <<pod, pc, run>>
         /\ \A i \in Ids : \/ rows'[i] = rows[i]
                           \/ /\ rows[i].status = "absent" /\ rows'[i].status = "queued"
                              /\ rows'[i].key = k /\ FreshId(i)
<1>1. Enqueue(k, "standard", TRUE)
  BY RequestIsNext
<1>2. CASE rows' = rows
  BY <1>1, <1>2 DEF Enqueue
<1>3. CASE rows' # rows
  <2>1. PICK n \in Ids : FreshId(n) /\ rows' = [rows EXCEPT ![n] = NewRow(k, "standard", TRUE)]
    BY <1>1, <1>3 DEF Enqueue, InsertIgnore
  <2>2. NewRow(k, "standard", TRUE).status = "queued" /\ NewRow(k, "standard", TRUE).key = k
    BY DEF NewRow, AbsentRow
  <2>3. QED
    BY <1>1, <2>1, <2>2 DEF Enqueue, FreshId, UniqueInv, TypeOK
<1>4. QED
  BY <1>2, <1>3

(* The columns the queue stamps are neither of the two.                    *)
LEMMA StampsLeave ==
  ASSUME ReviewTypeOK, FollowQueue, NEW i \in Ids
  PROVE  rec'[i].check = rec[i].check /\ rec'[i].kind = rec[i].kind
  BY ZenonT(30) DEF FollowQueue, Stamped, ReviewTypeOK, Record

(* The queue, and a request that arrives, keep rows taken up once.         *)
LEMMA QueueOnce ==
  ASSUME Faultless, ReviewsOnly, ShapeInv, ExclusiveInv, OnceInv,
         QueueStep \/ \E k \in Requests : RequestJob(k)
  PROVE  OnceInv'
<1>1. /\ UniqueInv /\ RowKeysKnown /\ ReviewTypeOK /\ PodsUp /\ FollowQueue
      /\ \A v \in Worker : FirstTry(v)
      /\ \A i \in Ids : TakenOnce(i)
  BY ShapeParts, QueueStepIsNext, RequestIsNext DEF OnceInv, ShapeInv
<1>2. /\ PodsUp'
      /\ \A v \in Worker : pc'[v] \notin {"failing", "recovering"}
  BY <1>1, QueueSteadily, RequestAdds DEF PodsUp, FirstTry
<1>3. ASSUME NEW v \in Worker PROVE FirstTry(v)'
  <2>1. ASSUME job'[v] = job[v] PROVE FirstTry(v)'
    BY <1>1, <1>2, <2>1 DEF FirstTry
  <2>2. ASSUME job'[v] = NoJob PROVE FirstTry(v)'
    BY <1>2, <2>2 DEF FirstTry, NoJob, Faulty, Arrivals
  <2>3. ASSUME NEW i \in Ids, rows[i].status = "queued", job'[v] = Started(i)
        PROVE  FirstTry(v)'
    <3>1. rec[i].check = NoCheck
      BY <1>1, <2>3 DEF TakenOnce
    <3>2. CASE IsRecheck(rows[i].key)
      <4>1. job'[v].at = "register" /\ job'[v].kind = "ci_recheck" /\ job'[v].plan = "none"
        BY <2>3, <3>2 DEF Started, NoJob
      <4>2. QED
        BY <1>2, <4>1 DEF FirstTry, Faulty, Arrivals
    <3>3. CASE ~IsRecheck(rows[i].key)
      <4>1. rows[i].key \in Requests
        BY <1>1, <2>3, <3>3 DEF RowKeysKnown, IsRecheck
      <4>2. /\ job'[v].at \in {"context", "ignore"} /\ job'[v].kind = JobKind[rows[i].key]
            /\ job'[v].plan = "none" /\ job'[v].check = NoCheck
        BY <2>3, <3>1, <3>3 DEF Started, NoJob
      <4>3. QED
        BY <1>2, <4>1, <4>2 DEF FirstTry, Faulty, ReviewsOnly
    <3>4. QED
      BY <3>2, <3>3
  <2>4. QED
    BY <1>1, <2>1, <2>2, <2>3, JobChanges
<1>4. ASSUME NEW i \in Ids PROVE TakenOnce(i)'
  <2>1. rec'[i].check = rec[i].check /\ rec'[i].kind = rec[i].kind
    BY <1>1, StampsLeave
  <2>2. ASSUME NEW k \in Requests, RequestJob(k) PROVE TakenOnce(i)'
    <3>1. /\ run' = run
          /\ \/ rows'[i] = rows[i]
             \/ rows[i].status = "absent" /\ rows'[i].status = "queued"
      BY <1>1, <2>2, RequestAdds
    <3>2. QED
      BY <1>1, <2>1, <3>1 DEF TakenOnce
  <2>3. CASE QueueStep
    <3>1. CASE rows[i].status = "running" /\ rows'[i].status = "running"
      <4>1. PICK v \in Worker : run[v].id = i
        BY <1>1, <3>1 DEF TakenOnce
      <4>2. run'[v].id = i
        BY <1>1, <2>3, <3>1, <4>1, JobChanges DEF Ids
      <4>3. QED
        BY <1>1, <2>1, <3>1, <4>2 DEF TakenOnce
    <3>2. CASE ~(rows[i].status = "running" /\ rows'[i].status = "running")
      <4>1. \/ rows'[i].status = rows[i].status /\ rows[i].status # "running"
            \/ rows'[i].status = "running" /\ \E v \in Worker : run'[v].id = i
            \/ rows'[i].status = "completed"
        BY <2>3, <3>2, RowChanges
      <4>2. QED
        BY <1>1, <2>1, <4>1 DEF TakenOnce
    <3>3. QED
      BY <3>1, <3>2
  <2>4. QED
    BY <2>2, <2>3
<1>5. QED
  BY <1>2, <1>3, <1>4 DEF OnceInv

(* Where a job concludes as a success.                                     *)
Concludes(w) ==
  job'[w].conclusion = "success" =>
    \/ job[w].at = "approve" /\ CallSucceeds(w) /\ job'[w].at = "finish"
    \/ job[w].at = "finish" /\ job[w].conclusion = "success" /\ job'[w].at = "returned"

Succeeding(j) == j.conclusion = "success" => j.at \in {"finish", "returned"}

Steady(w) ==
  /\ job'[w].plan # "closed" /\ job'[w].at \notin Faulty
  /\ Concludes(w)
  /\ job'[w].overwritten \subseteq job[w].overwritten
  /\ job'[w].at = "coalesce" => job[w].at = "find" /\ \E i \in Ids : i < Me(w)

(* One step of a handler whose calls do not fail.                          *)
LEMMA HandlerSteady ==
  ASSUME JobsOK, PodsUp, \A i \in Ids : rec[i].kind # "agent",
         NEW w \in Worker, FirstTry(w), Succeeding(job[w]), HandlerStep(w)
  PROVE  Steady(w)
<1>1. job[w] \in Job /\ Shaped(job[w])
  BY DEF JobsOK
<1>2. /\ job[w].kind # "agent" /\ job[w].plan # "closed" /\ job[w].at \notin Faulty
      /\ job[w].at \in Arrivals => job[w].check = NoCheck
      /\ ~Stopping(w)
  BY WorkerParts DEF FirstTry, PodsUp, Stopping
<1>3. job[w].at # "finish" /\ job[w].at # "returned" => job[w].conclusion # "success"
  BY DEF Succeeding
<1>4. ASSUME NEW at, job'[w] = [job[w] EXCEPT !.at = at], at \notin Faulty \cup {"coalesce"},
             job[w].at \notin {"finish", "returned"}
      PROVE  Steady(w)
  BY <1>1, <1>2, <1>3, <1>4 DEF Job, Concludes, Steady
<1>5. ASSUME NEW at, Go(w, at), at \notin Faulty \cup {"coalesce"}, job[w].at \notin {"finish", "returned"}
      PROVE  Steady(w)
  BY <1>4, <1>5, MoveKeepsOthers DEF Go
<1>6. ASSUME NEW c, c # "success", Finish(w, c) \/ Post(w, c)
      PROVE  Steady(w)
  <2>1. PICK at \in {"finish", "post"} : job'[w] = [job[w] EXCEPT !.at = at, !.conclusion = c]
    BY <1>6, MoveKeepsOthers DEF Finish, Post
  <2>2. QED
    BY <1>1, <1>2, <1>6, <2>1 DEF Job, Faulty, Concludes, Steady
<1>7. ASSUME GoApprove(w), job[w].at \notin {"finish", "returned"}
      PROVE  Steady(w)
  <2>1. job'[w] = [job[w] EXCEPT !.at = "approve", !.head = pr.head]
    BY <1>7, MoveKeepsOthers DEF GoApprove
  <2>2. QED
    BY <1>1, <1>2, <1>3, <1>7, <2>1 DEF Job, Faulty, Concludes, Steady
<1>8. ASSUME job'[w] = CheckOrCreate(job[w]), job[w].at = "find"
      PROVE  Steady(w)
  <2>1. job'[w] = [job[w] EXCEPT !.at = "create"]
    BY <1>2, <1>8 DEF CheckOrCreate, Arrivals
  <2>2. QED
    BY <1>4, <1>8, <2>1 DEF Faulty
<1>9. CASE ReadContext(w)
  <2>1. CASE Go(w, "returned")
    BY <1>5, <1>9, <2>1 DEF ReadContext, StandsAt, Faulty
  <2>2. CASE ~Go(w, "returned")
    <3>1. pr.open
      BY <1>2, <1>9, <2>2 DEF ReadContext, StandsAt, Arrivals
    <3>2. PICK p \in {"conflict", "think"} :
             Move(w, [job[w] EXCEPT !.head = pr.head, !.plan = p, !.at = "target"])
      BY <1>1, <1>2, <1>9, <2>2, <3>1 DEF ReadContext, Job
    <3>3. job'[w] = [job[w] EXCEPT !.head = pr.head, !.plan = p, !.at = "target"]
      BY <3>2, MoveKeepsOthers
    <3>4. job[w].conclusion # "success"
      BY <1>3, <1>9 DEF ReadContext, StandsAt
    <3>5. QED
      BY <1>1, <3>3, <3>4 DEF Job, Faulty, Concludes, Steady
  <2>3. QED
    BY <2>1, <2>2
<1>10. CASE FindActive(w)
  <2>1. job[w].at = "find"
    BY <1>10 DEF FindActive, StandsAt
  <2>2. ASSUME NEW i \in Ids, FirstActive(w, i),
               Move(w, [job[w] EXCEPT !.at = "coalesce", !.other = rec[i].check])
        PROVE  Steady(w)
    <3>1. job'[w] = [job[w] EXCEPT !.at = "coalesce", !.other = rec[i].check]
      BY <2>2, MoveKeepsOthers
    <3>2. i < Me(w)
      BY <2>2 DEF FirstActive, Active
    <3>3. QED
      BY <1>1, <1>2, <1>3, <2>1, <3>1, <3>2 DEF Job, Faulty, Concludes, Steady
  <2>3. QED
    BY <1>5, <1>8, <1>10, <2>1, <2>2, MoveKeepsOthers DEF FindActive, Faulty
<1>11. ASSUME NEW c \in CheckIds, CreateCheck(w, c)
       PROVE  Steady(w)
  <2>1. job'[w] = [job[w] EXCEPT !.at = "record", !.check = c] /\ job[w].at = "create"
    BY <1>11, MoveKeepsOthers DEF CreateCheck, StandsAt
  <2>2. QED
    BY <1>1, <1>2, <1>3, <2>1 DEF Job, Faulty, Concludes, Steady
<1>12. CASE RecordCheck(w)
  <2>1. job'[w] = [job[w] EXCEPT !.at = job[w].plan] /\ job[w].at = "record"
    BY <1>12, MoveKeepsOthers DEF RecordCheck, Tracked, StandsAt
  <2>2. job[w].plan \in {"none", "conflict", "think"}
    BY <1>1, <1>2 DEF Job
  <2>3. QED
    BY <1>4, <2>1, <2>2 DEF Faulty
<1>13. CASE Ignore(w) \/ RecordTarget(w) \/ Schedule(w) \/ RegisterRecheck(w)
  BY <1>5, <1>13 DEF Ignore, RecordTarget, Schedule, RegisterRecheck, StandsAt, Faulty
<1>14. CASE ClosedContext(w) \/ SkipMerge(w) \/ ProviderCooldown(w)
  BY <1>2, <1>14 DEF ClosedContext, SkipMerge, ProviderCooldown, StandsAt, Faulty
<1>15. CASE ConflictContext(w)
  BY <1>5, <1>6, <1>15 DEF ConflictContext, StandsAt, Faulty
<1>16. CASE Think(w)
  <2>1. job'[w] = [job[w] EXCEPT !.at = "verdict", !.stored = {}, !.overwritten = {}] /\ job[w].at = "think"
    BY <1>16, MoveKeepsOthers DEF Think, StandsAt
  <2>2. QED
    BY <1>1, <1>2, <1>3, <2>1 DEF Job, Faulty, Concludes, Steady
<1>17. CASE ReachVerdict(w)
  <2>1. PICK v : Move(w, [job[w] EXCEPT !.at = "publish", !.verdict = v])
    BY <1>2, <1>17 DEF ReachVerdict
  <2>2. job'[w] = [job[w] EXCEPT !.at = "publish", !.verdict = v] /\ job[w].at = "verdict"
    BY <1>17, <2>1, MoveKeepsOthers DEF ReachVerdict, StandsAt
  <2>3. QED
    BY <1>1, <1>2, <1>3, <2>2 DEF Job, Faulty, Concludes, Steady
<1>18. ASSUME Approves(w), job[w].at \notin {"finish", "returned"}
       PROVE  Steady(w)
  <2>1. \/ \E c \in {"action_required"} : Post(w, c)
        \/ \E at \in {"returned", "wait"} : Go(w, at)
        \/ GoApprove(w)
    BY <1>18 DEF Approves
  <2>2. QED
    BY <1>5, <1>6, <1>7, <1>18, <2>1 DEF Faulty
<1>19. ASSUME Decide(w), job[w].at \notin {"finish", "returned"}
       PROVE  Steady(w)
  BY <1>5, <1>6, <1>18, <1>19 DEF Decide, Faulty
<1>20. CASE Publish(w) \/ Republish(w)
  BY <1>5, <1>6, <1>19, <1>20 DEF Publish, Republish, StandsAt, Faulty
<1>21. CASE PersistLedger(w) \/ AttachThread(w)
  <2>1. <<job[w].at, job'[w].at>> \in LedgerMoves /\ KeptButPlace(w)
    BY <1>21, LedgerStepMoves
  <2>2. /\ job[w].at \in {"ledger", "post"}
        /\ job'[w].at \in {"ledger", "republish", "returned", "discard", "post"}
    BY <2>1 DEF LedgerMoves
  <2>3. QED
    BY <1>2, <1>3, <2>1, <2>2 DEF KeptButPlace, Faulty, Concludes, Steady
<1>22. CASE Recheck(w)
  <2>1. \/ \E c \in {"cancelled", "action_required"} : Finish(w, c) \/ Post(w, c)
        \/ Go(w, "wait")
        \/ GoApprove(w)
    BY <1>22 DEF Recheck
  <2>2. QED
    BY <1>5, <1>6, <1>7, <1>22, <2>1 DEF Recheck, StandsAt, Faulty
<1>23. CASE CallSucceeds(w)
  <2>1. /\ job'[w] = [job[w] EXCEPT !.at = NextCall(job[w]), !.conclusion = ConclusionOf(job[w])]
        /\ job[w].at \in WriteCalls \ {"abort", "expired", "merge"}
    BY <1>2, <1>23, MoveKeepsOthers DEF CallSucceeds, Calls, Faulty
  <2>2. ~SquashMerges(job[w])
    BY <1>2 DEF SquashMerges
  <2>3. NextCall(job[w]) \in {"returned", "schedule", "finish", "close"}
    BY <2>1, <2>2 DEF NextCall, WriteCalls
  <2>4. job[w].at = "finish" => NextCall(job[w]) = "returned" /\ ConclusionOf(job[w]) = job[w].conclusion
    BY <2>2 DEF NextCall, ConclusionOf
  <2>5. job[w].at = "approve" => NextCall(job[w]) = "finish"
    BY DEF NextCall
  <2>6. job[w].at \notin {"finish", "approve"} => ConclusionOf(job[w]) # "success"
    BY <1>3, <2>1 DEF ConclusionOf, WriteCalls
  <2>7. /\ job'[w].plan = job[w].plan /\ job'[w].at = NextCall(job[w])
        /\ job'[w].conclusion = ConclusionOf(job[w]) /\ job'[w].overwritten = job[w].overwritten
    BY <1>1, <2>1 DEF Job
  <2>8. QED
    BY <1>2, <1>23, <2>3, <2>4, <2>5, <2>6, <2>7 DEF Faulty, Concludes, Steady
<1>24. QED
  BY <1>9, <1>10, <1>11, <1>12, <1>13, <1>14, <1>15, <1>16, <1>17, <1>20, <1>21, <1>22, <1>23
     DEF HandlerStep

(* Of the rows, a handler adds that of a recheck.                          *)
LEMMA HandlerAdds ==
  ASSUME UniqueInv, NEW w \in Worker, HandlerStep(w), NEW i \in Ids, rows'[i] # rows[i]
  PROVE  /\ StandsAt(w, "schedule") /\ EnqueuesRecheck(w)
         /\ rows[i].status = "absent" /\ FreshId(i)
         /\ rows'[i].status = "queued" /\ rows'[i].key = NextRecheck(w)
<1>1. StandsAt(w, "schedule") /\ EnqueuesRecheck(w)
  BY HandlerOnQueue DEF vars, Schedule
<1>2. PICK n \in Ids : FreshId(n) /\ rows' = [rows EXCEPT ![n] = NewRow(NextRecheck(w), "standard", FALSE)]
  BY <1>1 DEF EnqueuesRecheck, Enqueue, InsertIgnore
<1>3. /\ NewRow(NextRecheck(w), "standard", FALSE).status = "queued"
      /\ NewRow(NextRecheck(w), "standard", FALSE).key = NextRecheck(w)
  BY DEF NewRow, AbsentRow
<1>4. QED
  BY <1>1, <1>2, <1>3 DEF FreshId, UniqueInv, TypeOK

(* So does every step of a handler.                                        *)
LEMMA HandlerOnce ==
  ASSUME ShapeInv, ExclusiveInv, RecordedInv, OnceInv, NEW w \in Worker, HandlerStep(w),
         \A v \in Worker : Succeeding(job[v])
  PROVE  OnceInv' /\ Succeeding(job'[w]) /\ Steady(w)
<1>1. /\ JobsOK /\ rec \in [Ids -> Record] /\ UniqueInv
      /\ PodsUp /\ (\A v \in Worker : FirstTry(v)) /\ \A i \in Ids : TakenOnce(i)
  BY ShapeParts DEF OthersOK, OnceInv
<1>2. /\ UNCHANGED <<pod, pc, run>>
      /\ \A i \in Ids : rows[i].status # "absent" => rows'[i] = rows[i]
  BY <1>1, HandlerRows
<1>3. /\ Steady(w) /\ Advanced(w) /\ \A v \in Worker : v # w => Kept(v)
  BY <1>1, HandlerSteady, HandlerAdvanced, OthersKept DEF TakenOnce
<1>4. ASSUME NEW v \in Worker PROVE FirstTry(v)'
  <2>1. CASE v # w
    BY <1>1, <1>2, <1>3, <2>1 DEF FirstTry, Kept
  <2>2. CASE v = w
    BY <1>1, <1>2, <1>3, <2>2 DEF FirstTry, Steady, Advanced, Arrivals
  <2>3. QED
    BY <2>1, <2>2
<1>5. run[w].id # 0
  BY <1>3 DEF Advanced, RecordedInv, ReportsOnRecorded
<1>6. ASSUME NEW i \in Ids PROVE TakenOnce(i)'
  <2>1. rec'[i].kind # "agent"
    BY <1>1, NoAgentRecorded DEF FirstTry, TakenOnce
  <2>2. ASSUME rows'[i].status = "running" PROVE \E v \in Worker : run'[v].id = i
    <3>1. rows[i].status # "absent" => rows'[i] = rows[i]
      BY <1>2
    <3>2. rows[i].status = "absent" => rows'[i].status # "running"
      BY <1>1, HandlerAdds
    <3>3. QED
      BY <1>1, <1>2, <2>2, <3>1, <3>2 DEF TakenOnce
  <2>3. ASSUME rows'[i].status \in {"absent", "queued"} PROVE rec'[i].check = NoCheck
    <3>1. rows[i].status \in {"absent", "queued"}
      BY <1>2, <2>3
    <3>2. rec[i].check = NoCheck
      BY <1>1, <3>1 DEF TakenOnce
    <3>3. i # Me(w)
      <4>1. SeesItsRow(w) /\ pc[w] # "failing"
        BY <1>1, ExclusiveParts DEF FirstTry
      <4>2. QED
        BY <1>5, <3>1, <4>1 DEF SeesItsRow, Me
    <3>4. QED
      BY <1>1, <3>2, <3>3, HandlerCheckColumn
  <2>4. QED
    BY <2>1, <2>2, <2>3 DEF TakenOnce
<1>7. QED
  BY <1>2, <1>3, <1>4, <1>6 DEF OnceInv, PodsUp, Steady, Concludes, Succeeding

-----------------------------------------------------------------------------
(***************************************************************************)
(* A success is of its HEAD: the check run a job has is one that was       *)
(* created for the HEAD the job is about, also when the job is a recheck.  *)
(***************************************************************************)
CheckOf(c, h) == checks[c].status # "absent" /\ checks[c].head = h

OfItsHead(j) ==
  /\ j.check # NoCheck => CheckOf(j.check, j.head)
  /\ j.conclusion = "success" => j.head \in approved
  /\ Succeeding(j)

RecheckOfItsHead(i) ==
  (rows[i].status # "absent" /\ rows[i].key \in RecheckKeys)
     => CheckOf(rows[i].key[1], rows[i].key[2])

HeadInv ==
  /\ SuccessIsOfItsHead
  /\ \A w \in Worker : OfItsHead(job[w])
  /\ \A i \in Ids : RecheckOfItsHead(i)

CheckOfNext(c, h) == checks'[c].status # "absent" /\ checks'[c].head = h

(* What a step of a handler does to the check runs.                        *)
OnChecks(w, c) ==
  /\ checks[c].status # "absent" => checks'[c].status # "absent" /\ checks'[c].head = checks[c].head
  /\ checks'[c].conclusion = "success" =>
       /\ checks'[c].head = checks[c].head
       /\ \/ checks[c].conclusion = "success"
          \/ job[w].at = "finish" /\ job[w].conclusion = "success" /\ c = job[w].check

(* It creates one for its HEAD, reopens one, or concludes its own: as a    *)
(* success only after the approval of its HEAD.                            *)
LEMMA HandlerOnChecks ==
  ASSUME OthersOK, JobsOK, NEW w \in Worker, HandlerStep(w)
  PROVE  /\ \A c \in CheckIds : OnChecks(w, c)
         /\ job[w].at = "create" => job'[w].check \in CheckIds /\ CheckOfNext(job'[w].check, job[w].head)
<1>1. checks \in [CheckIds -> CheckRun]
  BY DEF OthersOK
<1>2. job[w] \in Job
  BY DEF JobsOK
<1>3. ASSUME NEW d, checks' = Reopened(d), NEW c \in CheckIds PROVE OnChecks(w, c)
  BY <1>1, <1>3 DEF Reopened, CheckRun, OnChecks
<1>4. ASSUME NEW d, NEW k, checks' = Concluded(d, k), NEW c \in CheckIds,
             k = "success" => job[w].at = "finish" /\ job[w].conclusion = "success" /\ d = job[w].check
      PROVE  OnChecks(w, c)
  BY <1>1, <1>4 DEF Concluded, CheckRun, OnChecks
<1>5. ASSUME checks' = checks, NEW c \in CheckIds PROVE OnChecks(w, c)
  BY <1>5 DEF OnChecks
<1>6. ASSUME Calls(w), NEW c \in CheckIds PROVE OnChecks(w, c)
  <2>1. \/ \E d : checks' = Reopened(d)
        \/ \E d, k : /\ checks' = Concluded(d, k)
                     /\ k = "success" => /\ job[w].at = "finish" /\ job[w].conclusion = "success"
                                         /\ d = job[w].check
        \/ checks' = checks
    BY <1>6 DEF Calls
  <2>2. QED
    BY <1>3, <1>4, <1>5, <1>6, <2>1
<1>7. ASSUME NEW d \in CheckIds, CreateCheck(w, d)
      PROVE  /\ \A c \in CheckIds : OnChecks(w, c)
             /\ job'[w].check \in CheckIds /\ CheckOfNext(job'[w].check, job[w].head)
  <2>1. /\ checks[d].status = "absent"
        /\ checks' = [checks EXCEPT ![d] = [status |-> "in_progress", head |-> job[w].head,
                                            conclusion |-> "none"]]
    BY <1>7 DEF CreateCheck, CreatesCheck
  <2>2. job'[w] = [job[w] EXCEPT !.at = "record", !.check = d]
    BY <1>7, MoveKeepsOthers DEF CreateCheck
  <2>3. job'[w].check = d
    BY <1>2, <2>2 DEF Job
  <2>4. checks'[d].status # "absent" /\ checks'[d].head = job[w].head
    BY <1>1, <2>1
  <2>5. \A c \in CheckIds : OnChecks(w, c)
    BY <1>1, <2>1 DEF OnChecks
  <2>6. QED
    BY <2>3, <2>4, <2>5 DEF CheckOfNext
<1>8. CASE Think(w) \/ ReachVerdict(w)
  <2>1. checks' = checks \/ \E d : checks' = Reopened(d)
    BY <1>8 DEF Think, ReachVerdict, Progress
  <2>2. job[w].at # "create"
    BY <1>8 DEF Think, ReachVerdict, StandsAt
  <2>3. QED
    BY <1>3, <1>5, <2>1, <2>2
<1>9. CASE CallSucceeds(w)
  BY <1>6, <1>9 DEF CallSucceeds, Calls, WriteCalls
<1>10. CASE ~(CallSucceeds(w) \/ Think(w) \/ ReachVerdict(w) \/ \E d \in CheckIds : CreateCheck(w, d))
  <2>1. checks' = checks /\ job[w].at # "create"
    BY <1>10 DEF HandlerStep, StandsAt, Ignore, ReadContext, RecordTarget, RecordsTarget,
         FindActive, RecordCheck, RecordsCheck, ClosedContext, ConflictContext,
         ProviderCooldown, Publish, Decide, PersistLedger, LeavesLedger, AttachThread,
         WritesFinding, Republish, SkipMerge,
         RegisterRecheck, Recheck, Reads, Schedule, EnqueuesRecheck, github
  <2>2. QED
    BY <1>5, <2>1
<1>11. QED
  BY <1>7, <1>8, <1>9, <1>10

(* Approvals stay.                                                         *)
LEMMA ApprovalsStay ==
  ASSUME NEW w \in Worker, HandlerStep(w)
  PROVE  /\ approved \subseteq approved'
         /\ CallSucceeds(w) /\ job[w].at = "approve" => job[w].head \in approved'
  BY DEF HandlerStep, Ignore, ReadContext, RecordTarget, RecordsTarget, FindActive,
         CreateCheck, CreatesCheck, RecordCheck, RecordsCheck, ClosedContext,
         ConflictContext, Think, ReachVerdict, ProviderCooldown, Progress, Publish,
         Decide, PersistLedger, LeavesLedger, AttachThread, WritesFinding, Republish,
         CallSucceeds, Calls, SkipMerge, RegisterRecheck, Recheck, Reads, Schedule, EnqueuesRecheck, github

(* What handlers do to the check runs keeps every success of its HEAD.     *)
LEMMA HandlerHead ==
  ASSUME ShapeInv, CheckInv, RecordedInv, OnceInv, HeadInv, NEW w \in Worker, HandlerStep(w),
         Succeeding(job'[w]), Steady(w)
  PROVE  HeadInv'
<1>1. /\ JobsOK /\ OthersOK /\ UniqueInv /\ SuccessIsOfItsHead
      /\ \A v \in Worker : OfItsHead(job[v]) /\ FirstTry(v)
      /\ \A i \in Ids : RecheckOfItsHead(i)
  BY ShapeParts DEF HeadInv, OnceInv
<1>2. /\ Advanced(w) /\ (\A v \in Worker : v # w => Kept(v))
      /\ \A c \in CheckIds : OnChecks(w, c)
      /\ job[w].at = "create" => job'[w].check \in CheckIds /\ CheckOfNext(job'[w].check, job[w].head)
      /\ approved \subseteq approved'
      /\ CallSucceeds(w) /\ job[w].at = "approve" => job[w].head \in approved'
  BY <1>1, HandlerAdvanced, OthersKept, HandlerOnChecks, ApprovalsStay
<1>3. \A v \in Worker : job[v].check \in CheckIds \cup {NoCheck}
  BY <1>1 DEF JobsOK, Job
<1>4. ASSUME NEW c \in CheckIds, NEW h, CheckOf(c, h) PROVE CheckOfNext(c, h)
  BY <1>2, <1>4 DEF OnChecks, CheckOf, CheckOfNext
<1>5. SuccessIsOfItsHead'
  <2>1. ASSUME NEW c \in CheckIds, checks'[c].conclusion = "success"
        PROVE  checks'[c].head \in approved
    <3>1. checks'[c].head = checks[c].head /\
             (\/ checks[c].conclusion = "success"
              \/ job[w].conclusion = "success" /\ c = job[w].check)
      BY <1>2, <2>1 DEF OnChecks
    <3>2. CASE checks[c].conclusion = "success"
      BY <1>1, <3>1, <3>2 DEF SuccessIsOfItsHead
    <3>3. CASE job[w].conclusion = "success" /\ c = job[w].check
      <4>1. c # NoCheck
        BY DEF CheckIds, NoCheck
      <4>2. QED
        BY <1>1, <3>1, <3>3, <4>1 DEF OfItsHead, CheckOf
    <3>4. QED
      BY <3>1, <3>2, <3>3
  <2>2. QED
    BY <1>2, <2>1 DEF SuccessIsOfItsHead
<1>6. ASSUME NEW v \in Worker, v # w PROVE OfItsHead(job[v])'
  <2>1. Kept(v) /\ OfItsHead(job[v]) /\ job[v].check \in CheckIds \cup {NoCheck}
    BY <1>1, <1>2, <1>3, <1>6
  <2>2. job[v].check # NoCheck => CheckOfNext(job[v].check, job[v].head)
    BY <1>4, <2>1 DEF OfItsHead
  <2>3. QED
    BY <1>2, <2>1, <2>2 DEF OfItsHead, Kept, Succeeding, CheckOf, CheckOfNext
<1>7. OfItsHead(job[w])'
  <2>1. ASSUME job'[w].check # NoCheck PROVE CheckOfNext(job'[w].check, job'[w].head)
    <3>1. CASE job[w].at = "create"
      <4>1. job'[w].head = job[w].head
        BY <1>2, <3>1 DEF Advanced
      <4>2. QED
        BY <1>2, <3>1, <4>1
    <3>2. CASE job[w].at # "create"
      <4>1. job'[w].check = job[w].check /\ job[w].check \in CheckIds
        BY <1>2, <1>3, <2>1, <3>2 DEF Advanced
      <4>2. job[w].at # "context"
        BY <1>1, <2>1, <4>1 DEF FirstTry, Arrivals
      <4>3. job'[w].head = job[w].head
        BY <1>2, <4>2 DEF Advanced
      <4>4. CheckOfNext(job[w].check, job[w].head)
        BY <1>1, <1>4, <2>1, <4>1 DEF OfItsHead
      <4>5. QED
        BY <4>1, <4>3, <4>4
    <3>3. QED
      BY <3>1, <3>2
  <2>2. ASSUME job'[w].conclusion = "success" PROVE job'[w].head \in approved'
    <3>1. job[w].at \in {"approve", "finish"} /\ job[w].head \in approved'
      BY <1>1, <1>2, <2>2 DEF Steady, Concludes, OfItsHead
    <3>2. QED
      BY <1>2, <3>1 DEF Advanced
  <2>3. QED
    BY <2>1, <2>2 DEF OfItsHead, CheckOf, CheckOfNext
<1>8. ASSUME NEW i \in Ids PROVE RecheckOfItsHead(i)'
  <2>1. CASE rows'[i] = rows[i]
    <3>1. (rows[i].status # "absent" /\ rows[i].key \in RecheckKeys) => rows[i].key[1] \in CheckIds
      BY DEF RecheckKeys
    <3>2. QED
      BY <1>1, <1>4, <2>1, <3>1 DEF RecheckOfItsHead, CheckOf, CheckOfNext
  <2>2. CASE rows'[i] # rows[i]
    <3>1. rows'[i].key = NextRecheck(w) /\ StandsAt(w, "schedule") /\ Shaped(job[w])
      BY <1>1, <2>2, HandlerAdds DEF JobsOK
    <3>2. job[w].check \in CheckIds /\ CheckOf(job[w].check, job[w].head)
      BY <1>1, <1>3, <3>1 DEF Shaped, StandsAt, OfItsHead
    <3>3. CheckOfNext(job[w].check, job[w].head)
      BY <1>4, <3>2
    <3>4. rows'[i].key[1] = job[w].check /\ rows'[i].key[2] = job[w].head
      BY <3>1 DEF NextRecheck
    <3>5. QED
      BY <3>3, <3>4 DEF RecheckOfItsHead, CheckOf, CheckOfNext
  <2>3. QED
    BY <2>1, <2>2
<1>9. QED
  BY <1>5, <1>6, <1>7, <1>8 DEF HeadInv

(* So do the queue and the requests: a recheck starts with the check run   *)
(* and the HEAD of its key.                                                *)
LEMMA QueueHead ==
  ASSUME Faultless, ReviewsOnly, ShapeInv, ExclusiveInv, OnceInv, HeadInv,
         QueueStep \/ \E k \in Requests : RequestJob(k)
  PROVE  HeadInv'
<1>1. /\ UniqueInv /\ RowKeysKnown /\ FollowQueue
      /\ \A v \in Worker : OfItsHead(job[v])
      /\ \A i \in Ids : TakenOnce(i) /\ RecheckOfItsHead(i)
  BY ShapeParts, QueueStepIsNext, RequestIsNext DEF OnceInv, HeadInv
<1>2. checks' = checks /\ approved' = approved
  BY <1>1 DEF FollowQueue, github
<1>3. ASSUME NEW v \in Worker PROVE OfItsHead(job[v])'
  <2>1. CASE job'[v] = job[v]
    BY <1>1, <1>2, <2>1 DEF OfItsHead, CheckOf, Succeeding
  <2>2. CASE job'[v] = NoJob
    BY <2>2 DEF OfItsHead, NoJob, Succeeding
  <2>3. ASSUME NEW i \in Ids, rows[i].status = "queued", job'[v] = Started(i)
        PROVE  OfItsHead(job[v])'
    <3>1. CASE IsRecheck(rows[i].key)
      <4>1. /\ job'[v].check = rows[i].key[1] /\ job'[v].head = rows[i].key[2]
            /\ job'[v].conclusion = "none"
        BY <2>3, <3>1 DEF Started, NoJob
      <4>2. CheckOf(rows[i].key[1], rows[i].key[2])
        BY <1>1, <2>3, <3>1 DEF RecheckOfItsHead, IsRecheck
      <4>3. QED
        BY <1>2, <4>1, <4>2 DEF OfItsHead, CheckOf, Succeeding
    <3>2. CASE ~IsRecheck(rows[i].key)
      <4>1. rec[i].check = NoCheck
        BY <1>1, <2>3 DEF TakenOnce
      <4>2. job'[v].check = NoCheck /\ job'[v].conclusion = "none"
        BY <2>3, <3>2, <4>1 DEF Started, NoJob
      <4>3. QED
        BY <4>2 DEF OfItsHead, Succeeding
    <3>3. QED
      BY <3>1, <3>2
  <2>4. QED
    BY <1>1, <2>1, <2>2, <2>3, JobChanges
<1>4. ASSUME NEW i \in Ids PROVE RecheckOfItsHead(i)'
  <2>1. \/ rows'[i].key = rows[i].key /\ (rows[i].status = "absent" => rows'[i].status = "absent")
        \/ rows'[i].key \in Requests
    BY <1>1, RowChanges, RequestAdds
  <2>2. QED
    BY <1>1, <1>2, <2>1 DEF RecheckOfItsHead, CheckOf
<1>5. QED
  BY <1>1, <1>2, <1>3, <1>4 DEF HeadInv, SuccessIsOfItsHead

(* One step of the system.                                                 *)
LEMMA HeadInductive ==
  ASSUME Faultless, ReviewsOnly
  PROVE  ShapeInv /\ ExclusiveInv /\ CheckInv /\ RecordedInv /\ OnceInv /\ HeadInv
         /\ [ReviewNext]_reviewVars => OnceInv' /\ HeadInv'
<1> SUFFICES ASSUME ShapeInv, ExclusiveInv, CheckInv, RecordedInv, OnceInv, HeadInv,
                    [ReviewNext]_reviewVars
             PROVE  OnceInv' /\ HeadInv'
  OBVIOUS
<1>1. ASSUME NEW w \in Worker, CallFails(w) \/ CreateFails(w) PROVE FALSE
  <2>1. errors \in Nat
    BY DEF ShapeInv, ReviewTypeOK
  <2>2. QED
    BY <1>1, <2>1 DEF CallFails, CreateFails, CountError, Faultless
<1>2. ASSUME UNCHANGED <<vars, rec, job, checks, approved>> PROVE OnceInv' /\ HeadInv'
  BY <1>2 DEF vars, OnceInv, PodsUp, FirstTry, TakenOnce, HeadInv, SuccessIsOfItsHead,
              OfItsHead, CheckOf, Succeeding, RecheckOfItsHead
<1>3. ASSUME NEW w \in Worker, HandlerStep(w) PROVE OnceInv' /\ HeadInv'
  <2>1. \A v \in Worker : Succeeding(job[v])
    BY DEF HeadInv, OfItsHead
  <2>2. OnceInv' /\ Succeeding(job'[w]) /\ Steady(w)
    BY <1>3, <2>1, HandlerOnce
  <2>3. QED
    BY <1>3, <2>2, HandlerHead
<1>4. CASE PrEvent
  BY <1>2, <1>4 DEF PrEvent
<1>5. CASE UNCHANGED reviewVars
  BY <1>2, <1>5 DEF reviewVars, github
<1>6. QED
  BY <1>1, <1>3, <1>4, <1>5, QueueOnce, QueueHead DEF ReviewNext, ReviewStep

(* And all of them.                                                        *)
LEMMA HeadAlways ==
  ASSUME LeaseOutlivesRun, Faultless, ReviewsOnly
  PROVE  ReviewSpec => [](OnceInv /\ HeadInv)
<1>1. ReviewInit => OnceInv /\ HeadInv
  <2> SUFFICES ASSUME ReviewInit PROVE OnceInv /\ HeadInv
    OBVIOUS
  <2>1. /\ rows = [i \in Ids |-> AbsentRow] /\ rec = [i \in Ids |-> NoRecord]
        /\ job = [w \in Worker |-> NoJob] /\ checks = [c \in CheckIds |-> AbsentCheck]
        /\ pod = [p \in Pods |-> "up"] /\ pc = [w \in Worker |-> "idle"]
    BY DEF ReviewInit, Init
  <2>2. OnceInv
    BY <2>1 DEF OnceInv, PodsUp, FirstTry, TakenOnce, NoJob, NoRecord, AbsentRow, Faulty
  <2>3. HeadInv
    BY <2>1 DEF HeadInv, SuccessIsOfItsHead, OfItsHead, Succeeding, RecheckOfItsHead, NoJob,
                AbsentRow, AbsentCheck
  <2>4. QED
    BY <2>2, <2>3
<1>2. QED
  BY <1>1, HeadInductive, ShapeAlways, ReviewExclusive, CheckAlways, RecordedAlways, PTL
     DEF ReviewSpec

(* If nothing fails and leases outlive runs: a check run that ends as a    *)
(* success is of a HEAD the bot has approved, whatever is pushed, closed   *)
(* or requested while reviews and rechecks run in any number of pods. (A   *)
(* job that is taken up again reports on the check run of its first try,   *)
(* which a push may have left behind.)                                     *)
THEOREM SuccessesAreOfTheirHead ==
  ASSUME LeaseOutlivesRun, MaxOutages = 0, MaxDbErrors = 0, MaxCallErrors = 0,
         \A k \in Requests : JobKind[k] # "agent"
  PROVE  ReviewSpec => []SuccessIsOfItsHead
<1>1. Faultless /\ ReviewsOnly
  BY DEF Faultless, ReviewsOnly
<1>2. HeadInv => SuccessIsOfItsHead
  BY DEF HeadInv
<1>3. QED
  BY <1>1, <1>2, HeadAlways, PTL

-----------------------------------------------------------------------------
(***************************************************************************)
(* One request: its row, and the rechecks it leads to one after the other. *)
(* Of these rows only the last is unfinished, and whoever lets go of a     *)
(* check run in progress leaves the row of its next recheck behind. (With  *)
(* two requests coalescing reopens a check run that may be nobody's by     *)
(* then.)                                                                  *)
(***************************************************************************)
OneRequest == MaxRequests \in {0, 1}

Present(i) == rows[i].status # "absent"
Busy(w) == run[w].id # 0 /\ job[w].at # "returned"
Alive(i) == rows[i].status = "queued" \/ \E w \in Worker : Busy(w) /\ run[w].id = i
LastRow(i) == \A k \in Ids : Present(k) => k <= i

ChainRow(i) ==
  Present(i) =>
    /\ IF i = 1 THEN rows[i].key \in Requests
       ELSE rows[i].key \in RecheckKeys /\ rows[i].key[3] = i - 1
    /\ \A k \in Ids : k < i => Present(k)

ChainJob(w) ==
  /\ run[w].id # 0 => job[w].try = run[w].id - 1
  /\ job[w].at # "coalesce" /\ job[w].overwritten = {}

ChainInv ==
  /\ \A i \in Ids : ChainRow(i)
  /\ \A i \in Ids : Alive(i) => LastRow(i)
  /\ \A w \in Worker : ChainJob(w)

(* The one request comes first.                                            *)
LEMMA RequestComesFirst ==
  ASSUME OneRequest, ChainInv, NEW k \in Requests, RequestJob(k), NEW h \in Ids
  PROVE  ~Present(h)
<1> SUFFICES ASSUME Present(h) PROVE FALSE
  OBVIOUS
<1> DEFINE asked == {i \in Ids : rows[i].key \in Requests}
<1>1. 1 \in Ids /\ Present(1)
  BY DEF ChainInv, ChainRow, Ids
<1>2. {1} \subseteq asked
  BY <1>1 DEF ChainInv, ChainRow
<1>3. IsFiniteSet(Ids) /\ asked \subseteq Ids
  BY FS_Interval DEF Ids
<1>4. IsFiniteSet(asked)
  BY <1>3, FS_Subset
<1>5. Cardinality({1}) <= Cardinality(asked) /\ Cardinality({1}) = 1 /\ Cardinality(asked) \in Nat
  BY <1>2, <1>4, FS_Subset, FS_Singleton, FS_CardinalityType
<1>6. Cardinality(asked) < MaxRequests
  BY DEF RequestJob
<1>7. QED
  BY <1>5, <1>6 DEF OneRequest

(* A job that is taken up has got as far as its row says.                  *)
LEMMA StartedInChain ==
  ASSUME RowKeysKnown, ChainInv, NEW i \in Ids, Present(i)
  PROVE  Started(i).try = i - 1 /\ Started(i).at \in {"register", "context", "ignore"}
         /\ Started(i).overwritten = {}
<1>1. IF i = 1 THEN rows[i].key \in Requests
      ELSE rows[i].key \in RecheckKeys /\ rows[i].key[3] = i - 1
  BY DEF ChainInv, ChainRow
<1>2. CASE i = 1
  <2>1. ~IsRecheck(rows[i].key)
    BY <1>1, <1>2 DEF IsRecheck
  <2>2. QED
    BY <1>2, <2>1 DEF Started, NoJob
<1>3. CASE i # 1
  <2>1. IsRecheck(rows[i].key)
    BY <1>1, <1>3 DEF IsRecheck
  <2>2. QED
    BY <1>1, <1>3, <2>1 DEF Started, NoJob
<1>4. QED
  BY <1>2, <1>3

(* The queue starts a job with the number of its row.                      *)
LEMMA QueueChain ==
  ASSUME Faultless, OneRequest, ShapeInv, ExclusiveInv, OnceInv, ChainInv,
         QueueStep \/ \E k \in Requests : RequestJob(k)
  PROVE  ChainInv'
<1>1. /\ UniqueInv /\ RowKeysKnown /\ FollowQueue
      /\ \A i \in Ids : ChainRow(i) /\ (Alive(i) => LastRow(i))
      /\ \A v \in Worker : ChainJob(v)
  BY ShapeParts, QueueStepIsNext, RequestIsNext DEF ChainInv
<1>2. ASSUME NEW v \in Worker PROVE ChainJob(v)'
  <2>1. CASE run'[v] = run[v] /\ job'[v] = job[v]
    BY <1>1, <2>1 DEF ChainJob
  <2>2. CASE run'[v].id = 0 /\ job'[v] = NoJob
    BY <2>2 DEF ChainJob, NoJob
  <2>3. CASE /\ run'[v].id \in Ids /\ rows[run'[v].id].status = "queued"
             /\ job'[v] = Started(run'[v].id)
    BY <1>1, <2>3, StartedInChain DEF ChainJob, Present
  <2>4. QED
    BY <1>1, <2>1, <2>2, <2>3, JobChanges
<1>3. CASE QueueStep
  <2>1. ASSUME NEW i \in Ids
        PROVE  (Present(i)' <=> Present(i)) /\ rows'[i].key = rows[i].key
    BY <1>3, RowChanges DEF Present
  <2>2. ASSUME NEW i \in Ids PROVE ChainRow(i)'
    BY <1>1, <2>1 DEF ChainRow
  <2>3. ASSUME NEW i \in Ids, Alive(i)' PROVE LastRow(i)'
    <3>1. ASSUME NEW v \in Worker, run'[v].id = i, Busy(v)' PROVE Alive(i)
      BY <1>1, <1>3, <3>1, JobChanges DEF Alive, Busy, Ids
    <3>2. rows'[i].status = "queued" => rows[i].status = "queued"
      BY <1>3, RowChanges
    <3>3. Alive(i)
      BY <2>3, <3>1, <3>2 DEF Alive
    <3>4. QED
      BY <1>1, <2>1, <3>3 DEF LastRow
  <2>4. QED
    BY <1>2, <2>2, <2>3 DEF ChainInv
<1>4. ASSUME NEW k \in Requests, RequestJob(k) PROVE ChainInv'
  <2>1. \A i \in Ids : ~Present(i)
    BY <1>4, RequestComesFirst
  <2>2. ASSUME NEW i \in Ids, Present(i)'
        PROVE  i = 1 /\ rows'[i].key = k
    <3>1. FreshId(i) /\ rows'[i].key = k
      BY <1>1, <1>4, <2>1, <2>2, RequestAdds DEF Present
    <3>2. QED
      BY <2>1, <3>1 DEF FreshId, Present, Ids
  <2>3. ASSUME NEW i \in Ids, Alive(i)' PROVE LastRow(i)'
    <3>1. ASSUME NEW v \in Worker, run'[v].id = i PROVE FALSE
      <4>1. run[v].id = i
        BY <1>1, <1>4, <3>1, RequestAdds
      <4>2. QED
        BY <1>1, <2>1, <4>1 DEF UniqueInv, HeldRowsExist, Present, Ids
    <3>2. rows'[i].status = "queued"
      BY <2>3, <3>1 DEF Alive
    <3>3. i = 1
      BY <2>2, <3>2 DEF Present
    <3>4. QED
      BY <2>2, <3>3 DEF LastRow
  <2>4. ASSUME NEW i \in Ids PROVE ChainRow(i)'
    BY <2>2 DEF ChainRow, Ids
  <2>5. QED
    BY <1>2, <2>3, <2>4 DEF ChainInv
<1>5. QED
  BY <1>3, <1>4

(* A handler at work has the last row, and the others are through.         *)
LEMMA OnlyOneWorks ==
  ASSUME ShapeInv, ExclusiveInv, RecordedInv, OnceInv, ChainInv, NEW w \in Worker, Busy(w)
  PROVE  /\ Me(w) \in Ids /\ Present(Me(w)) /\ LastRow(Me(w))
         /\ \A v \in Worker : v # w => ~Busy(v)
         /\ \A h \in Ids : rows[h].status # "queued"
<1>1. UniqueInv /\ OneWorkerPerRow /\ TypeOK /\ SeesItsRow(w) /\ pc[w] # "failing"
  BY ShapeParts, ExclusiveParts DEF OnceInv, FirstTry
<1>2. /\ \A v \in Worker : run[v].id # 0 => run[v].id \in Ids /\ Present(run[v].id)
      /\ \A i \in Ids : Alive(i) => LastRow(i)
  BY <1>1 DEF UniqueInv, HeldRowsExist, Present, ChainInv, TypeOK, Snapshot
<1>3. Me(w) \in Ids /\ Present(Me(w)) /\ Alive(Me(w)) /\ LastRow(Me(w))
  BY <1>2 DEF Busy, Me, Alive
<1>4. ASSUME NEW h \in Ids, Alive(h), Present(h) PROVE h = Me(w)
  <2>1. h <= Me(w) /\ Me(w) <= h
    BY <1>2, <1>3, <1>4 DEF LastRow
  <2>2. QED
    BY <1>3, <2>1 DEF Ids
<1>5. ASSUME NEW v \in Worker, v # w, Busy(v) PROVE FALSE
  <2>1. run[v].id = Me(w)
    BY <1>2, <1>4, <1>5 DEF Alive, Busy
  <2>2. QED
    BY <1>1, <1>5, <2>1 DEF OneWorkerPerRow, Me, Busy
<1>6. ASSUME NEW h \in Ids, rows[h].status = "queued" PROVE FALSE
  <2>1. h = Me(w)
    BY <1>4, <1>6 DEF Alive, Present
  <2>2. QED
    BY <1>1, <1>6, <2>1 DEF SeesItsRow, Me, Busy
<1>7. QED
  BY <1>3, <1>5, <1>6

(* The recheck it schedules is new, and becomes the last row.              *)
LEMMA RecheckIsNext ==
  ASSUME ShapeInv, ExclusiveInv, RecordedInv, OnceInv, ChainInv, NEW w \in Worker, Busy(w),
         StandsAt(w, "schedule")
  PROVE  /\ NextRecheck(w) \in RecheckKeys /\ NextRecheck(w)[3] = Me(w)
         /\ ~KeyTaken(NextRecheck(w))
         /\ \A n \in Ids : FreshId(n) => n = Me(w) + 1
<1>1. JobsOK /\ job[w] \in Job /\ Shaped(job[w])
  BY ShapeParts DEF JobsOK
<1>2. Me(w) \in Ids /\ Present(Me(w)) /\ LastRow(Me(w))
  BY OnlyOneWorks
<1>3. NextRecheck(w) \in RecheckKeys
  BY <1>1, NextRecheckKey
<1>4. NextRecheck(w)[3] = Me(w)
  <2>1. job[w].try = Me(w) - 1
    BY DEF ChainInv, ChainJob, Busy, Me
  <2>2. QED
    BY <1>2, <2>1 DEF NextRecheck, Ids
<1>5. \A h \in Ids : ChainRow(h)
  BY DEF ChainInv
<1>6. ASSUME NEW h \in Ids, Present(h), rows[h].key = NextRecheck(w) PROVE FALSE
  <2>1. h # 1
    BY <1>3, <1>5, <1>6 DEF ChainRow
  <2>2. h - 1 = Me(w)
    BY <1>4, <1>5, <1>6, <2>1 DEF ChainRow
  <2>3. QED
    BY <1>2, <1>6, <2>2 DEF LastRow, Ids
<1>7. ASSUME NEW n \in Ids, FreshId(n) PROVE n = Me(w) + 1
  <2>1. ~Present(n) /\ \A h \in Ids : h < n => Present(h)
    BY <1>7 DEF FreshId, Present
  <2>2. n > Me(w)
    BY <1>2, <1>5, <2>1 DEF ChainRow, Ids
  <2>3. n <= Me(w) + 1
    <3>1. ASSUME n > Me(w) + 1 PROVE FALSE
      <4>1. Me(w) + 1 \in Ids /\ Present(Me(w) + 1)
        BY <1>2, <2>1, <3>1 DEF Ids
      <4>2. QED
        BY <1>2, <4>1 DEF LastRow, Ids
    <3>2. QED
      BY <1>2, <3>1 DEF Ids
  <2>4. QED
    BY <1>2, <2>2, <2>3 DEF Ids
<1>8. QED
  BY <1>3, <1>4, <1>6, <1>7 DEF KeyTaken, Present

(* A handler adds no row but the next of the chain, when it is through     *)
(* with its own.                                                           *)
LEMMA HandlerChain ==
  ASSUME ShapeInv, ExclusiveInv, CheckInv, RecordedInv, OnceInv, ChainInv,
         NEW w \in Worker, HandlerStep(w), Steady(w)
  PROVE  ChainInv'
<1>1. /\ UniqueInv /\ JobsOK /\ TypeOK
      /\ \A i \in Ids : ChainRow(i)
      /\ \A v \in Worker : ChainJob(v) /\ ReportsOnRecorded(v)
      /\ KnowsItsCheck(w)
  BY ShapeParts, ExclusiveParts DEF ChainInv, RecordedInv, CheckInv
<1>2. /\ UNCHANGED <<pod, pc, run>>
      /\ \A i \in Ids : Present(i) => rows'[i] = rows[i]
      /\ Advanced(w) /\ \A v \in Worker : v # w => Kept(v)
  BY <1>1, HandlerRows, HandlerAdvanced, OthersKept DEF Present
<1>3. Busy(w)
  BY <1>1, <1>2 DEF Advanced, ReportsOnRecorded, Busy
<1>4. /\ Me(w) \in Ids /\ Present(Me(w)) /\ LastRow(Me(w))
      /\ \A v \in Worker : v # w => ~Busy(v)
      /\ \A h \in Ids : rows[h].status # "queued"
  BY <1>3, OnlyOneWorks
<1>5. ASSUME NEW v \in Worker PROVE ChainJob(v)'
  <2>1. CASE v # w
    <3>1. Kept(v) /\ ChainJob(v) /\ run'[v] = run[v]
      BY <1>1, <1>2, <2>1
    <3>2. job[v].at \in {"none", "returned"}
      BY <1>1, <1>4, <2>1 DEF Busy, ReportsOnRecorded
    <3>3. job'[v].overwritten = job[v].overwritten
      BY <1>1, <2>1, <3>2, HandlerOnLedger DEF ReadLedger, WroteFinding
    <3>4. QED
      BY <3>1, <3>3 DEF ChainJob, Kept
  <2>2. CASE v = w
    <3>1. job'[w].try = job[w].try /\ job'[w].overwritten = {}
      BY <1>1, <1>2 DEF Advanced, ChainJob, Steady
    <3>2. ASSUME job'[w].at = "coalesce" PROVE FALSE
      <4>1. job[w].at = "find" /\ \E i \in Ids : i < Me(w)
        BY <3>2 DEF Steady
      <4>2. rows[Me(w)].key \notin RecheckKeys
        BY <1>1, <1>3, <4>1 DEF KnowsItsCheck, Arrivals, Busy, Me
      <4>3. Me(w) = 1
        BY <1>1, <1>4, <4>2 DEF ChainRow
      <4>4. QED
        BY <4>1, <4>3 DEF Ids
    <3>3. QED
      BY <1>1, <1>2, <2>2, <3>1, <3>2 DEF ChainJob
  <2>3. QED
    BY <2>1, <2>2
<1>6. CASE rows' = rows
  <2>1. ASSUME NEW i \in Ids, Alive(i)' PROVE LastRow(i)'
    <3>1. PICK v \in Worker : Busy(v)' /\ run'[v].id = i
      BY <1>4, <1>6, <2>1 DEF Alive
    <3>2. v = w
      BY <1>2, <1>4, <3>1 DEF Busy, Kept
    <3>3. i = Me(w)
      BY <1>2, <3>1, <3>2 DEF Me
    <3>4. QED
      BY <1>4, <1>6, <3>3 DEF LastRow, Present
  <2>2. QED
    BY <1>1, <1>5, <1>6, <2>1 DEF ChainInv, ChainRow, Present
<1>7. CASE rows' # rows
  <2>1. StandsAt(w, "schedule") /\ EnqueuesRecheck(w) /\ job'[w].at = "returned"
    <3>1. Schedule(w)
      BY <1>7, HandlerOnQueue DEF vars
    <3>2. job[w] \in Job /\ job'[w] = [job[w] EXCEPT !.at = "returned"]
      BY <1>1, <3>1, MoveKeepsOthers DEF Schedule, Go, JobsOK
    <3>3. QED
      BY <3>1, <3>2 DEF Schedule, Job
  <2>2. /\ NextRecheck(w) \in RecheckKeys /\ NextRecheck(w)[3] = Me(w)
        /\ \A n \in Ids : FreshId(n) => n = Me(w) + 1
    BY <1>3, <2>1, RecheckIsNext
  <2>3. ASSUME NEW i \in Ids
        PROVE  \/ rows'[i] = rows[i]
               \/ /\ i = Me(w) + 1 /\ rows'[i].key = NextRecheck(w) /\ ~Present(i)
                  /\ \A k \in Ids : k < i => Present(k)
    BY <1>1, <2>2, HandlerAdds DEF FreshId, Present
  <2>4. ASSUME NEW i \in Ids, Present(i) PROVE Present(i)'
    BY <1>2, <2>4 DEF Present
  <2>5. ASSUME NEW i \in Ids PROVE ChainRow(i)'
    <3>1. CASE rows'[i] = rows[i]
      BY <1>1, <2>4, <3>1 DEF ChainRow, Present
    <3>2. CASE rows'[i] # rows[i]
      <4>1. /\ i = Me(w) + 1 /\ rows'[i].key = NextRecheck(w)
            /\ \A k \in Ids : k < i => Present(k)
        BY <2>3, <3>2
      <4>2. i # 1 /\ i - 1 = Me(w)
        BY <1>4, <4>1 DEF Ids
      <4>3. \A k \in Ids : k < i => Present(k)'
        BY <2>4, <4>1
      <4>4. QED
        BY <2>2, <4>1, <4>2, <4>3 DEF ChainRow
    <3>3. QED
      BY <3>1, <3>2
  <2>6. ASSUME NEW i \in Ids, Alive(i)' PROVE LastRow(i)'
    <3>1. ASSUME NEW v \in Worker, Busy(v)' PROVE FALSE
      <4>1. CASE v = w
        BY <2>1, <3>1, <4>1 DEF Busy
      <4>2. CASE v # w
        BY <1>2, <1>4, <3>1, <4>2 DEF Busy, Kept
      <4>3. QED
        BY <4>1, <4>2
    <3>2. rows'[i].status = "queued"
      BY <2>6, <3>1 DEF Alive
    <3>3. i = Me(w) + 1
      BY <1>4, <2>3, <3>2
    <3>4. ASSUME NEW k \in Ids, Present(k)' PROVE k <= i
      <4>1. k = i \/ rows'[k] = rows[k]
        BY <2>3, <3>3
      <4>2. rows'[k] = rows[k] => k <= Me(w)
        BY <1>4, <3>4 DEF LastRow, Present
      <4>3. QED
        BY <1>4, <3>3, <4>1, <4>2 DEF Ids
    <3>5. QED
      BY <3>4 DEF LastRow
  <2>7. QED
    BY <1>5, <2>5, <2>6 DEF ChainInv
<1>8. QED
  BY <1>6, <1>7

(* A job with a check run is over when that is completed, or hands it on   *)
(* to a recheck.                                                           *)
LEMMA HandlerReturns ==
  ASSUME JobsOK, OthersOK, NEW w \in Worker, FirstTry(w), ChainJob(w), HandlerStep(w),
         job'[w].at = "returned", job[w].check \in CheckIds
  PROVE  Schedule(w) \/ checks'[job[w].check].status = "completed"
<1>1. /\ job[w] \in Job /\ checks \in [CheckIds -> CheckRun] /\ 0 \notin CheckIds
      /\ job[w].check # NoCheck
  BY DEF JobsOK, OthersOK, CheckIds, NoCheck
<1>2. /\ job[w].kind # "agent" /\ job[w].plan # "closed"
      /\ job[w].at \notin Faulty \cup Arrivals \cup {"coalesce"} /\ job[w].overwritten = {}
  BY <1>1 DEF FirstTry, ChainJob
<1>3. ASSUME NEW at, NEW c, at # "returned",
             \/ job'[w] = [job[w] EXCEPT !.at = at]
             \/ job'[w] = [job[w] EXCEPT !.at = at, !.conclusion = c]
             \/ job'[w] = [job[w] EXCEPT !.at = at, !.head = c]
             \/ job'[w] = [job[w] EXCEPT !.at = at, !.check = c]
             \/ job'[w] = [job[w] EXCEPT !.at = at, !.stored = c, !.overwritten = c]
             \/ job'[w] = [job[w] EXCEPT !.at = at, !.verdict = c]
      PROVE  FALSE
  BY <1>1, <1>3 DEF Job
<1>4. /\ \A at : Go(w, at) => at = "returned"
      /\ \A c : ~Finish(w, c) /\ ~Post(w, c)
      /\ ~GoApprove(w)
  <2>1. ASSUME NEW at, Go(w, at) PROVE at = "returned"
    <3>1. job'[w] = [job[w] EXCEPT !.at = at]
      BY <2>1, MoveKeepsOthers DEF Go
    <3>2. QED
      BY <1>3, <3>1
  <2>2. ASSUME NEW c, Finish(w, c) PROVE FALSE
    <3>1. job'[w] = [job[w] EXCEPT !.at = "finish", !.conclusion = c]
      BY <2>2, MoveKeepsOthers DEF Finish
    <3>2. QED
      BY <1>3, <3>1
  <2>3. ASSUME NEW c, Post(w, c) PROVE FALSE
    <3>1. job'[w] = [job[w] EXCEPT !.at = "post", !.conclusion = c]
      BY <2>3, MoveKeepsOthers DEF Post
    <3>2. QED
      BY <1>3, <3>1
  <2>4. ASSUME GoApprove(w) PROVE FALSE
    <3>1. job'[w] = [job[w] EXCEPT !.at = "approve", !.head = pr.head]
      BY <2>4, MoveKeepsOthers DEF GoApprove
    <3>2. QED
      BY <1>3, <3>1
  <2>5. QED
    BY <2>1, <2>2, <2>3, <2>4
<1>5. CASE \/ Ignore(w) \/ ReadContext(w) \/ RecordTarget(w) \/ FindActive(w)
           \/ ClosedContext(w) \/ SkipMerge(w) \/ ProviderCooldown(w)
  BY <1>2, <1>5 DEF Ignore, ReadContext, RecordTarget, FindActive, ClosedContext, SkipMerge,
                    ProviderCooldown, StandsAt, Arrivals, Faulty
<1>6. ASSUME NEW c \in CheckIds, CreateCheck(w, c) PROVE FALSE
  BY <1>3, <1>6, MoveKeepsOthers DEF CreateCheck
<1>7. CASE RecordCheck(w)
  <2>1. job'[w] = [job[w] EXCEPT !.at = job[w].plan] /\ job[w].plan # "returned"
    BY <1>1, <1>7, MoveKeepsOthers DEF RecordCheck, Tracked, Job
  <2>2. QED
    BY <1>3, <2>1
<1>8. CASE ConflictContext(w) \/ RegisterRecheck(w) \/ Recheck(w)
  BY <1>4, <1>8 DEF ConflictContext, RegisterRecheck, Recheck
<1>9. ASSUME Think(w) PROVE FALSE
  <2>1. job'[w] = [job[w] EXCEPT !.at = "verdict", !.stored = {}, !.overwritten = {}]
    BY <1>9, MoveKeepsOthers DEF Think
  <2>2. QED
    BY <1>3, <2>1
<1>10. ASSUME ReachVerdict(w) PROVE FALSE
  <2>1. PICK v : \/ Finish(w, "cancelled")
                 \/ Move(w, [job[w] EXCEPT !.at = "publish", !.verdict = v])
    BY <1>10 DEF ReachVerdict
  <2>2. job'[w] = [job[w] EXCEPT !.at = "publish", !.verdict = v]
    BY <1>4, <2>1, MoveKeepsOthers
  <2>3. QED
    BY <1>3, <2>2
<1>11. ~Decide(w)
  BY <1>1, <1>4 DEF Decide, Approves
<1>12. CASE Publish(w) \/ Republish(w)
  BY <1>4, <1>11, <1>12 DEF Publish, Republish
<1>13. CASE PersistLedger(w) \/ AttachThread(w)
  BY <1>2, <1>13, LedgerStepMoves
<1>14. CASE CallSucceeds(w)
  <2>1. job'[w] = [job[w] EXCEPT !.at = NextCall(job[w]), !.conclusion = ConclusionOf(job[w])]
    BY <1>14, MoveKeepsOthers DEF CallSucceeds
  <2>2. NextCall(job[w]) = "returned" /\ job[w].at \in WriteCalls
    BY <1>3, <1>14, <2>1 DEF CallSucceeds, Calls
  <2>3. job[w].at \in {"finish", "discard"}
    BY <1>2, <2>2 DEF NextCall, WriteCalls, Faulty
  <2>4. \E c : checks' = Concluded(job[w].check, c)
    BY <1>14, <2>3 DEF CallSucceeds, Calls
  <2>5. QED
    BY <1>1, <2>4 DEF Concluded, CheckRun
<1>15. QED
  BY <1>5, <1>6, <1>7, <1>8, <1>9, <1>10, <1>12, <1>13, <1>14 DEF HandlerStep

(* Who carries a check run that is in progress: a worker that is not       *)
(* through with it, or the queued row of its recheck.                      *)
WorkedOn(c) == \E w \in Worker : Busy(w) /\ job[w].check = c
ToBeRechecked(c) ==
  \E i \in Ids : rows[i].status = "queued" /\ IsRecheck(rows[i].key) /\ rows[i].key[1] = c

CarriedInv ==
  \A c \in CheckIds : checks[c].status = "in_progress" /\ Recorded(c)
                        => WorkedOn(c) \/ ToBeRechecked(c)

(* A handler lets go of a check run in progress only to the recheck it     *)
(* inserts.                                                                *)
LEMMA HandlerCarries ==
  ASSUME Faultless, ShapeInv, ExclusiveInv, CheckInv, RecordedInv, OnceInv, ChainInv,
         CarriedInv, NEW w \in Worker, HandlerStep(w)
  PROVE  CarriedInv'
<1> SUFFICES ASSUME NEW c \in CheckIds, checks'[c].status = "in_progress", Recorded(c)'
             PROVE  WorkedOn(c)' \/ ToBeRechecked(c)'
  BY DEF CarriedInv
<1>1. /\ UniqueInv /\ JobsOK /\ OthersOK /\ rec \in [Ids -> Record]
      /\ FirstTry(w) /\ ChainJob(w) /\ KnowsItsCheck(w) /\ ReportsOnRecorded(w)
      /\ c # NoCheck
  BY ShapeParts DEF OthersOK, OnceInv, ChainInv, CheckInv, RecordedInv, CheckIds, NoCheck
<1>2. /\ run' = run
      /\ \A i \in Ids : Present(i) => rows'[i] = rows[i]
      /\ Advanced(w) /\ \A v \in Worker : v # w => Kept(v)
  BY <1>1, HandlerRows, HandlerAdvanced, OthersKept DEF Present
<1>3. Busy(w)
  BY <1>1, <1>2 DEF Advanced, ReportsOnRecorded, Busy
<1>4. CASE job'[w].check = c /\ job'[w].at # "returned"
  BY <1>2, <1>3, <1>4 DEF WorkedOn, Busy
<1>5. CASE job[w].check = c /\ ~(job'[w].check = c /\ job'[w].at # "returned")
  <2>1. job[w].at # "create"
    BY <1>1, <1>3, <1>5 DEF KnowsItsCheck, Busy
  <2>2. job'[w].at = "returned"
    BY <1>2, <1>5, <2>1 DEF Advanced
  <2>3. Schedule(w)
    BY <1>1, <1>5, <2>2, HandlerReturns
  <2>4. PICK n \in Ids : rows' = [rows EXCEPT ![n] = NewRow(NextRecheck(w), "standard", FALSE)]
    BY <1>3, <2>3, RecheckIsNext DEF Schedule, EnqueuesRecheck, Enqueue, InsertIgnore
  <2>5. rows'[n] = NewRow(NextRecheck(w), "standard", FALSE)
    BY <1>1, <2>4 DEF UniqueInv, TypeOK
  <2>6. rows'[n].status = "queued" /\ rows'[n].key = NextRecheck(w)
    BY <2>5 DEF NewRow, AbsentRow
  <2>7. IsRecheck(NextRecheck(w)) /\ NextRecheck(w)[1] = c
    BY <1>3, <1>5, <2>3, RecheckIsNext DEF Schedule, IsRecheck, NextRecheck
  <2>8. QED
    BY <2>6, <2>7 DEF ToBeRechecked
<1>6. CASE job[w].check # c /\ ~(job'[w].check = c /\ job'[w].at # "returned")
  <2>1. ~CreateFails(w)
    BY DEF CreateFails, CountError, Faultless, ShapeInv, ReviewTypeOK
  <2>2. checks[c].status = "in_progress"
    <3>1. ASSUME checks[c].status # "in_progress" PROVE FALSE
      <4>1. Creates(w, c)
        BY <1>1, <1>6, <3>1, HandlerReopens DEF ChainJob
      <4>2. job[w] \in Job /\ job'[w] = [job[w] EXCEPT !.at = "record", !.check = c]
        BY <1>1, <2>1, <4>1, MoveKeepsOthers DEF Creates, CreateCheck, JobsOK
      <4>3. QED
        BY <1>6, <4>2 DEF Job
    <3>2. QED
      BY <3>1
  <2>3. Recorded(c)
    BY <1>1, <1>6, HandlerCheckColumn DEF Recorded
  <2>4. CASE WorkedOn(c)
    <3>1. PICK v \in Worker : Busy(v) /\ job[v].check = c
      BY <2>4 DEF WorkedOn
    <3>2. v # w
      BY <1>6, <3>1
    <3>3. Busy(v)' /\ job'[v].check = c
      BY <1>2, <3>1, <3>2 DEF Kept, Busy
    <3>4. QED
      BY <3>3 DEF WorkedOn
  <2>5. CASE ToBeRechecked(c)
    BY <1>2, <2>5 DEF ToBeRechecked, Present
  <2>6. QED
    BY <2>2, <2>3, <2>4, <2>5 DEF CarriedInv
<1>7. QED
  BY <1>4, <1>5, <1>6

(* The queue lets go of a row when its handler has returned, and hands a   *)
(* queued recheck over to a worker.                                        *)
LEMMA QueueCarries ==
  ASSUME Faultless, ShapeInv, ExclusiveInv, OnceInv, CarriedInv,
         QueueStep \/ \E k \in Requests : RequestJob(k)
  PROVE  CarriedInv'
<1> SUFFICES ASSUME NEW c \in CheckIds, checks'[c].status = "in_progress", Recorded(c)'
             PROVE  WorkedOn(c)' \/ ToBeRechecked(c)'
  BY DEF CarriedInv
<1>1. UniqueInv /\ RowKeysKnown /\ FollowQueue /\ ReviewTypeOK
  BY ShapeParts, QueueStepIsNext, RequestIsNext DEF ShapeInv
<1>2. WorkedOn(c) \/ ToBeRechecked(c)
  <2>1. checks' = checks /\ \A i \in Ids : rec'[i].check = rec[i].check
    BY <1>1, StampsLeave DEF FollowQueue, github
  <2>2. QED
    BY <2>1 DEF CarriedInv, Recorded
<1>3. CASE WorkedOn(c)
  <2>1. PICK v \in Worker : Busy(v) /\ job[v].check = c
    BY <1>3 DEF WorkedOn
  <2>2. run'[v] = run[v] /\ job'[v] = job[v]
    BY <1>1, <2>1, JobChanges DEF Busy, StandsAt
  <2>3. QED
    BY <2>1, <2>2 DEF WorkedOn, Busy
<1>4. CASE ToBeRechecked(c)
  <2>1. PICK i \in Ids : rows[i].status = "queued" /\ IsRecheck(rows[i].key) /\ rows[i].key[1] = c
    BY <1>4 DEF ToBeRechecked
  <2>2. CASE rows'[i].status = "queued" /\ rows'[i].key = rows[i].key
    BY <2>1, <2>2 DEF ToBeRechecked
  <2>3. ASSUME NEW v \in Worker, run'[v].id = i, run[v].id = 0 PROVE WorkedOn(c)'
    <3>1. job'[v] = Started(i) /\ i # 0
      BY <1>1, <2>3, JobChanges DEF Ids
    <3>2. Started(i).check = c /\ Started(i).at = "register"
      BY <1>1, <2>1, StartedKnowsItsCheck
    <3>3. QED
      BY <2>3, <3>1, <3>2 DEF WorkedOn, Busy
  <2>4. QED
    BY <1>1, <2>1, <2>2, <2>3, RowChanges, RequestAdds
<1>5. QED
  BY <1>2, <1>3, <1>4

(* One step of the system.                                                 *)
LEMMA CarriedInductive ==
  ASSUME Faultless, OneRequest
  PROVE  ShapeInv /\ ExclusiveInv /\ CheckInv /\ RecordedInv /\ OnceInv /\ HeadInv
         /\ ChainInv /\ CarriedInv /\ [ReviewNext]_reviewVars => ChainInv' /\ CarriedInv'
<1> SUFFICES ASSUME ShapeInv, ExclusiveInv, CheckInv, RecordedInv, OnceInv, HeadInv,
                    ChainInv, CarriedInv, [ReviewNext]_reviewVars
             PROVE  ChainInv' /\ CarriedInv'
  OBVIOUS
<1>1. ASSUME NEW w \in Worker, CallFails(w) \/ CreateFails(w) PROVE FALSE
  <2>1. errors \in Nat
    BY DEF ShapeInv, ReviewTypeOK
  <2>2. QED
    BY <1>1, <2>1 DEF CallFails, CreateFails, CountError, Faultless
<1>2. ASSUME UNCHANGED <<vars, rec, job, checks>> PROVE ChainInv' /\ CarriedInv'
  BY <1>2 DEF vars, ChainInv, ChainRow, ChainJob, Alive, LastRow, Present, Busy, CarriedInv,
              Recorded, WorkedOn, ToBeRechecked
<1>3. ASSUME NEW w \in Worker, HandlerStep(w) PROVE ChainInv' /\ CarriedInv'
  <2>1. \A v \in Worker : Succeeding(job[v])
    BY DEF HeadInv, OfItsHead
  <2>2. Steady(w)
    BY <1>3, <2>1, HandlerOnce
  <2>3. QED
    BY <1>3, <2>2, HandlerChain, HandlerCarries
<1>4. CASE PrEvent
  BY <1>2, <1>4 DEF PrEvent
<1>5. CASE UNCHANGED reviewVars
  BY <1>2, <1>5 DEF reviewVars, github
<1>6. QED
  BY <1>1, <1>3, <1>4, <1>5, QueueChain, QueueCarries DEF ReviewNext, ReviewStep

(* If nothing fails, leases outlive runs and there is one request: a check *)
(* run in progress is always in the hands of a worker or of the row of its *)
(* next recheck, through any pushes, closings and CI results.              *)
THEOREM PendingChecksAreCarried ==
  ASSUME LeaseOutlivesRun, MaxOutages = 0, MaxDbErrors = 0, MaxCallErrors = 0,
         \A k \in Requests : JobKind[k] # "agent", MaxRequests \in {0, 1}
  PROVE  ReviewSpec => []PendingCheckIsCarried
<1>1. Faultless /\ ReviewsOnly /\ OneRequest
  BY DEF Faultless, ReviewsOnly, OneRequest
<1>2. ReviewInit => ChainInv /\ CarriedInv
  <2> SUFFICES ASSUME ReviewInit PROVE ChainInv /\ CarriedInv
    OBVIOUS
  <2>1. /\ rows = [i \in Ids |-> AbsentRow] /\ run = [w \in Worker |-> NoRun]
        /\ job = [w \in Worker |-> NoJob] /\ checks = [c \in CheckIds |-> AbsentCheck]
    BY DEF ReviewInit, Init
  <2>2. QED
    BY <2>1 DEF ChainInv, ChainRow, ChainJob, Alive, LastRow, Present, Busy, CarriedInv,
                NoJob, NoRun, AbsentRow, AbsentCheck
<1>3. CarriedInv => PendingCheckIsCarried
  BY DEF CarriedInv, Recorded, WorkedOn, Busy, ToBeRechecked, PendingCheckIsCarried, InHand,
         Carries, Unfinished
<1>4. QED
  BY <1>1, <1>2, <1>3, CarriedInductive, HeadAlways, ShapeAlways, ReviewExclusive, CheckAlways,
     RecordedAlways, PTL DEF ReviewSpec
=============================================================================
