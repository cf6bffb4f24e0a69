--------------------------- MODULE ReviewChecksProofs ---------------------------
(***************************************************************************)
(* What the reviews of a pull request leave at GitHub and in their rows,   *)
(* for every number of requests, pods, pushes, check runs, rechecks and    *)
(* faults: approvals are of passes, a row keeps its check run, and a check *)
(* run nobody knows of has a fault for its cause.                          *)
(***************************************************************************)
EXTENDS ReviewJobsProofs

USE MaxAttemptsAssumption, MaxRowsAssumption, RequestKeys, RequestShape,
    StandardLane, ReviewBounds

-----------------------------------------------------------------------------
(* A step of one handler changes no other worker's job, but for the note   *)
(* that the findings it read have been written since.                      *)
Kept(v) ==
  /\ job'[v].at = job[v].at /\ job'[v].kind = job[v].kind
  /\ job'[v].head = job[v].head /\ job'[v].check = job[v].check
  /\ job'[v].other = job[v].other /\ job'[v].try = job[v].try
  /\ job'[v].plan = job[v].plan /\ job'[v].verdict = job[v].verdict
  /\ job'[v].conclusion = job[v].conclusion

LEMMA MoveKeepsOthers ==
  ASSUME JobsOK, NEW w \in Worker, NEW j, Move(w, j)
  PROVE  job'[w] = j /\ \A v \in Worker : v # w => Kept(v)
  BY DEF JobsOK, Move, Kept

LEMMA WriteKeepsOthers ==
  ASSUME JobsOK, NEW w \in Worker, NEW f, NEW j, WritesFinding(w, f, j)
  PROVE  job'[w] = j /\ \A v \in Worker : v # w => Kept(v)
<1>1. job'[w] = j
  BY DEF WritesFinding
<1>2. ASSUME NEW v \in Worker, v # w PROVE Kept(v)
  <2>1. job[v] \in Job
    BY DEF JobsOK
  <2>2. PICK b : job'[v] = [job[v] EXCEPT !.overwritten = b]
    BY <1>2 DEF WritesFinding
  <2>3. QED
    BY <2>1, <2>2 DEF Kept, Job
<1>3. QED
  BY <1>1, <1>2

(* A step on the ledger moves the job from its place there, if at all, and *)
(* else only notes what became of the findings.                            *)
KeptButPlace(w) ==
  /\ job'[w].kind = job[w].kind /\ job'[w].head = job[w].head
  /\ job'[w].check = job[w].check /\ job'[w].other = job[w].other
  /\ job'[w].try = job[w].try /\ job'[w].plan = job[w].plan
  /\ job'[w].verdict = job[w].verdict /\ job'[w].conclusion = job[w].conclusion
  /\ job'[w].overwritten \subseteq job[w].overwritten

LedgerMoves == {<<"ledger", "ledger">>, <<"ledger", "republish">>, <<"ledger", "returned">>,
                <<"ledger", "discard">>, <<"post", "post">>}

LEMMA LedgerStepMoves ==
  ASSUME JobsOK, NEW w \in Worker, PersistLedger(w) \/ AttachThread(w)
  PROVE  /\ <<job[w].at, job'[w].at>> \in LedgerMoves /\ KeptButPlace(w)
         /\ job'[w].at \in {"returned", "discard"} => job[w].overwritten # {}
<1>1. job[w] \in Job
  BY DEF JobsOK
<1>2. ASSUME NEW a, NEW b, b \subseteq job[w].overwritten,
             job'[w] = [job[w] EXCEPT !.stored = a, !.overwritten = b]
      PROVE  job'[w].at = job[w].at /\ KeptButPlace(w)
  BY <1>1, <1>2 DEF Job, KeptButPlace
<1>3. ASSUME NEW f, WritesFinding(w, f, Stored(job[w], f))
      PROVE  job'[w].at = job[w].at /\ KeptButPlace(w)
  <2>1. job'[w] = [job[w] EXCEPT !.stored = @ \cup {f}, !.overwritten = @ \ {f}]
    BY <1>3, WriteKeepsOthers DEF Stored
  <2>2. QED
    BY <1>2, <2>1
<1>4. ASSUME NEW f,
             WritesFinding(w, f, [job[w] EXCEPT !.stored = @ \ {f}, !.overwritten = @ \ {f}])
      PROVE  job'[w].at = job[w].at /\ KeptButPlace(w)
  <2>1. job'[w] = [job[w] EXCEPT !.stored = @ \ {f}, !.overwritten = @ \ {f}]
    BY <1>4, WriteKeepsOthers
  <2>2. QED
    BY <1>2, <2>1
<1>5. ASSUME NEW at, NEW a, LeavesLedger(w, at, a)
      PROVE  job'[w].at = at /\ KeptButPlace(w)
  <2>1. job'[w] = [job[w] EXCEPT !.at = at, !.stored = a, !.overwritten = {}]
    BY <1>5, MoveKeepsOthers DEF LeavesLedger
  <2>2. QED
    BY <1>1, <2>1 DEF Job, KeptButPlace
<1>6. CASE PersistLedger(w)
  <2>1. job[w].at = "ledger"
    BY <1>6 DEF PersistLedger, StandsAt
  <2>2. CASE \E f \in Findings \ job[w].stored : WritesFinding(w, f, Stored(job[w], f))
    BY <1>3, <2>1, <2>2 DEF LedgerMoves
  <2>3. CASE \E at \in {"republish", "returned", "discard"} : \E a :
               LeavesLedger(w, at, a) /\ (at # "republish" => job[w].overwritten # {})
    <3>1. PICK at \in {"republish", "returned", "discard"} :
            /\ job'[w].at = at /\ KeptButPlace(w)
            /\ at # "republish" => job[w].overwritten # {}
      BY <1>5, <2>3
    <3>2. QED
      BY <2>1, <3>1 DEF LedgerMoves
  <2>4. QED
    BY <1>6, <2>2, <2>3 DEF PersistLedger
<1>7. CASE AttachThread(w)
  BY <1>4, <1>7 DEF AttachThread, StandsAt, LedgerMoves
<1>8. QED
  BY <1>6, <1>7

(* A failed call moves the job and, of the rest, only what it has stored.  *)
LEMMA FailedCallMoves ==
  ASSUME JobsOK, NEW w \in Worker, CallFails(w)
  PROVE  /\ job'[w].at = Thrown(job[w]).at
         /\ job'[w].kind = job[w].kind /\ job'[w].try = job[w].try
         /\ job'[w].head = job[w].head /\ job'[w].check = job[w].check
<1>1. job[w] \in Job
  BY DEF JobsOK
<1>2. \/ job'[w] = Thrown(job[w])
      \/ \E f : job'[w] = Thrown(Stored(job[w], f))
  BY MoveKeepsOthers, WriteKeepsOthers DEF CallFails
<1>3. CASE job'[w] = Thrown(job[w])
  BY <1>1, <1>3 DEF Thrown, Job
<1>4. ASSUME NEW f, job'[w] = Thrown(Stored(job[w], f))
      PROVE  /\ job'[w].at = Thrown(job[w]).at
             /\ job'[w].kind = job[w].kind /\ job'[w].try = job[w].try
             /\ job'[w].head = job[w].head /\ job'[w].check = job[w].check
  BY <1>1, <1>4 DEF Thrown, Stored, Job
<1>5. QED
  BY <1>2, <1>3, <1>4

LEMMA OthersKept ==
  ASSUME JobsOK, NEW w \in Worker, HandlerStep(w) \/ CallFails(w) \/ CreateFails(w)
  PROVE  \A v \in Worker : v # w => Kept(v)
<1>1. (\E j : Move(w, j) \/ (\E f : WritesFinding(w, f, j))) => \A v \in Worker : v # w => Kept(v)
  BY MoveKeepsOthers, WriteKeepsOthers
<1>2. CASE CallFails(w) \/ CreateFails(w)
  BY <1>1, <1>2 DEF CallFails, CreateFails
<1>3. CASE ReadContext(w)
  BY <1>1, <1>3 DEF ReadContext, Go
<1>4. CASE \E c \in CheckIds : CreateCheck(w, c)
  BY <1>1, <1>4 DEF CreateCheck
<1>5. CASE FindActive(w)
  BY <1>1, <1>5 DEF FindActive, Go
<1>6. CASE ReachVerdict(w)
  BY <1>1, <1>6 DEF ReachVerdict, Finish
<1>7. CASE Publish(w) \/ Republish(w)
  BY <1>1, <1>7 DEF Publish, Republish, Decide, Approves, Finish, Post, Go, GoApprove
<1>8. CASE PersistLedger(w) \/ AttachThread(w)
  BY <1>1, <1>8 DEF PersistLedger, LeavesLedger, AttachThread
<1>9. CASE Recheck(w)
  BY <1>1, <1>9 DEF Recheck, Finish, Post, Go, GoApprove
<1>10. CASE \/ Ignore(w) \/ RecordTarget(w) \/ RecordCheck(w) \/ ClosedContext(w)
            \/ ConflictContext(w) \/ Think(w) \/ ProviderCooldown(w) \/ CallSucceeds(w)
            \/ SkipMerge(w) \/ RegisterRecheck(w) \/ Schedule(w)
  BY <1>1, <1>10 DEF Ignore, RecordTarget, RecordCheck, ClosedContext, ConflictContext,
     Think, ProviderCooldown, CallSucceeds, SkipMerge, RegisterRecheck, Schedule, Go, Finish
<1>11. QED
  BY <1>2, <1>3, <1>4, <1>5, <1>6, <1>7, <1>8, <1>9, <1>10 DEF HandlerStep

(* The fields of a job that a step of its own handler leaves alone, and    *)
(* where the places that lead to a check run or an approval are reached    *)
(* from.                                                                   *)
Arrivals == {"ignore", "context", "target", "find"}
PlacesOfNote == {"create", "record", "coalesce", "register", "recheck", "wait", "schedule",
                 "approve"}

Advanced(w) ==
  /\ job'[w].kind = job[w].kind /\ job'[w].try = job[w].try
  /\ job[w].at # "context" => job'[w].head = job[w].head
  /\ job[w].at # "create" => job'[w].check = job[w].check
  /\ job[w].at \notin {"none", "returned", "threw", "cooldown"}
  /\ job'[w].at \in Arrivals => job[w].at \in Arrivals \ {"find"}
  /\ job'[w].at = "create" => job[w].at \in {"context", "find"} /\ job[w].check = NoCheck
  /\ job'[w].at = "record" => job[w].at = "create"
  /\ job'[w].at = "coalesce" => \E i \in Ids : job'[w].other = rec[i].check
  /\ job'[w].at # "register"
  /\ job'[w].at = "recheck" => job[w].at = "register"
  /\ job'[w].at = "schedule" => job[w].at = "wait"
  /\ job'[w].at \in {"wait", "approve"} =>
        \/ job[w].at = "recheck"
        \/ /\ job[w].at \in {"publish", "republish"}
           /\ \E v \in {"PASS", "approve"} : <<job[w].head, v>> \in verdicts'

LEMMA HandlerAdvanced ==
  ASSUME JobsOK, NEW w \in Worker, HandlerStep(w)
  PROVE  Advanced(w)
<1>1. job[w] \in Job /\ Shaped(job[w])
  BY DEF JobsOK
<1>2. ASSUME NEW at, Go(w, at)
      PROVE  /\ job'[w].at = at /\ job'[w].kind = job[w].kind /\ job'[w].try = job[w].try
             /\ job'[w].head = job[w].head /\ job'[w].check = job[w].check
  <2>1. job'[w] = [job[w] EXCEPT !.at = at]
    BY <1>2, MoveKeepsOthers DEF Go
  <2>2. QED
    BY <1>1, <2>1 DEF Job
<1>0. job[w].at \notin {"none", "returned", "threw", "cooldown"}
  BY DEF HandlerStep, StandsAt, Ignore, ReadContext, RecordTarget, FindActive,
         CreateCheck, RecordCheck, ClosedContext, ConflictContext, Think, ReachVerdict,
         ProviderCooldown, Publish, PersistLedger, AttachThread, Republish, CallSucceeds, Calls,
         WriteCalls, SkipMerge, RegisterRecheck, Recheck, Schedule
<1>3. ASSUME NEW c, Finish(w, c) \/ Post(w, c)
      PROVE  Advanced(w)
  <2>1. PICK at \in {"finish", "post"} : job'[w] = [job[w] EXCEPT !.at = at, !.conclusion = c]
    BY <1>3, MoveKeepsOthers DEF Finish, Post
  <2>2. QED
    BY <1>0, <1>1, <2>1 DEF Job, Advanced, Arrivals
<1>4. ASSUME NEW at, Go(w, at), at \notin Arrivals \cup PlacesOfNote
      PROVE  Advanced(w)
  BY <1>0, <1>2, <1>4 DEF Advanced, PlacesOfNote
<1>5. ASSUME GoApprove(w), ~Outdated(w),
             \/ job[w].at = "recheck"
             \/ /\ job[w].at \in {"publish", "republish"}
                /\ \E v \in {"PASS", "approve"} : <<job[w].head, v>> \in verdicts'
      PROVE  Advanced(w)
  <2>1. job'[w] = [job[w] EXCEPT !.at = "approve", !.head = pr.head]
    BY <1>5, MoveKeepsOthers DEF GoApprove
  <2>2. QED
    BY <1>0, <1>1, <1>5, <2>1 DEF Job, Advanced, Outdated, Arrivals
<1>6. ASSUME job[w].at \in {"publish", "republish"}, ~Outdated(w), Decide(w)
      PROVE  Advanced(w)
  <2>1. CASE job[w].verdict \in {"PASS", "approve"}
    <3>1. Approves(w) /\ \E v \in {"PASS", "approve"} : <<job[w].head, v>> \in verdicts'
      BY <1>6, <2>1 DEF Decide
    <3>2. CASE Go(w, "wait")
      BY <1>0, <1>2, <1>6, <3>1, <3>2 DEF Advanced, Arrivals
    <3>3. QED
      BY <1>3, <1>4, <1>5, <1>6, <3>1, <3>2 DEF Arrivals, PlacesOfNote, Approves
  <2>2. CASE job[w].verdict \notin {"PASS", "approve"}
    <3>1. Post(w, "neutral") \/ Go(w, "request") \/ Post(w, "action_required")
      BY <1>6, <2>2 DEF Decide
    <3>2. QED
      BY <1>3, <1>4, <3>1 DEF Arrivals, PlacesOfNote
  <2>3. QED
    BY <2>1, <2>2
<1>7. CASE Publish(w) \/ Republish(w)
  BY <1>3, <1>4, <1>6, <1>7 DEF Arrivals, PlacesOfNote, Publish, Republish, StandsAt
<1>8. CASE ClosedContext(w) \/ ConflictContext(w) \/ ProviderCooldown(w)
           \/ SkipMerge(w) \/ Schedule(w)
  BY <1>3, <1>4, <1>8 DEF PlacesOfNote, Arrivals, ClosedContext, ConflictContext, ProviderCooldown,
     SkipMerge, Schedule
<1>20. CASE Ignore(w) \/ RecordTarget(w)
  BY <1>0, <1>2, <1>4, <1>20 DEF Ignore, RecordTarget, StandsAt, Advanced, Arrivals, PlacesOfNote
<1>9. CASE RegisterRecheck(w)
  BY <1>0, <1>2, <1>9 DEF RegisterRecheck, StandsAt, Advanced, Arrivals
<1>10. CASE Recheck(w)
  <2>1. CASE Go(w, "wait")
    BY <1>0, <1>2, <1>10, <2>1 DEF Recheck, StandsAt, Advanced, Arrivals
  <2>2. QED
    BY <1>3, <1>5, <1>10, <2>1 DEF Arrivals, PlacesOfNote, Recheck, StandsAt
<1>11. CASE ReadContext(w)
  <2>1. CASE Go(w, "returned")
    BY <1>4, <2>1 DEF Arrivals, PlacesOfNote
  <2>2. CASE ~Go(w, "returned")
    <3>1. PICK p \in {"closed", "conflict", "think"}, at \in {"create", "target", "closed", "conflict", "think"} :
            /\ job'[w] = [job[w] EXCEPT !.head = pr.head, !.plan = p, !.at = at]
            /\ at = "create" => job[w].check = NoCheck
      <4>1. PICK p \in {"closed", "conflict", "think"} :
              LET j == [job[w] EXCEPT !.head = pr.head, !.plan = p] IN
              Move(w, IF j.kind = "agent" THEN CheckOrCreate(j) ELSE [j EXCEPT !.at = "target"])
        BY <1>11, <2>2 DEF ReadContext
      <4>2. QED
        BY ZenonT(30), <1>1, <4>1, MoveKeepsOthers DEF CheckOrCreate, Tracked, Job
    <3>2. QED
      BY <1>0, <1>1, <1>11, <3>1 DEF Job, Advanced, ReadContext, StandsAt, Arrivals
  <2>3. QED
    BY <2>1, <2>2
<1>12. CASE FindActive(w)
  <2>1. ASSUME NEW i \in Ids, Move(w, [job[w] EXCEPT !.at = "coalesce", !.other = rec[i].check])
        PROVE  Advanced(w)
    <3>1. job'[w] = [job[w] EXCEPT !.at = "coalesce", !.other = rec[i].check]
      BY <2>1, MoveKeepsOthers
    <3>2. QED
      BY <1>0, <1>1, <3>1 DEF Job, Advanced, Arrivals
  <2>2. CASE Move(w, CheckOrCreate(job[w]))
    <3>1. PICK at \in {"create", "none", "closed", "conflict", "think"} :
            /\ job'[w] = [job[w] EXCEPT !.at = at]
            /\ at = "create" => job[w].check = NoCheck
      BY <1>1, <2>2, MoveKeepsOthers DEF CheckOrCreate, Tracked, Job
    <3>2. QED
      BY <1>0, <1>1, <1>12, <3>1 DEF FindActive, StandsAt, Job, Advanced, Arrivals
  <2>3. QED
    BY <1>4, <1>12, <2>1, <2>2 DEF Arrivals, PlacesOfNote, FindActive
<1>13. CASE RecordCheck(w)
  <2>1. PICK at \in {"none", "closed", "conflict", "think"} :
          job'[w] = [job[w] EXCEPT !.at = at]
    BY <1>1, <1>13, MoveKeepsOthers DEF RecordCheck, Tracked, Job
  <2>2. QED
    BY <1>0, <1>1, <2>1 DEF Job, Advanced, Arrivals
<1>14. ASSUME NEW c \in CheckIds, CreateCheck(w, c) PROVE Advanced(w)
  <2>1. job'[w] = [job[w] EXCEPT !.at = "record", !.check = c] /\ job[w].at = "create"
    BY <1>14, MoveKeepsOthers DEF CreateCheck, StandsAt
  <2>2. QED
    BY <1>0, <1>1, <2>1 DEF Job, Advanced, Arrivals
<1>15. CASE Think(w)
  <2>1. job'[w] = [job[w] EXCEPT !.at = "verdict", !.stored = {}, !.overwritten = {}]
    BY <1>15, MoveKeepsOthers DEF Think
  <2>2. QED
    BY <1>0, <1>1, <2>1 DEF Job, Advanced, Arrivals
<1>16. CASE ReachVerdict(w)
  <2>1. ASSUME NEW v, Move(w, [job[w] EXCEPT !.at = "publish", !.verdict = v])
        PROVE  Advanced(w)
    <3>1. job'[w] = [job[w] EXCEPT !.at = "publish", !.verdict = v]
      BY <2>1, MoveKeepsOthers
    <3>2. QED
      BY <1>0, <1>1, <3>1 DEF Job, Advanced, Arrivals
  <2>2. QED
    BY <1>3, <1>16, <2>1 DEF ReachVerdict
<1>17. CASE PersistLedger(w) \/ AttachThread(w)
  <2>1. KeptButPlace(w) /\ <<job[w].at, job'[w].at>> \in LedgerMoves
    BY <1>17, LedgerStepMoves
  <2>2. job'[w].at \in {"ledger", "republish", "returned", "discard", "post"}
    BY <2>1 DEF LedgerMoves
  <2>3. QED
    BY <1>0, <2>1, <2>2 DEF KeptButPlace, Advanced, Arrivals
<1>18. CASE CallSucceeds(w)
  <2>1. job'[w] = [job[w] EXCEPT !.at = NextCall(job[w]), !.conclusion = ConclusionOf(job[w])]
    BY <1>18, MoveKeepsOthers DEF CallSucceeds
  <2>2. /\ NextCall(job[w]) \in {"merge", "returned", "threw", "schedule", "close", "finish"}
        /\ NextCall(job[w]) = "schedule" => job[w].at = "wait"
    BY <1>18 DEF CallSucceeds, Calls, WriteCalls, NextCall
  <2>3. QED
    BY <1>0, <1>1, <2>1, <2>2 DEF Job, Advanced, Arrivals
<1>19. QED
  BY <1>7, <1>8, <1>20, <1>9, <1>10, <1>11, <1>12, <1>13, <1>14, <1>15, <1>16, <1>17, <1>18 DEF HandlerStep

LEMMA FailureAdvanced ==
  ASSUME JobsOK, NEW w \in Worker, CallFails(w) \/ CreateFails(w)
  PROVE  Advanced(w)
<1>1. job[w] \in Job /\ Shaped(job[w])
  BY DEF JobsOK
<1>0. job[w].at \notin {"none", "returned", "threw", "cooldown"}
  BY DEF CallFails, AtCall, CreateFails, StandsAt
<1>2. CASE CallFails(w)
  <2>1. job'[w].at \in {"returned", "threw", "abort"}
    BY <1>1, <1>2, FailedCallMoves DEF Thrown, Job
  <2>2. QED
    BY <1>0, <1>2, <2>1, FailedCallMoves DEF Advanced, Arrivals
<1>3. CASE CreateFails(w)
  <2>1. job'[w] = [job[w] EXCEPT !.at = job[w].plan]
    BY <1>3, MoveKeepsOthers DEF CreateFails, Tracked
  <2>2. job[w].plan \in {"none", "closed", "conflict", "think"}
    BY <1>1 DEF Job
  <2>3. QED
    BY <1>0, <1>1, <2>1, <2>2 DEF Job, Advanced, Arrivals
<1>4. QED
  BY <1>2, <1>3

-----------------------------------------------------------------------------
(***************************************************************************)
(* Approvals. What makes ApprovalsFollowPass inductive: a job that waits   *)
(* for CI, and the recheck that row after row waits in its place, is for a *)
(* HEAD whose review came to publish a pass.                               *)
(***************************************************************************)
Passed(h) == \E v \in {"PASS", "approve"} : <<h, v>> \in verdicts

ApprovalJob(j) ==
  /\ j.at \in {"register", "recheck"} => j.kind = "ci_recheck"
  /\ j.kind = "ci_recheck" => j.try # 0 /\ Passed(j.head)
  /\ j.at \in {"wait", "schedule", "approve"} => Passed(j.head)

RecheckRowsPassed ==
  \A i \in Ids : (rows[i].status # "absent" /\ rows[i].key \in RecheckKeys)
                    => Passed(rows[i].key[2])

ApprovalInv ==
  /\ ApprovalsFollowPass
  /\ RecheckRowsPassed
  /\ \A w \in Worker : ApprovalJob(job[w])

(* Only a handler's call approves, and nothing is forgotten of a verdict.  *)
LEMMA HandlerApproves ==
  ASSUME NEW w \in Worker, HandlerStep(w) \/ CallFails(w) \/ CreateFails(w)
  PROVE  /\ verdicts \subseteq verdicts'
         /\ approved' \subseteq approved \cup (IF job[w].at = "approve" THEN {job[w].head} ELSE {})
<1>1. CASE Calls(w)
  BY <1>1 DEF Calls
<1>2. CASE UNCHANGED <<approved, verdicts>>
  BY <1>2
<1>3. CASE Decide(w)
  BY <1>3 DEF Decide
<1>4. QED
  BY <1>1, <1>2, <1>3
     DEF HandlerStep, Ignore, ReadContext, RecordTarget, RecordsTarget, FindActive,
         CreateCheck, CreatesCheck, RecordCheck, RecordsCheck, ClosedContext,
         ConflictContext, Think, ReachVerdict, ProviderCooldown, Progress, Publish,
         PersistLedger, LeavesLedger, AttachThread, WritesFinding, Republish, CallSucceeds,
         SkipMerge, RegisterRecheck, Recheck, Reads, Schedule, EnqueuesRecheck, CallFails, CreateFails, CarriedOut, github

(* A new recheck row is for the HEAD of the job that schedules it.         *)
LEMMA ScheduledRowPassed ==
  ASSUME UniqueInv, RecheckRowsPassed, NEW w \in Worker, Passed(job[w].head),
         EnqueuesRecheck(w)
  PROVE  RecheckRowsPassed'
<1>1. CASE UNCHANGED rows
  BY <1>1 DEF EnqueuesRecheck, RecheckRowsPassed, Passed, github
<1>2. CASE ~UNCHANGED rows
  <2>1. PICK i \in Ids : rows' = [rows EXCEPT ![i] = NewRow(NextRecheck(w), "standard", FALSE)]
    BY <1>2 DEF EnqueuesRecheck, Enqueue, InsertIgnore
  <2>2. /\ NewRow(NextRecheck(w), "standard", FALSE).key = NextRecheck(w)
        /\ NextRecheck(w)[2] = job[w].head
    BY DEF NewRow, AbsentRow, NextRecheck
  <2>3. verdicts' = verdicts
    BY DEF EnqueuesRecheck, github
  <2>4. ASSUME NEW j \in Ids, rows'[j].status # "absent", rows'[j].key \in RecheckKeys
        PROVE  Passed(rows'[j].key[2])
    <3>1. rows'[j] = rows[j] \/ rows'[j].key = NextRecheck(w)
      BY <2>1, <2>2 DEF UniqueInv, TypeOK
    <3>2. QED
      BY <2>2, <2>4, <3>1 DEF RecheckRowsPassed
  <2>5. QED
    BY <2>3, <2>4 DEF RecheckRowsPassed, Passed
<1>3. QED
  BY <1>1, <1>2

(* A requested row is no recheck's.                                        *)
LEMMA RequestedRowPassed ==
  ASSUME UniqueInv, RecheckRowsPassed, NEW k \in Requests, RequestJob(k)
  PROVE  RecheckRowsPassed'
<1>1. verdicts' = verdicts
  BY DEF RequestJob, FollowQueue, github
<1>2. CASE UNCHANGED rows
  BY <1>1, <1>2 DEF RecheckRowsPassed, Passed
<1>3. CASE ~UNCHANGED rows
  <2>1. PICK i \in Ids : rows' = [rows EXCEPT ![i] = NewRow(k, "standard", TRUE)]
    BY <1>3 DEF RequestJob, Enqueue, InsertIgnore
  <2>2. NewRow(k, "standard", TRUE).key = k /\ k \notin RecheckKeys
    BY DEF NewRow, AbsentRow
  <2>3. QED
    BY <1>1, <2>1, <2>2 DEF RecheckRowsPassed, Passed, UniqueInv, TypeOK
<1>4. QED
  BY <1>2, <1>3

(* A worker that takes a recheck up starts for a HEAD that passed.         *)
LEMMA StartedApproval ==
  ASSUME RowKeysKnown, RecheckRowsPassed, NEW i \in Ids, rows[i].status # "absent"
  PROVE  ApprovalJob(Started(i))
<1>1. CASE IsRecheck(rows[i].key)
  <2>1. Passed(rows[i].key[2]) /\ rows[i].key[3] # 0
    BY <1>1 DEF RecheckRowsPassed, IsRecheck, RecheckKeys
  <2>2. /\ Started(i).at = "register" /\ Started(i).kind = "ci_recheck"
        /\ Started(i).head = rows[i].key[2] /\ Started(i).try = rows[i].key[3]
    BY <1>1 DEF Started, NoJob
  <2>3. QED
    BY <2>1, <2>2 DEF ApprovalJob
<1>2. CASE ~IsRecheck(rows[i].key)
  <2>1. JobKind[rows[i].key] \in {"review", "command", "agent"}
    BY <1>2 DEF RowKeysKnown, IsRecheck
  <2>2. /\ Started(i).at \in {"context", "ignore"}
        /\ Started(i).kind \in {"review", "command", "agent"}
    BY <1>2, <2>1 DEF Started, NoJob
  <2>3. QED
    BY <2>2 DEF ApprovalJob
<1>3. QED
  BY <1>1, <1>2

LEMMA QueueKeepsApprovals ==
  ASSUME ApprovalInv, RowKeysKnown, FollowQueue, RecheckRowsPassed',
         \A w \in Worker : (run'[w].id # run[w].id /\ run'[w].id # 0) =>
            run'[w].id \in Ids /\ rows[run'[w].id].status # "absent"
  PROVE  ApprovalInv'
<1>1. approved' = approved /\ verdicts' = verdicts
  BY DEF FollowQueue, github
<1>2. ASSUME NEW w \in Worker PROVE ApprovalJob(job'[w])
  <2>1. CASE run'[w].id = run[w].id
    BY <2>1 DEF FollowQueue, ApprovalInv
  <2>2. CASE run'[w].id # run[w].id /\ run'[w].id = 0
    BY <2>2 DEF FollowQueue, NoJob, ApprovalJob
  <2>3. CASE run'[w].id # run[w].id /\ run'[w].id # 0
    <3>1. \/ job'[w] = [NoJob EXCEPT !.at = "expired", !.check = rec[run'[w].id].check]
          \/ job'[w] = Started(run'[w].id)
      BY <2>3 DEF FollowQueue
    <3>2. ApprovalJob(Started(run'[w].id))
      BY <2>3, StartedApproval DEF ApprovalInv
    <3>3. ApprovalJob([NoJob EXCEPT !.at = "expired", !.check = rec[run'[w].id].check])
      BY DEF NoJob, ApprovalJob
    <3>4. QED
      BY <3>1, <3>2, <3>3
  <2>4. QED
    BY <2>1, <2>2, <2>3
<1>3. QED
  BY <1>1, <1>2 DEF ApprovalInv, ApprovalsFollowPass, ApprovalJob, Passed

LEMMA HandlerKeepsApprovals ==
  ASSUME ShapeInv, ApprovalInv, NEW w \in Worker,
         HandlerStep(w) \/ CallFails(w) \/ CreateFails(w)
  PROVE  ApprovalInv'
<1>1. JobsOK /\ OthersOK /\ UniqueInv
  BY ShapeParts
<1>2. /\ verdicts \subseteq verdicts'
      /\ approved' \subseteq approved \cup (IF job[w].at = "approve" THEN {job[w].head} ELSE {})
  BY HandlerApproves
<1>3. ApprovalsFollowPass'
  BY <1>2 DEF ApprovalInv, ApprovalsFollowPass, ApprovalJob, Passed
<1>4. RecheckRowsPassed'
  <2>1. CASE UNCHANGED rows
    BY <1>2, <2>1 DEF ApprovalInv, RecheckRowsPassed, Passed
  <2>2. CASE StandsAt(w, "schedule") /\ EnqueuesRecheck(w)
    BY <1>1, <2>2, ScheduledRowPassed DEF ApprovalInv, ApprovalJob, StandsAt
  <2>3. QED
    BY <2>1, <2>2, HandlerOnQueue, FailureOnQueue DEF vars, Schedule
<1>5. ASSUME NEW v \in Worker PROVE ApprovalJob(job[v])'
  <2>1. ApprovalJob(job[v])
    BY DEF ApprovalInv
  <2>2. CASE v # w
    <3>1. Kept(v)
      BY <1>1, <2>2, OthersKept
    <3>2. QED
      BY <1>2, <2>1, <3>1 DEF Kept, ApprovalJob, Passed
  <2>3. CASE v = w
    <3>1. Advanced(w) /\ Shaped(job[w])
      BY <1>1, HandlerAdvanced, FailureAdvanced DEF JobsOK
    <3>2. job[w].at = "context" => job[w].try = 0
      BY <3>1 DEF Shaped, ReviewPlaces
    <3>3. QED
      BY <1>2, <2>1, <2>3, <3>1, <3>2 DEF Advanced, ApprovalJob, Passed
  <2>4. QED
    BY <2>2, <2>3
<1>6. QED
  BY <1>3, <1>4, <1>5 DEF ApprovalInv

LEMMA ApprovalInductive ==
  ShapeInv /\ ApprovalInv /\ [ReviewNext]_reviewVars => ApprovalInv'
<1> SUFFICES ASSUME ShapeInv, ApprovalInv, [ReviewNext]_reviewVars PROVE ApprovalInv'
  OBVIOUS
<1>1. UniqueInv /\ RowKeysKnown /\ RecheckRowsPassed
  BY ShapeParts DEF ApprovalInv
<1>2. TypeOK'
  BY ShapeInductive DEF ShapeInv, ReviewTypeOK
<1>3. ASSUME NEW k \in Requests, RequestJob(k) PROVE ApprovalInv'
  BY <1>1, <1>3, RequestIsNext, RequestedRowPassed, QueueKeepsApprovals DEF Enqueue
<1>4. CASE QueueStep
  <2>1. SameKeys /\ FollowQueue
    BY <1>1, <1>4, QueueStepKeys, QueueStepIsNext
  <2>2. RecheckRowsPassed'
    BY <1>1, <2>1 DEF SameKeys, FollowQueue, github, RecheckRowsPassed, Passed
  <2>3. QED
    BY <1>1, <1>2, <1>4, <2>1, <2>2, TakenRowExists, QueueKeepsApprovals
<1>5. ASSUME UNCHANGED <<rows, job, approved, verdicts>> PROVE ApprovalInv'
  BY <1>5 DEF ApprovalInv, ApprovalsFollowPass, RecheckRowsPassed, ApprovalJob, Passed
<1>6. CASE PrEvent
  BY <1>5, <1>6 DEF PrEvent, vars
<1>7. CASE UNCHANGED reviewVars
  BY <1>5, <1>7 DEF reviewVars, vars, github
<1>8. QED
  BY <1>3, <1>4, <1>6, <1>7, HandlerKeepsApprovals DEF ReviewNext, ReviewStep

(* Every approving review, in every behaviour, is of a HEAD whose own      *)
(* review or agent answer came to publish a pass: no push, retry, lost     *)
(* answer, second worker or late recheck turns the pass of one HEAD into   *)
(* the approval of another.                                                *)
THEOREM ApprovalsArePasses == ReviewSpec => []ApprovalsFollowPass
<1>1. ReviewInit => ApprovalInv
  BY DEF ReviewInit, Init, AbsentRow, NoJob, ApprovalInv, ApprovalsFollowPass,
         RecheckRowsPassed, ApprovalJob
<1>2. ApprovalInv => ApprovalsFollowPass
  BY DEF ApprovalInv
<1>3. QED
  BY <1>1, <1>2, ApprovalInductive, ShapeAlways, PTL DEF ReviewSpec

-----------------------------------------------------------------------------
(***************************************************************************)
(* Check runs. A row gets its check run once, although a retry, another    *)
(* pod or a recheck may create or register one: that rests on there being  *)
(* one worker at a time for the row, and on what the worker knows of it.   *)
(***************************************************************************)
KnowsItsCheck(w) ==
  run[w].id # 0 =>
    LET i == run[w].id
        j == job[w] IN
    /\ j.at \in Arrivals => j.check = rec[i].check
    /\ j.at = "create" => j.check = NoCheck /\ rec[i].check = NoCheck
    /\ j.at = "record" => rec[i].check = NoCheck
    /\ j.at \in Arrivals \cup {"create", "record"} => rows[i].key \notin RecheckKeys
    /\ j.at = "register" => j.kind = "ci_recheck"
    /\ j.kind = "ci_recheck" => rows[i].key \in RecheckKeys /\ rows[i].key[1] = j.check

RecheckRowsKeep ==
  \A i \in Ids :
    /\ rows[i].status = "absent" => rec[i].check = NoCheck
    /\ (rows[i].status # "absent" /\ rows[i].key \in RecheckKeys)
          => rec[i].check \in {NoCheck, rows[i].key[1]}

CheckInv ==
  /\ RecheckRowsKeep
  /\ \A w \in Worker : KnowsItsCheck(w)

ChecksKept == \A i \in Ids : rec[i].check # NoCheck => rec'[i].check = rec[i].check


(* Enqueuing leaves every row there is alone.                              *)
LEMMA EnqueueAdds ==
  ASSUME UniqueInv, NEW k, NEW lane, NEW due, Enqueue(k, lane, due)
  PROVE  \A i \in Ids : rows[i].status # "absent" => rows'[i] = rows[i]
  BY DEF Enqueue, InsertIgnore, FreshId, UniqueInv, TypeOK

LEMMA HandlerRows ==
  ASSUME UniqueInv, NEW w \in Worker, HandlerStep(w) \/ CallFails(w) \/ CreateFails(w)
  PROVE  /\ UNCHANGED <<pod, pc, run, outages>>
         /\ \A i \in Ids : rows[i].status # "absent" => rows'[i] = rows[i]
<1>1. CASE UNCHANGED vars
  BY <1>1 DEF vars
<1>2. CASE EnqueuesRecheck(w)
  BY <1>2, EnqueueAdds DEF EnqueuesRecheck, Enqueue
<1>3. QED
  BY <1>1, <1>2, HandlerOnQueue, FailureOnQueue DEF Schedule

(* Of the columns, a handler writes the target or the check of its own row.*)
LEMMA HandlerRecords ==
  ASSUME NEW w \in Worker, HandlerStep(w) \/ CallFails(w) \/ CreateFails(w)
  PROVE  \/ rec' = rec
         \/ RecordsTarget(w)
         \/ job[w].at \in {"record", "register"} /\ RecordsCheck(w)
  BY DEF HandlerStep, Ignore, ReadContext, RecordTarget, FindActive, CreateCheck,
         CreatesCheck, RecordCheck, ClosedContext, ConflictContext, Think, ReachVerdict,
         ProviderCooldown, Progress, Publish, Decide, PersistLedger, LeavesLedger,
         AttachThread, WritesFinding, Republish, CallSucceeds, Calls, SkipMerge, RegisterRecheck, Recheck, Reads, Schedule,
         EnqueuesRecheck, CallFails, CreateFails, CarriedOut, StandsAt

LEMMA HandlerCheckColumn ==
  ASSUME rec \in [Ids -> Record], NEW w \in Worker,
         HandlerStep(w) \/ CallFails(w) \/ CreateFails(w), NEW i \in Ids
  PROVE  \/ rec'[i].check = rec[i].check
         \/ /\ i = Me(w) /\ job[w].at \in {"record", "register"}
            /\ rec'[i].check = job[w].check
<1>1. rec[i] \in Record
  OBVIOUS
<1>2. CASE RecordsTarget(w)
  <2>1. rec'[i] = rec[i] \/ rec'[i] = [rec[i] EXCEPT !.kind = "review", !.head = job[w].head]
    BY <1>1, <1>2 DEF RecordsTarget, Record
  <2>2. QED
    BY <1>1, <2>1 DEF Record
<1>3. CASE job[w].at \in {"record", "register"} /\ RecordsCheck(w)
  <2>1. \/ rec'[i] = rec[i]
        \/ i = Me(w) /\ \E k : rec'[i] = [rec[i] EXCEPT !.kind = k, !.head = job[w].head,
                                                        !.check = job[w].check]
    BY <1>3 DEF RecordsCheck
  <2>2. QED
    BY <1>1, <1>3, <2>1 DEF Record
<1>4. QED
  BY <1>2, <1>3, HandlerRecords

LEMMA HandlerKeepsChecks ==
  ASSUME ShapeInv, OneWorkerPerRow, CheckInv, NEW w \in Worker,
         HandlerStep(w) \/ CallFails(w) \/ CreateFails(w)
  PROVE  CheckInv' /\ ChecksKept
<1>1. JobsOK /\ rec \in [Ids -> Record] /\ UniqueInv /\ run \in [Worker -> Snapshot]
  BY ShapeParts DEF OthersOK, UniqueInv, TypeOK
<1>2. /\ run' = run
      /\ \A i \in Ids : rows[i].status # "absent" => rows'[i] = rows[i]
  BY <1>1, HandlerRows
<1>3. \A i \in Ids : \/ rec'[i].check = rec[i].check
                     \/ /\ i = Me(w) /\ job[w].at \in {"record", "register"}
                        /\ rec'[i].check = job[w].check
  BY <1>1, HandlerCheckColumn
<1>4. \A v \in Worker : run[v].id # 0 => run[v].id \in Ids /\ rows[run[v].id].status # "absent"
  BY <1>1 DEF UniqueInv, HeldRowsExist, Snapshot
<1>5. RecheckRowsKeep /\ \A v \in Worker : KnowsItsCheck(v)
  BY DEF CheckInv
<1>6. 0 \notin Ids
  BY DEF Ids
<1>7. ASSUME NEW i \in Ids, rec'[i].check # rec[i].check
      PROVE  /\ i = Me(w) /\ rec'[i].check = job[w].check
             /\ rows[i].status # "absent" /\ rec[i].check = NoCheck
             /\ rows[i].key \in RecheckKeys => rows[i].key[1] = job[w].check
  <2>1. /\ i = Me(w) /\ job[w].at \in {"record", "register"} /\ Me(w) # 0
        /\ rec'[i].check = job[w].check /\ rows[i].status # "absent"
    BY <1>3, <1>4, <1>6, <1>7 DEF Me
  <2>2. CASE job[w].at = "record"
    BY <1>5, <2>1, <2>2 DEF KnowsItsCheck, Me
  <2>3. CASE job[w].at = "register"
    BY <1>5, <1>7, <2>1, <2>3 DEF KnowsItsCheck, RecheckRowsKeep, Me
  <2>4. QED
    BY <2>1, <2>2, <2>3
<1>8. ChecksKept
  BY <1>7 DEF ChecksKept
<1>9. RecheckRowsKeep'
  <2>1. ASSUME NEW i \in Ids, rows'[i].status = "absent" PROVE rec'[i].check = NoCheck
    BY <1>2, <1>5, <1>7, <2>1 DEF RecheckRowsKeep
  <2>2. ASSUME NEW i \in Ids, rows'[i].status # "absent", rows'[i].key \in RecheckKeys
        PROVE  rec'[i].check \in {NoCheck, rows'[i].key[1]}
    BY <1>2, <1>5, <1>7, <2>2 DEF RecheckRowsKeep
  <2>3. QED
    BY <2>1, <2>2 DEF RecheckRowsKeep
<1>10. ASSUME NEW v \in Worker, run[v].id # 0 PROVE KnowsItsCheck(v)'
  <2> DEFINE i == run[v].id
  <2>1. i \in Ids /\ rows'[i] = rows[i] /\ run'[v].id = i
    BY <1>2, <1>4, <1>10
  <2>2. CASE v # w
    <3>1. i # Me(w)
      BY <1>10, <2>2 DEF OneWorkerPerRow, Me
    <3>2. rec'[i].check = rec[i].check
      BY <1>3, <2>1, <3>1
    <3>3. Kept(v)
      BY <1>1, <2>2, OthersKept
    <3>4. QED
      BY <1>5, <1>10, <2>1, <3>2, <3>3 DEF KnowsItsCheck, Kept
  <2>3. CASE v = w
    <3>1. Advanced(w)
      BY <1>1, HandlerAdvanced, FailureAdvanced
    <3>2. job[w].at \notin {"record", "register"} => rec'[i].check = rec[i].check
      BY <1>3, <2>1
    <3>3. KnowsItsCheck(w) /\ run[w].id = i /\ i # 0
      BY <1>5, <1>10, <2>3
    <3> HIDE DEF i
    <3>4. job'[w].kind = "ci_recheck" => job'[w].check = job[w].check
      BY <3>1, <3>3 DEF Advanced, KnowsItsCheck
    <3>5. QED
      BY <2>1, <2>3, <3>1, <3>2, <3>3, <3>4 DEF Advanced, KnowsItsCheck, Arrivals
  <2>4. QED
    BY <2>2, <2>3
<1>11. ASSUME NEW v \in Worker PROVE KnowsItsCheck(v)'
  BY <1>2, <1>10 DEF KnowsItsCheck
<1>12. QED
  BY <1>8, <1>9, <1>11 DEF CheckInv

LEMMA StartedKnowsItsCheck ==
  ASSUME RowKeysKnown, NEW i \in Ids, rows[i].status # "absent"
  PROVE  LET j == Started(i) IN
         /\ IsRecheck(rows[i].key)
              => /\ j.at = "register" /\ j.kind = "ci_recheck" /\ j.check = rows[i].key[1]
                 /\ rows[i].key \in RecheckKeys
         /\ ~IsRecheck(rows[i].key)
              => /\ j.at \in {"context", "ignore"} /\ j.check = rec[i].check
                 /\ j.kind # "ci_recheck" /\ rows[i].key \notin RecheckKeys
<1>1. ~IsRecheck(rows[i].key) => JobKind[rows[i].key] \in {"review", "command", "agent"}
  BY DEF RowKeysKnown, IsRecheck
<1>2. QED
  BY <1>1 DEF Started, NoJob, IsRecheck

(* A step of the queue hands rows over and leaves the column alone.        *)
LEMMA QueueKeepsChecks ==
  ASSUME ShapeInv, TypeOK', CheckInv, FollowQueue,
         \A i \in Ids : rows[i].status # "absent" =>
            rows'[i].status # "absent" /\ rows'[i].key = rows[i].key,
         \A w \in Worker : (run'[w].id # run[w].id /\ run'[w].id # 0) =>
            run'[w].id \in Ids /\ rows[run'[w].id].status # "absent"
  PROVE  CheckInv' /\ ChecksKept
<1>1. RowKeysKnown /\ UniqueInv /\ run \in [Worker -> Snapshot] /\ ReviewTypeOK
  BY ShapeParts DEF UniqueInv, TypeOK, ShapeInv
<1>2. \A i \in Ids : rec'[i].check = rec[i].check
  BY <1>1, StampedType DEF FollowQueue
<1>3. RecheckRowsKeep /\ \A v \in Worker : KnowsItsCheck(v)
  BY DEF CheckInv
<1>4. ASSUME NEW v \in Worker, run'[v].id # 0 PROVE KnowsItsCheck(v)'
  <2> DEFINE i == run'[v].id
  <2>1. i \in Ids /\ rows[i].status # "absent"
    BY <1>1, <1>4 DEF UniqueInv, HeldRowsExist, Snapshot
  <2>2. rows'[i].key = rows[i].key /\ rec'[i].check = rec[i].check
    BY <1>2, <2>1
  <2>3. CASE i = run[v].id
    <3>1. job'[v] = job[v]
      BY <2>3 DEF FollowQueue
    <3>2. QED
      BY <1>3, <1>4, <2>2, <2>3, <3>1 DEF KnowsItsCheck
  <2>4. CASE i # run[v].id
    <3>1. \/ job'[v] = [NoJob EXCEPT !.at = "expired", !.check = rec[i].check]
          \/ job'[v] = Started(i)
      BY <1>4, <2>4 DEF FollowQueue
    <3>2. CASE job'[v] = [NoJob EXCEPT !.at = "expired", !.check = rec[i].check]
      <4>1. job'[v].at = "expired" /\ job'[v].kind = "none"
        BY <3>2 DEF NoJob
      <4>2. QED
        BY <4>1 DEF KnowsItsCheck, Arrivals
    <3>3. CASE job'[v] = Started(i)
      BY <1>1, <2>1, <2>2, <3>3, StartedKnowsItsCheck DEF KnowsItsCheck, Arrivals
    <3>4. QED
      BY <3>1, <3>2, <3>3
  <2>5. QED
    BY <2>3, <2>4
<1>5. \A v \in Worker : KnowsItsCheck(v)'
  BY <1>4 DEF KnowsItsCheck
<1>6. RecheckRowsKeep'
  <2>1. ASSUME NEW i \in Ids, rows'[i].status = "absent" PROVE rec'[i].check = NoCheck
    BY <1>2, <1>3, <2>1 DEF RecheckRowsKeep
  <2>2. ASSUME NEW i \in Ids, rows'[i].status # "absent", rows'[i].key \in RecheckKeys
        PROVE  rec'[i].check \in {NoCheck, rows'[i].key[1]}
    BY <1>2, <1>3, <2>2 DEF RecheckRowsKeep
  <2>3. QED
    BY <2>1, <2>2 DEF RecheckRowsKeep
<1>7. QED
  BY <1>2, <1>5, <1>6 DEF CheckInv, ChecksKept

(* What every step of the queue, and every request, gives the two lemmas.  *)
LEMMA QueueHands ==
  ASSUME ShapeInv, TypeOK', QueueStep \/ \E k \in Requests : RequestJob(k)
  PROVE  /\ FollowQueue
         /\ \A i \in Ids : rows[i].status # "absent" =>
              rows'[i].status # "absent" /\ rows'[i].key = rows[i].key
         /\ \A w \in Worker : (run'[w].id # run[w].id /\ run'[w].id # 0) =>
              run'[w].id \in Ids /\ rows[run'[w].id].status # "absent"
<1>1. UniqueInv
  BY ShapeParts
<1>2. CASE QueueStep
  BY <1>1, <1>2, QueueStepKeys, QueueStepIsNext, TakenRowExists DEF SameKeys
<1>3. ASSUME NEW k \in Requests, RequestJob(k)
      PROVE  /\ FollowQueue /\ UNCHANGED run
             /\ \A i \in Ids : rows[i].status # "absent" => rows'[i] = rows[i]
  BY <1>1, <1>3, RequestIsNext, EnqueueAdds DEF Enqueue
<1>4. QED
  BY <1>2, <1>3

LEMMA CheckInductive ==
  ShapeInv /\ OneWorkerPerRow /\ CheckInv /\ [ReviewNext]_reviewVars => CheckInv' /\ ChecksKept
<1> SUFFICES ASSUME ShapeInv, OneWorkerPerRow, CheckInv, [ReviewNext]_reviewVars
             PROVE  CheckInv' /\ ChecksKept
  OBVIOUS
<1>1. TypeOK'
  BY ShapeInductive DEF ShapeInv, ReviewTypeOK
<1>2. CASE QueueStep \/ \E k \in Requests : RequestJob(k)
  BY <1>1, <1>2, QueueHands, QueueKeepsChecks
<1>3. ASSUME UNCHANGED <<rows, run, job, rec>> PROVE CheckInv' /\ ChecksKept
  BY <1>3 DEF CheckInv, RecheckRowsKeep, KnowsItsCheck, ChecksKept
<1>4. CASE PrEvent
  BY <1>3, <1>4 DEF PrEvent, vars
<1>5. CASE UNCHANGED reviewVars
  BY <1>3, <1>5 DEF reviewVars, vars
<1>6. QED
  BY <1>2, <1>4, <1>5, HandlerKeepsChecks DEF ReviewNext, ReviewStep

LEMMA ReviewExclusive ==
  ASSUME LeaseOutlivesRun
  PROVE  ReviewSpec => []ExclusiveInv
  BY ExclusiveAlways, ReviewsUseTheQueue, PTL

LEMMA CheckAlways ==
  ASSUME LeaseOutlivesRun
  PROVE  ReviewSpec => []CheckInv
<1>1. ReviewInit => CheckInv
  BY DEF ReviewInit, Init, AbsentRow, NoRecord, NoRun, CheckInv, RecheckRowsKeep, KnowsItsCheck
<1>2. ExclusiveInv => OneWorkerPerRow
  BY DEF ExclusiveInv
<1>3. QED
  BY <1>1, <1>2, CheckInductive, ShapeAlways, ReviewExclusive, PTL DEF ReviewSpec

(* As long as leases outlive runs, a row that has a check run keeps it: no *)
(* retry after a crash, an error or a lost answer, and no recheck, reports *)
(* on another.                                                             *)
THEOREM ChecksAreKept ==
  ASSUME LeaseOutlivesRun
  PROVE  ReviewSpec => CheckIsKept
<1>1. ExclusiveInv => OneWorkerPerRow
  BY DEF ExclusiveInv
<1>2. ShapeInv /\ OneWorkerPerRow /\ CheckInv /\ [ReviewNext]_reviewVars => [ChecksKept]_reviewVars
  BY CheckInductive
<1>3. QED
  BY <1>1, <1>2, CheckAlways, ShapeAlways, ReviewExclusive, PTL
     DEF ReviewSpec, CheckIsKept, ChecksKept

-----------------------------------------------------------------------------
(***************************************************************************)
(* Orphans. A check run in progress that no row has and that is not on its *)
(* way into its row is counted against the fault that left it: a crash, a  *)
(* stop whose grace ended, or a failed call. A stop counts from the moment *)
(* it is asked for, so pods that are stopping are counted too.             *)
(***************************************************************************)
Recorded(c) == \E i \in Ids : rec[i].check = c

BeingRecorded(c) == \E w \in Worker : StandsAt(w, "record") /\ job[w].check = c

Left == {c \in CheckIds : checks[c].status = "in_progress" /\ ~Recorded(c) /\ ~BeingRecorded(c)}

StoppingPods == {p \in Pods : pod[p] = "stopping"}

LeftInv ==
  /\ IsFiniteSet(StoppingPods)
  /\ Cardinality(Left) + Cardinality(StoppingPods) <= outages + errors

(* Whatever check run a job reports on is that of a row, but for the one   *)
(* it has just created.                                                    *)
ReportsOnRecorded(w) ==
  /\ job[w].at \notin {"record", "threw"} => job[w].check = NoCheck \/ Recorded(job[w].check)
  /\ job[w].at = "coalesce" => job[w].other = NoCheck \/ Recorded(job[w].other)
  /\ run[w].id = 0 => job[w].at = "none"
  /\ pc[w] = "failing" => job[w].at = "returned"

RecheckRowsRecorded ==
  \A i \in Ids : (rows[i].status # "absent" /\ rows[i].key \in RecheckKeys)
                    => Recorded(rows[i].key[1])

RecordedInv == RecheckRowsRecorded /\ \A w \in Worker : ReportsOnRecorded(w)

LEMMA RecordedStays ==
  ASSUME ChecksKept, NEW c \in CheckIds, Recorded(c)
  PROVE  Recorded(c)'
  BY DEF ChecksKept, Recorded, NoCheck, CheckIds

(* Where the new check run goes.                                           *)
LEMMA CreatedGoesToRecord ==
  ASSUME JobsOK, NEW w \in Worker, HandlerStep(w) \/ CallFails(w) \/ CreateFails(w)
  PROVE  /\ job[w].at = "create" => job'[w].at = "record" \/ job'[w].check = job[w].check
         /\ job[w].at = "record" =>
              \/ HandlerStep(w) /\ RecordsCheck(w)
              \/ CallFails(w) /\ job'[w].at = "threw"
<1>1. job[w] \in Job
  BY DEF JobsOK
<1>2. CASE HandlerStep(w)
  <2>1. job[w].at = "record" => RecordsCheck(w)
    BY <1>2 DEF HandlerStep, StandsAt, Ignore, ReadContext, RecordTarget, FindActive,
         CreateCheck, RecordCheck, ClosedContext, ConflictContext, Think, ReachVerdict,
         ProviderCooldown, Publish, PersistLedger, AttachThread, Republish, CallSucceeds, Calls,
         WriteCalls, SkipMerge, RegisterRecheck, Recheck, Schedule
  <2>2. ASSUME job[w].at = "create" PROVE job'[w].at = "record"
    <3>1. PICK c \in CheckIds : CreateCheck(w, c)
      BY <1>2, <2>2 DEF HandlerStep, StandsAt, Ignore, ReadContext, RecordTarget, FindActive,
         RecordCheck, ClosedContext, ConflictContext, Think, ReachVerdict,
         ProviderCooldown, Publish, PersistLedger, AttachThread, Republish, CallSucceeds, Calls,
         WriteCalls, SkipMerge, RegisterRecheck, Recheck, Schedule
    <3>2. job'[w] = [job[w] EXCEPT !.at = "record", !.check = c]
      BY <3>1, MoveKeepsOthers DEF CreateCheck
    <3>3. QED
      BY <1>1, <3>2 DEF Job
  <2>3. QED
    BY <1>2, <2>1, <2>2
<1>3. CASE CallFails(w)
  <2>1. job'[w].at = Thrown(job[w]).at
    BY <1>3, FailedCallMoves
  <2>2. job[w].at # "create"
    BY <1>3 DEF CallFails, AtCall
  <2>3. job[w].at = "record" => job'[w].at = "threw"
    BY <1>1, <2>1 DEF Thrown, BeforeTry, Job
  <2>4. QED
    BY <1>3, <2>2, <2>3
<1>4. CASE CreateFails(w)
  <2>1. job'[w] = [job[w] EXCEPT !.at = job[w].plan] /\ job[w].at = "create"
    BY <1>4, MoveKeepsOthers DEF CreateFails, Tracked, StandsAt
  <2>2. QED
    BY <1>1, <2>1 DEF Job
<1>5. QED
  BY <1>2, <1>3, <1>4

LEMMA HandlerKeepsRecorded ==
  ASSUME ShapeInv, CheckInv, RecordedInv, ChecksKept, NEW w \in Worker,
         HandlerStep(w) \/ CallFails(w) \/ CreateFails(w)
  PROVE  RecordedInv'
<1>1. JobsOK /\ rec \in [Ids -> Record] /\ UniqueInv /\ run \in [Worker -> Snapshot]
  BY ShapeParts DEF OthersOK, UniqueInv, TypeOK
<1>2. /\ run' = run /\ pc' = pc
      /\ \A i \in Ids : rows[i].status # "absent" => rows'[i] = rows[i]
  BY <1>1, HandlerRows
<1>3. RecheckRowsRecorded /\ \A v \in Worker : ReportsOnRecorded(v)
  BY DEF RecordedInv
<1>4. \A c \in CheckIds : Recorded(c) => Recorded(c)'
  BY RecordedStays
<1>5. \A v \in Worker : job[v].check \in CheckIds \cup {NoCheck} /\ job[v].other \in CheckIds \cup {NoCheck}
  BY <1>1 DEF JobsOK, Job
<1>6. Advanced(w) /\ KnowsItsCheck(w) /\ run[w].id # 0
  BY <1>1, <1>3, HandlerAdvanced, FailureAdvanced DEF CheckInv, Advanced, ReportsOnRecorded
<1>7. ASSUME NEW v \in Worker PROVE ReportsOnRecorded(v)'
  <2>1. CASE v # w
    <3>1. Kept(v)
      BY <1>1, <2>1, OthersKept
    <3>2. QED
      BY <1>2, <1>3, <1>4, <1>5, <3>1 DEF Kept, ReportsOnRecorded
  <2>2. CASE v = w
    <3>1. job'[w].at = "coalesce" => job'[w].other = NoCheck \/ Recorded(job[w].other)'
      <4>1. ASSUME job'[w].at = "coalesce"
            PROVE  job'[w].other = NoCheck \/ Recorded(job[w].other)'
        <5>1. PICK i \in Ids : job'[w].other = rec[i].check
          BY <1>6, <4>1 DEF Advanced
        <5>2. rec[i].check \in CheckIds \cup {NoCheck} /\ Recorded(rec[i].check)
          BY <1>1 DEF Record, Recorded
        <5>3. QED
          BY <1>4, <5>1, <5>2 DEF Recorded
      <4>2. QED
        BY <4>1
    <3>2. ASSUME job'[w].at \notin {"record", "threw"}, job'[w].check # NoCheck
          PROVE  Recorded(job[w].check)'
      <4>1. CASE job[w].at = "record"
        <5>1. RecordsCheck(w) /\ job'[w].check = job[w].check /\ Me(w) \in Ids
          BY <1>1, <1>6, <3>2, <4>1, CreatedGoesToRecord DEF Advanced, Me, Snapshot
        <5>2. rec'[Me(w)].check = job[w].check
          BY <1>1, <5>1 DEF RecordsCheck, Record
        <5>3. QED
          BY <5>1, <5>2 DEF Recorded
      <4>2. CASE job[w].at = "create"
        <5>1. job[w].check = NoCheck /\ job'[w].check = job[w].check
          BY <1>1, <1>6, <3>2, <4>2, CreatedGoesToRecord DEF KnowsItsCheck
        <5>2. QED
          BY <3>2, <5>1
      <4>3. CASE job[w].at \notin {"record", "create"}
        <5>1. job'[w].check = job[w].check /\ job[w].at # "threw"
          BY <1>6, <4>3 DEF Advanced
        <5>2. Recorded(job[w].check) /\ job[w].check \in CheckIds
          BY <1>3, <1>5, <3>2, <4>3, <5>1 DEF ReportsOnRecorded
        <5>3. QED
          BY <1>4, <5>1, <5>2 DEF Recorded
      <4>4. QED
        BY <4>1, <4>2, <4>3
    <3>3. pc[w] # "failing"
      BY <1>3, <1>6 DEF Advanced, ReportsOnRecorded
    <3>4. QED
      BY <1>2, <1>6, <2>2, <3>1, <3>2, <3>3 DEF ReportsOnRecorded
  <2>3. QED
    BY <2>1, <2>2
<1>8. ASSUME NEW i \in Ids, rows'[i].status # "absent", rows'[i].key \in RecheckKeys
      PROVE  Recorded(rows[i].key[1])'
  <2>1. CASE rows'[i] = rows[i]
    <3>1. Recorded(rows[i].key[1]) /\ rows[i].key[1] \in CheckIds
      BY <1>3, <1>8, <2>1 DEF RecheckRowsRecorded, RecheckKeys
    <3>2. QED
      BY <1>4, <2>1, <3>1 DEF Recorded
  <2>2. CASE rows'[i] # rows[i]
    <3>1. EnqueuesRecheck(w) /\ StandsAt(w, "schedule") /\ Shaped(job[w])
      BY <1>1, <2>2, HandlerOnQueue, FailureOnQueue DEF vars, Schedule, JobsOK
    <3>2. Recorded(job[w].check) /\ job[w].check \in CheckIds
      BY <1>3, <1>5, <3>1 DEF ReportsOnRecorded, StandsAt, Shaped
    <3>3. PICK h \in Ids : rows' = [rows EXCEPT ![h] = NewRow(NextRecheck(w), "standard", FALSE)]
      BY <2>2, <3>1 DEF EnqueuesRecheck, Enqueue, InsertIgnore
    <3>4. rows'[i].key = NextRecheck(w)
      BY <1>1, <2>2, <3>3 DEF UniqueInv, TypeOK, NewRow, AbsentRow
    <3>5. QED
      BY <1>4, <3>2, <3>4 DEF NextRecheck, Recorded
  <2>3. QED
    BY <2>1, <2>2
<1>9. QED
  BY <1>7, <1>8 DEF RecordedInv, RecheckRowsRecorded

(* How a step of the queue changes hands: a loop that has no row takes one *)
(* up, one whose handler is over lets go, or its pod goes down.            *)
LetsGo(v) == StandsAt(v, "returned") \/ StandsAt(v, "threw") \/ StandsAt(v, "cooldown")
             \/ pc[v] = "failing"

GoesDown(p) == pod[p] # "down" /\ pod'[p] = "down"

Hands(v) ==
  /\ pc'[v] = "failing" => run'[v] = run[v] /\ (pc[v] = "failing" \/ StandsAt(v, "returned"))
  /\ run'[v].id # run[v].id => \/ run[v].id = 0
                               \/ run'[v].id = 0 /\ (LetsGo(v) \/ GoesDown(PodOf(v)))

LEMMA PollHands ==
  ASSUME ExclusiveInv, NEW w \in Worker, Polls(w), NEW v \in Worker
  PROVE  Hands(v)
<1>1. TypeOK /\ SeesItsRow(w)
  BY ExclusiveParts
<1>2. CASE UNCHANGED run
  <2>1. pc'[v] = "failing" => pc[v] = "failing"
    BY <1>1, <1>2 DEF Polls, BeginPoll, LeaseExpiredFinal, NoExpiredFinal, LeaseNext,
                NothingToLease, LeaseLost, ExitLoop, Goto, TypeOK
  <2>2. QED
    BY <1>2, <2>1 DEF Hands
<1>3. CASE \E i \in Ids : LeaseExpiredFinal(w, i) \/ LeaseNext(w, i)
  <2>1. /\ run[w].id = 0
        /\ pc'[w] # "failing" /\ \A u \in Worker : u # w => pc'[u] = pc[u] /\ run'[u] = run[u]
    BY <1>1, <1>3 DEF LeaseExpiredFinal, LeaseNext, Goto, TypeOK, SeesItsRow, Working
  <2>2. QED
    BY <2>1 DEF Hands
<1>4. QED
  BY <1>2, <1>3 DEF Polls, BeginPoll, NoExpiredFinal, NothingToLease, LeaseLost, ExitLoop

LEMMA SettleHands ==
  ASSUME ExclusiveInv, NEW w \in Worker, Settles(w), NEW v \in Worker
  PROVE  Hands(v)
<1>1. TypeOK
  BY ExclusiveParts
<1>2. CASE CompleteThrows(w)
  <2>1. CASE v = w
    <3>1. StandsAt(w, "returned") \/ pc[w] = "failing" \/ StandsAt(w, "threw") \/ StandsAt(w, "cooldown")
      BY DEF Settles, StandsAt
    <3>2. pc[w] = "busy" /\ run' = run
      BY <1>2 DEF CompleteThrows
    <3>3. CASE StandsAt(w, "returned")
      BY <2>1, <3>2, <3>3 DEF Hands
    <3>4. CASE LetGo(w)
      <4>1. pc'[w] = "idle"
        BY <1>1, <3>4 DEF LetGo, Goto, TypeOK
      <4>2. QED
        BY <2>1, <3>2, <4>1 DEF Hands
    <3>5. QED
      BY <3>3, <3>4 DEF Settles, Complete, Fail, DeferForTransientFailure,
         DeferForProviderCooldown, FailExpiredFinalAttempt, SettleThrows, Settle
  <2>2. CASE v # w
    BY <1>1, <1>2, <2>2 DEF CompleteThrows, Goto, TypeOK, Hands
  <2>3. QED
    BY <2>1, <2>2
<1>3. CASE LetGo(w)
  <2>1. LetsGo(w)
    BY DEF Settles, StandsAt, LetsGo
  <2>2. run'[w].id = 0 /\ pc'[w] = "idle"
    BY <1>1, <1>3 DEF LetGo, Goto, NoRun, TypeOK
  <2>3. v # w => pc'[v] = pc[v] /\ run'[v] = run[v]
    BY <1>1, <1>3 DEF LetGo, Goto, TypeOK
  <2>4. QED
    BY <2>1, <2>2, <2>3 DEF Hands
<1>4. QED
  BY <1>2, <1>3 DEF Settles, Complete, Fail, DeferForTransientFailure,
     DeferForProviderCooldown, FailExpiredFinalAttempt, SettleThrows, Settle

LEMMA PodHands ==
  ASSUME ExclusiveInv, NEW p \in Pods, PodStep(p), NEW v \in Worker
  PROVE  Hands(v)
<1>1. TypeOK
  BY ExclusiveParts
<1>2. CASE Stop(p)
  BY <1>2 DEF Stop, Hands
<1>3. CASE Restart(p)
  BY <1>1, <1>3 DEF Restart, Hands, TypeOK
<1>4. CASE PodDown(p) /\ pod[p] # "down"
  BY <1>1, <1>4 DEF PodDown, Hands, GoesDown, NoRun, TypeOK
<1>5. QED
  BY <1>2, <1>3, <1>4 DEF PodStep, Exit, ForceExit, Crash

LEMMA QueueStepHands ==
  ASSUME ExclusiveInv, QueueStep \/ (\E k \in Requests : RequestJob(k)), NEW v \in Worker
  PROVE  Hands(v)
<1>1. ASSUME NEW i \in Ids, TimeStep(i) PROVE Hands(v)
  BY <1>1 DEF TimeStep, LeaseExpires, BecomesDue, RetryWindowCloses, Hands
<1>2. ASSUME NEW k \in Requests, RequestJob(k) PROVE Hands(v)
  BY <1>2 DEF RequestJob, Enqueue, Hands
<1>3. QED
  BY <1>1, <1>2, PollHands, SettleHands, PodHands DEF QueueStep

LEMMA QueueKeepsRecorded ==
  ASSUME ShapeInv, ExclusiveInv, TypeOK', RecordedInv,
         QueueStep \/ \E k \in Requests : RequestJob(k)
  PROVE  RecordedInv'
<1>1. /\ FollowQueue
      /\ \A i \in Ids : rows[i].status # "absent" =>
           rows'[i].status # "absent" /\ rows'[i].key = rows[i].key
      /\ \A w \in Worker : (run'[w].id # run[w].id /\ run'[w].id # 0) =>
           run'[w].id \in Ids /\ rows[run'[w].id].status # "absent"
  BY QueueHands
<1>2. RowKeysKnown /\ UniqueInv /\ ReviewTypeOK
  BY ShapeParts DEF ShapeInv
<1>3. \A i \in Ids : rec'[i].check = rec[i].check
  BY <1>1, <1>2, StampedType DEF FollowQueue
<1>4. RecheckRowsRecorded /\ \A v \in Worker : ReportsOnRecorded(v) /\ Hands(v)
  BY QueueStepHands DEF RecordedInv
<1>5. \A c : Recorded(c) => Recorded(c)'
  BY <1>3 DEF Recorded
<1>6. ASSUME NEW i \in Ids, rows'[i].status # "absent", rows'[i].key \in RecheckKeys
      PROVE  rows[i].status # "absent" /\ rows'[i].key = rows[i].key
  <2>1. CASE QueueStep
    BY <1>2, <1>6, <2>1, QueueStepKeys DEF SameKeys
  <2>2. ASSUME NEW k \in Requests, RequestJob(k), rows[i].status = "absent"
        PROVE  FALSE
    <3>1. PICK h \in Ids : rows' = [rows EXCEPT ![h] = NewRow(k, "standard", TRUE)]
      BY <1>6, <2>2 DEF RequestJob, Enqueue, InsertIgnore
    <3>2. rows'[i].key = k
      BY <1>2, <1>6, <2>2, <3>1 DEF UniqueInv, TypeOK, NewRow, AbsentRow
    <3>3. QED
      BY <1>6, <3>2
  <2>3. QED
    BY <1>1, <2>1, <2>2
<1>7. RecheckRowsRecorded'
  BY <1>4, <1>5, <1>6 DEF RecheckRowsRecorded, Recorded
<1>8. ASSUME NEW v \in Worker PROVE ReportsOnRecorded(v)'
  <2>1. CASE run'[v].id = run[v].id
    <3>1. job'[v] = job[v]
      BY <1>1, <2>1 DEF FollowQueue
    <3>2. pc'[v] = "failing" => job[v].at = "returned"
      BY <1>4 DEF Hands, ReportsOnRecorded, StandsAt
    <3>3. /\ Recorded(job[v].check) => Recorded(job[v].check)'
          /\ Recorded(job[v].other) => Recorded(job[v].other)'
      BY <1>3, <3>1 DEF Recorded
    <3>4. QED
      BY <1>4, <2>1, <3>1, <3>2, <3>3 DEF ReportsOnRecorded
  <2>2. CASE run'[v].id # run[v].id /\ run'[v].id = 0
    <3>1. job'[v] = NoJob /\ pc'[v] # "failing"
      BY <1>1, <1>4, <2>2 DEF FollowQueue, Hands
    <3>2. QED
      BY <3>1 DEF ReportsOnRecorded, NoJob, NoCheck
  <2>3. CASE run'[v].id # run[v].id /\ run'[v].id # 0
    <3> DEFINE i == run'[v].id
    <3>1. i \in Ids /\ rows[i].status # "absent" /\ pc'[v] # "failing"
      BY <1>1, <1>4, <2>3 DEF Hands
    <3>2. \/ job'[v] = [NoJob EXCEPT !.at = "expired", !.check = rec[i].check]
          \/ job'[v] = Started(i)
      BY <1>1, <2>3 DEF FollowQueue
    <3>4. Recorded(job[v].check)'
      <4>1. CASE job'[v] = [NoJob EXCEPT !.at = "expired", !.check = rec[i].check]
        <5>1. job'[v].check = rec[i].check
          BY <4>1 DEF NoJob
        <5>2. QED
          BY <1>3, <3>1, <5>1 DEF Recorded
      <4>2. CASE job'[v] = Started(i) /\ IsRecheck(rows[i].key)
        <5>1. job'[v].check = rows[i].key[1] /\ Recorded(rows[i].key[1])
          BY <1>2, <1>4, <3>1, <4>2, StartedKnowsItsCheck DEF RecheckRowsRecorded
        <5>2. QED
          BY <1>3, <5>1 DEF Recorded
      <4>3. CASE job'[v] = Started(i) /\ ~IsRecheck(rows[i].key)
        <5>1. job'[v].check = rec[i].check
          BY <1>2, <3>1, <4>3, StartedKnowsItsCheck
        <5>2. QED
          BY <1>3, <3>1, <5>1 DEF Recorded
      <4>4. QED
        BY <3>2, <4>1, <4>2, <4>3
    <3>5. job'[v].at # "coalesce"
      <4>1. Started(i).at # "coalesce"
        BY <1>2, <3>1, StartedKnowsItsCheck
      <4>2. [NoJob EXCEPT !.at = "expired", !.check = rec[i].check].at # "coalesce"
        BY DEF NoJob
      <4>3. QED
        BY <3>2, <4>1, <4>2
    <3>6. QED
      BY <2>3, <3>1, <3>4, <3>5 DEF ReportsOnRecorded
  <2>4. QED
    BY <2>1, <2>2, <2>3
<1>9. QED
  BY <1>7, <1>8 DEF RecordedInv

LEMMA RecordedInductive ==
  ShapeInv /\ ExclusiveInv /\ CheckInv /\ RecordedInv /\ [ReviewNext]_reviewVars => RecordedInv'
<1> SUFFICES ASSUME ShapeInv, ExclusiveInv, CheckInv, RecordedInv, [ReviewNext]_reviewVars
             PROVE  RecordedInv'
  OBVIOUS
<1>1. TypeOK'
  BY ShapeInductive DEF ShapeInv, ReviewTypeOK
<1>2. ChecksKept
  BY CheckInductive DEF ExclusiveInv
<1>3. ASSUME UNCHANGED <<rows, run, pc, job, rec>> PROVE RecordedInv'
  BY <1>3 DEF RecordedInv, RecheckRowsRecorded, ReportsOnRecorded, Recorded
<1>4. CASE PrEvent
  BY <1>3, <1>4 DEF PrEvent, vars
<1>5. CASE UNCHANGED reviewVars
  BY <1>3, <1>5 DEF reviewVars, vars
<1>6. CASE QueueStep \/ \E k \in Requests : RequestJob(k)
  BY <1>1, <1>6, QueueKeepsRecorded
<1>7. ASSUME NEW w \in Worker, HandlerStep(w) \/ CallFails(w) \/ CreateFails(w)
      PROVE  RecordedInv'
  BY <1>2, <1>7, HandlerKeepsRecorded
<1>8. QED
  BY <1>4, <1>5, <1>6, <1>7 DEF ReviewNext, ReviewStep

LEMMA RecordedAlways ==
  ASSUME LeaseOutlivesRun
  PROVE  ReviewSpec => []RecordedInv
<1>1. ReviewInit => RecordedInv
  BY DEF ReviewInit, Init, AbsentRow, NoJob, NoCheck, RecordedInv, RecheckRowsRecorded,
         ReportsOnRecorded
<1>2. QED
  BY <1>1, RecordedInductive, ShapeAlways, ReviewExclusive, CheckAlways, PTL DEF ReviewSpec

(* Who puts a check run in progress.                                       *)
Creates(w, c) ==
  /\ job[w].at = "create" /\ CreatesCheck(w, c)
  /\ CreateCheck(w, c) \/ CreateFails(w)

LEMMA HandlerReopens ==
  ASSUME OthersOK, JobsOK, NEW w \in Worker, HandlerStep(w) \/ CallFails(w) \/ CreateFails(w),
         NEW c \in CheckIds, checks'[c].status = "in_progress",
         checks[c].status # "in_progress"
  PROVE  \/ c = job[w].check /\ job[w].at \notin {"record", "threw"}
         \/ c = job[w].other /\ job[w].at = "coalesce"
         \/ Creates(w, c)
<1>1. checks \in [CheckIds -> CheckRun] /\ 0 \notin CheckIds
  BY DEF OthersOK, CheckIds
<1>2. ASSUME NEW d, checks' = Reopened(d) PROVE c = d
  BY <1>1, <1>2 DEF Reopened
<1>3. ASSUME NEW d, NEW k, checks' = Concluded(d, k) PROVE FALSE
  BY <1>1, <1>3 DEF Concluded, CheckRun
<1>4. checks' # checks
  OBVIOUS
<1>5. CASE Calls(w)
  BY <1>2, <1>3, <1>4, <1>5 DEF Calls
<1>6. CASE Think(w) \/ ReachVerdict(w)
  BY <1>2, <1>4, <1>6 DEF Think, ReachVerdict, Progress, StandsAt
<1>7. ASSUME NEW d \in CheckIds, CreatesCheck(w, d) PROVE c = d
  BY <1>1, <1>7 DEF CreatesCheck
<1>8. CASE (\E d \in CheckIds : CreateCheck(w, d)) \/ CreateFails(w)
  BY <1>4, <1>7, <1>8 DEF CreateCheck, CreateFails, Creates, StandsAt, Reads, github
<1>9. QED
  BY <1>4, <1>5, <1>6, <1>8
     DEF HandlerStep, Ignore, ReadContext, RecordTarget, RecordsTarget, FindActive,
         RecordCheck, RecordsCheck, ClosedContext, ConflictContext, ProviderCooldown,
         Publish, Decide, PersistLedger, LeavesLedger, AttachThread, WritesFinding,
         Republish, CallSucceeds, SkipMerge,
         RegisterRecheck, Recheck, Reads, Schedule, EnqueuesRecheck, CallFails,
         CarriedOut, github

(* A handler that goes on leaves nothing behind; a failed call one check   *)
(* run at most.                                                            *)
LEMMA HandlerLeaves ==
  ASSUME ShapeInv, RecordedInv, ChecksKept, NEW w \in Worker,
         HandlerStep(w) \/ CallFails(w) \/ CreateFails(w)
  PROVE  \E x : /\ Left' \subseteq Left \cup {x}
                /\ UNCHANGED errors => Left' \subseteq Left
<1>1. JobsOK /\ OthersOK /\ rec \in [Ids -> Record] /\ run \in [Worker -> Snapshot]
  BY ShapeParts DEF OthersOK, UniqueInv, TypeOK
<1>2. \A v \in Worker : ReportsOnRecorded(v) /\ job[v].check \in CheckIds \cup {NoCheck}
                        /\ job[v].other \in CheckIds \cup {NoCheck}
  BY <1>1 DEF RecordedInv, JobsOK, Job
<1>3. \A c \in CheckIds : Recorded(c) => Recorded(c)'
  BY RecordedStays
<1>4. ASSUME NEW c \in Left', BeingRecorded(c)
      PROVE  job[w].at = "record" /\ c = job[w].check /\ CallFails(w)
  <2>1. PICK v \in Worker : StandsAt(v, "record") /\ job[v].check = c
    BY <1>4 DEF BeingRecorded
  <2>2. v = w
    <3>1. v # w => Kept(v)
      BY <1>1, OthersKept
    <3>2. QED
      BY <1>4, <2>1, <3>1 DEF Left, BeingRecorded, StandsAt, Kept
  <2>3. CASE HandlerStep(w) /\ RecordsCheck(w)
    <3>1. Me(w) \in Ids
      BY <1>1, <1>2, <2>1, <2>2 DEF ReportsOnRecorded, StandsAt, Me, Snapshot
    <3>2. rec'[Me(w)].check = c
      BY <1>1, <2>1, <2>2, <2>3, <3>1 DEF RecordsCheck, Record
    <3>3. QED
      BY <1>4, <3>1, <3>2 DEF Left, Recorded
  <2>4. QED
    BY <1>1, <2>1, <2>2, <2>3, CreatedGoesToRecord DEF StandsAt
<1>5. ASSUME NEW c \in Left', ~BeingRecorded(c), c \notin Left
      PROVE  CreateFails(w) /\ CreatesCheck(w, c)
  <2>1. c \in CheckIds /\ ~Recorded(c)
    BY <1>3, <1>5 DEF Left
  <2>2. checks'[c].status = "in_progress" /\ checks[c].status # "in_progress"
    BY <1>5, <2>1 DEF Left
  <2>3. ~(c = job[w].check /\ job[w].at \notin {"record", "threw"})
    BY <1>2, <2>1 DEF ReportsOnRecorded, CheckIds, NoCheck
  <2>4. ~(c = job[w].other /\ job[w].at = "coalesce")
    BY <1>2, <2>1 DEF ReportsOnRecorded, CheckIds, NoCheck
  <2>5. Creates(w, c)
    BY <1>1, <2>1, <2>2, <2>3, <2>4, HandlerReopens
  <2>6. ~CreateCheck(w, c)
    <3>1. SUFFICES ASSUME CreateCheck(w, c) PROVE FALSE
      OBVIOUS
    <3>2. job'[w] = [job[w] EXCEPT !.at = "record", !.check = c]
      BY <1>1, <3>1, MoveKeepsOthers DEF CreateCheck
    <3>3. job'[w].at = "record" /\ job'[w].check = c
      BY <1>1, <3>2 DEF JobsOK, Job
    <3>4. QED
      BY <1>5, <3>3 DEF Left, BeingRecorded, StandsAt
  <2>7. QED
    BY <2>5, <2>6 DEF Creates
<1>6. CallFails(w) \/ CreateFails(w) => errors' # errors
  BY ShapeParts DEF CallFails, CreateFails, CountError
<1>7. UNCHANGED errors => Left' \subseteq Left
  BY <1>4, <1>5, <1>6 DEF Left
<1>8. CASE CreateFails(w)
  <2>1. job[w].at = "create"
    BY <1>8 DEF CreateFails, StandsAt
  <2>2. ASSUME NEW c \in Left' \ Left, NEW d \in Left' \ Left PROVE c = d
    <3>1. CreatesCheck(w, c) /\ CreatesCheck(w, d) /\ c \in CheckIds /\ d \in CheckIds
      BY <1>4, <1>5, <2>1, <2>2 DEF Left
    <3>2. ~(c < d) /\ ~(d < c)
      BY <3>1 DEF CreatesCheck
    <3>3. QED
      BY <3>1, <3>2 DEF CheckIds
  <2>3. QED
    BY <1>7, <2>2
<1>9. CASE ~CreateFails(w)
  BY <1>4, <1>5, <1>7, <1>9 DEF Left
<1>10. QED
  BY <1>8, <1>9

LEMMA LeftFinite == IsFiniteSet(Left) /\ IsFiniteSet(Left')
<1>1. IsFiniteSet(CheckIds)
  BY FS_Interval DEF CheckIds
<1>2. Left \in SUBSET CheckIds /\ Left' \in SUBSET CheckIds
  BY DEF Left
<1>3. QED
  BY <1>1, <1>2, FS_Subset

LEMMA OneMore ==
  ASSUME NEW S, NEW x, IsFiniteSet(S)
  PROVE  /\ IsFiniteSet(S \cup {x})
         /\ Cardinality(S \cup {x}) \in Nat
         /\ Cardinality(S \cup {x}) <= Cardinality(S) + 1
<1>1. Cardinality(S) \in Nat
  BY FS_CardinalityType
<1>2. /\ IsFiniteSet(S \cup {x})
      /\ Cardinality(S \cup {x}) = IF x \in S THEN Cardinality(S) ELSE Cardinality(S) + 1
  BY FS_AddElement
<1>3. QED
  BY <1>1, <1>2

LEMMA HandlerKeepsLeft ==
  ASSUME ShapeInv, RecordedInv, ChecksKept, LeftInv, NEW w \in Worker,
         \/ HandlerStep(w) /\ UNCHANGED errors
         \/ CallFails(w) \/ CreateFails(w)
  PROVE  LeftInv'
<1>1. UniqueInv /\ errors \in Nat /\ outages \in Nat
  BY ShapeParts DEF UniqueInv, TypeOK
<1>2. PICK x : /\ Left' \subseteq Left \cup {x}
               /\ UNCHANGED errors => Left' \subseteq Left
  BY HandlerLeaves
<1>3. UNCHANGED <<pod, outages>>
  BY <1>1, HandlerRows
<1>4. StoppingPods' = StoppingPods
  BY <1>3 DEF StoppingPods
<1>5. errors' = errors \/ errors' = errors + 1
  BY DEF CallFails, CreateFails, CountError
<1>6. IsFiniteSet(Left) /\ IsFiniteSet(Left')
  BY LeftFinite
<1>7. /\ Cardinality(Left) \in Nat /\ Cardinality(Left') \in Nat
      /\ Cardinality(StoppingPods) \in Nat
  BY <1>6, FS_CardinalityType DEF LeftInv
<1>8. CASE errors' = errors
  <2>1. Cardinality(Left') <= Cardinality(Left)
    BY <1>2, <1>6, <1>8, FS_Subset
  <2>2. QED
    BY <1>1, <1>3, <1>4, <1>7, <1>8, <2>1 DEF LeftInv
<1>9. CASE errors' = errors + 1
  <2>1. IsFiniteSet(Left \cup {x}) /\ Cardinality(Left \cup {x}) <= Cardinality(Left) + 1
    BY <1>6, OneMore
  <2>2. Cardinality(Left') <= Cardinality(Left \cup {x}) /\ Cardinality(Left \cup {x}) \in Nat
    BY <1>2, <2>1, FS_Subset, FS_CardinalityType
  <2>3. QED
    BY <1>1, <1>3, <1>4, <1>7, <1>9, <2>1, <2>2 DEF LeftInv
<1>10. QED
  BY <1>5, <1>8, <1>9

(* In the queue a check run is left behind only when a pod goes down while *)
(* its loop is recording one.                                              *)
LEMMA QueueLeaves ==
  ASSUME ShapeInv, ExclusiveInv, RecordedInv, FollowQueue, \A v \in Worker : Hands(v),
         NEW c \in Left', c \notin Left
  PROVE  \E v \in Worker : GoesDown(PodOf(v)) /\ job[v].check = c
<1>1. checks' = checks /\ ReviewTypeOK
  BY ShapeParts DEF FollowQueue, github, ShapeInv
<1>2. Recorded(c) => Recorded(c)'
  BY <1>1, StampedType DEF FollowQueue, Recorded
<1>3. PICK v \in Worker : StandsAt(v, "record") /\ job[v].check = c /\ job'[v] # job[v]
  BY <1>1, <1>2 DEF Left, BeingRecorded, StandsAt
<1>4. run'[v].id # run[v].id
  BY <1>3 DEF FollowQueue
<1>5. ReportsOnRecorded(v) /\ Hands(v)
  BY DEF RecordedInv
<1>6. GoesDown(PodOf(v))
  BY <1>3, <1>4, <1>5 DEF ReportsOnRecorded, Hands, LetsGo, StandsAt
<1>7. QED
  BY <1>3, <1>6

LEMMA QueueKeepsLeft ==
  ASSUME ShapeInv, ExclusiveInv, RecordedInv, LeftInv, TypeOK',
         QueueStep \/ \E k \in Requests : RequestJob(k)
  PROVE  LeftInv'
<1>1. /\ UniqueInv /\ errors \in Nat /\ outages \in Nat /\ outages' \in Nat
      /\ pod \in [Pods -> {"up", "stopping", "down"}]
  BY ShapeParts DEF UniqueInv, TypeOK
<1>2. FollowQueue /\ \A v \in Worker : Hands(v)
  BY QueueHands, QueueStepHands
<1>3. \A c \in Left' : c \notin Left => \E v \in Worker : GoesDown(PodOf(v)) /\ job[v].check = c
  BY <1>2, QueueLeaves
<1>4. errors' = errors
  BY <1>2 DEF FollowQueue
<1>5. IsFiniteSet(Left) /\ IsFiniteSet(Left')
  BY LeftFinite
<1>6. /\ Cardinality(Left) \in Nat /\ Cardinality(Left') \in Nat
      /\ IsFiniteSet(StoppingPods) /\ Cardinality(StoppingPods) \in Nat
  BY <1>5, FS_CardinalityType DEF LeftInv
<1>7. ASSUME NEW x, Left' \subseteq Left \cup {x}
      PROVE  Cardinality(Left') <= Cardinality(Left) + 1
  <2>1. IsFiniteSet(Left \cup {x}) /\ Cardinality(Left \cup {x}) <= Cardinality(Left) + 1
    BY <1>5, OneMore
  <2>2. Cardinality(Left') <= Cardinality(Left \cup {x}) /\ Cardinality(Left \cup {x}) \in Nat
    BY <1>7, <2>1, FS_Subset, FS_CardinalityType
  <2>3. QED
    BY <1>6, <2>1, <2>2
<1>8. Left' \subseteq Left => Cardinality(Left') <= Cardinality(Left)
  BY <1>5, FS_Subset
<1>9. ASSUME pod' = pod, outages' = outages PROVE LeftInv'
  <2>1. Left' \subseteq Left /\ StoppingPods' = StoppingPods
    BY <1>3, <1>9 DEF GoesDown, StoppingPods
  <2>2. QED
    BY <1>1, <1>4, <1>6, <1>8, <1>9, <2>1 DEF LeftInv
<1>10. ASSUME NEW p \in Pods, Stop(p) PROVE LeftInv'
  <2>1. /\ outages' = outages + 1 /\ pod' = [pod EXCEPT ![p] = "stopping"]
    BY <1>10 DEF Stop, CountOutage
  <2>2. StoppingPods' = StoppingPods \cup {p} /\ \A q \in Pods : ~GoesDown(q)
    BY <1>1, <2>1 DEF StoppingPods, GoesDown
  <2>3. Left' \subseteq Left
    BY <1>3, <2>2, WorkerParts
  <2>4. /\ IsFiniteSet(StoppingPods') /\ Cardinality(StoppingPods') \in Nat
        /\ Cardinality(StoppingPods') <= Cardinality(StoppingPods) + 1
    BY <1>6, <2>2, OneMore
  <2>5. QED
    BY <1>1, <1>4, <1>6, <1>8, <2>1, <2>3, <2>4 DEF LeftInv
<1>11. ASSUME NEW p \in Pods, PodDown(p), pod[p] # "down"
       PROVE  /\ Cardinality(Left') <= Cardinality(Left) + 1
              /\ StoppingPods' = StoppingPods \ {p}
  <2>1. pod' = [pod EXCEPT ![p] = "down"]
    BY <1>11 DEF PodDown
  <2>2. \A q \in Pods : GoesDown(q) => q = p
    BY <1>1, <2>1 DEF GoesDown
  <2>3. \A v \in Worker : GoesDown(PodOf(v)) => v = <<p, "standard">>
    BY <2>2 DEF Worker, PodOf
  <2>4. Left' \subseteq Left \cup {job[<<p, "standard">>].check}
    BY <1>3, <2>3
  <2>5. QED
    BY <1>1, <1>7, <2>1, <2>4 DEF StoppingPods
<1>12. ASSUME NEW p \in Pods, Exit(p) \/ ForceExit(p) PROVE LeftInv'
  <2>1. p \in StoppingPods /\ outages' = outages
    BY <1>12 DEF Exit, ForceExit, StoppingPods
  <2>2. Cardinality(Left') <= Cardinality(Left) + 1 /\ StoppingPods' = StoppingPods \ {p}
    BY <1>11, <1>12 DEF Exit, ForceExit
  <2>3. IsFiniteSet(StoppingPods') /\ Cardinality(StoppingPods') = Cardinality(StoppingPods) - 1
    BY <1>6, <2>1, <2>2, FS_RemoveElement
  <2>4. QED
    BY <1>1, <1>4, <1>6, <2>1, <2>2, <2>3 DEF LeftInv
<1>13. ASSUME NEW p \in Pods, Crash(p) PROVE LeftInv'
  <2>1. p \notin StoppingPods /\ outages' = outages + 1
    BY <1>13 DEF Crash, CountOutage, StoppingPods
  <2>2. Cardinality(Left') <= Cardinality(Left) + 1 /\ StoppingPods' = StoppingPods \ {p}
    BY <1>11, <1>13 DEF Crash
  <2>3. StoppingPods' = StoppingPods
    BY <2>1, <2>2
  <2>4. QED
    BY <1>1, <1>4, <1>6, <2>1, <2>2, <2>3 DEF LeftInv
<1>14. ASSUME NEW p \in Pods, Restart(p) PROVE LeftInv'
  <2>1. /\ outages' = outages /\ pod' = [pod EXCEPT ![p] = "up"] /\ pod[p] = "down"
    BY <1>14 DEF Restart
  <2>2. StoppingPods' = StoppingPods /\ \A q \in Pods : ~GoesDown(q)
    BY <1>1, <2>1 DEF StoppingPods, GoesDown
  <2>3. Left' \subseteq Left
    BY <1>3, <2>2, WorkerParts
  <2>4. QED
    BY <1>1, <1>4, <1>6, <1>8, <2>1, <2>2, <2>3 DEF LeftInv
<1>15. ASSUME NEW w \in Worker, Polls(w) \/ Settles(w) PROVE LeftInv'
  <2>1. pod' = pod /\ outages' = outages
    BY <1>15 DEF Polls, Settles, BeginPoll, LeaseExpiredFinal, NoExpiredFinal, LeaseNext,
       NothingToLease, LeaseLost, ExitLoop, Complete, CompleteThrows, Fail,
       DeferForTransientFailure, DeferForProviderCooldown, FailExpiredFinalAttempt,
       SettleThrows, Settle
  <2>2. QED
    BY <1>9, <2>1
<1>16. ASSUME NEW k \in Requests, RequestJob(k) PROVE LeftInv'
  BY <1>9, <1>16 DEF RequestJob, Enqueue
<1>17. ASSUME NEW i \in Ids, TimeStep(i) PROVE LeftInv'
  BY <1>9, <1>17 DEF TimeStep, LeaseExpires, BecomesDue, RetryWindowCloses
<1>18. QED
  BY <1>10, <1>12, <1>13, <1>14, <1>15, <1>16, <1>17 DEF QueueStep, PodStep

LEMMA LeftInductive ==
  ShapeInv /\ ExclusiveInv /\ CheckInv /\ RecordedInv /\ LeftInv /\ [ReviewNext]_reviewVars
    => LeftInv'
<1> SUFFICES ASSUME ShapeInv, ExclusiveInv, CheckInv, RecordedInv, LeftInv,
                    [ReviewNext]_reviewVars
             PROVE  LeftInv'
  OBVIOUS
<1>1. TypeOK'
  BY ShapeInductive DEF ShapeInv, ReviewTypeOK
<1>2. ChecksKept
  BY CheckInductive DEF ExclusiveInv
<1>3. ASSUME UNCHANGED <<vars, job, rec, checks, errors>> PROVE LeftInv'
  <2>1. Left' = Left /\ StoppingPods' = StoppingPods
    BY <1>3 DEF vars, Left, BeingRecorded, StandsAt, Recorded, StoppingPods
  <2>2. QED
    BY <1>3, <2>1 DEF LeftInv, vars
<1>4. CASE PrEvent
  BY <1>3, <1>4 DEF PrEvent
<1>5. CASE UNCHANGED reviewVars
  BY <1>3, <1>5 DEF reviewVars, github
<1>6. CASE QueueStep \/ \E k \in Requests : RequestJob(k)
  BY <1>1, <1>6, QueueKeepsLeft
<1>7. QED
  BY <1>2, <1>4, <1>5, <1>6, HandlerKeepsLeft DEF ReviewNext, ReviewStep

(* As long as leases outlive runs, check runs that stay in progress with   *)
(* neither a row nor a worker that knows them are no more than the outages *)
(* and failed calls together: a retry never leaves one behind by itself.   *)
THEOREM OrphansHaveACause ==
  ASSUME LeaseOutlivesRun
  PROVE  ReviewSpec => []OrphansAreOfOutages
<1>1. ReviewInit => LeftInv
  <2> SUFFICES ASSUME ReviewInit PROVE LeftInv
    OBVIOUS
  <2>1. Left = {} /\ StoppingPods = {}
    BY DEF ReviewInit, Init, Left, StoppingPods, AbsentCheck
  <2>2. QED
    BY <2>1, FS_EmptySet DEF LeftInv, ReviewInit, Init
<1>2. ShapeInv /\ RecordedInv /\ LeftInv => OrphansAreOfOutages
  <2> SUFFICES ASSUME ShapeInv, RecordedInv, LeftInv PROVE OrphansAreOfOutages
    OBVIOUS
  <2> DEFINE O == {c \in CheckIds : Orphaned(c)}
  <2>1. O \subseteq Left
    <3>1. ASSUME NEW c \in CheckIds, Orphaned(c), BeingRecorded(c) PROVE FALSE
      BY <3>1 DEF Orphaned, InHand, BeingRecorded, StandsAt, RecordedInv, ReportsOnRecorded
    <3>2. QED
      BY <3>1 DEF Orphaned, Recorded, Left
  <2>2. IsFiniteSet(Left)
    BY LeftFinite
  <2>3. /\ Cardinality(O) <= Cardinality(Left) /\ Cardinality(O) \in Nat
        /\ Cardinality(Left) \in Nat /\ Cardinality(StoppingPods) \in Nat
    BY <2>1, <2>2, FS_Subset, FS_CardinalityType DEF LeftInv
  <2>4. errors \in Nat /\ outages \in Nat
    BY ShapeParts DEF UniqueInv, TypeOK
  <2>5. QED
    BY <2>3, <2>4 DEF LeftInv, OrphansAreOfOutages
<1>3. QED
  BY <1>1, <1>2, RecordedAlways, LeftInductive, ShapeAlways, ReviewExclusive,
     CheckAlways, PTL DEF ReviewSpec
=============================================================================
