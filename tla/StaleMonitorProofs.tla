--------------------------- MODULE StaleMonitorProofs ---------------------------
(***************************************************************************)
(* For any pull requests, pods, providers, cooldowns and attempts, proved  *)
(* here:                                                                   *)
(*   DeferralsCostNothing  the attempts of a follow-up job are those that  *)
(*                         failed, and the one under way                   *)
(*   MonitorTypes          the types of all that scans, follow-up jobs and *)
(*                         model calls leave behind                        *)
(*   FollowUpCloses        a scan means to close an answered pull request  *)
(*                         only when its last request is a follow-up       *)
(* FreeInv says who holds a row, StaleInv adds the types; the last theorem *)
(* also takes what a scan reads out of a timeline (SignalIsLatest,         *)
(* ResponseIsLast, TimelineRead).                                          *)
(***************************************************************************)
EXTENDS StaleMonitor, FiniteSetTheorems, NaturalsInduction, WellFoundedInduction, TLAPS

Row(r) ==
  /\ DOMAIN r = {"status", "attempts", "wait", "spent"}
  /\ r.attempts \in Int /\ r.spent \in Int
Open(r) == r.status \in {"queued", "failed"}
Free(r) == r.attempts = r.spent + (IF Open(r) THEN 0 ELSE 1)
Busy(s) == job[s].stage # "idle"

(* A pod that runs a job holds its row, and alone: what it remembers of    *)
(* the attempts is what is in the row.                                     *)
JobShape ==
  /\ DOMAIN job = Pods
  /\ \A s \in Pods : DOMAIN job[s] = {"stage", "key", "head", "says"}
Held ==
  \A s \in Pods : Busy(s) => job[s].key \in DOMAIN rows /\ rows[job[s].key].status = "running"
Alone == \A s, t \in Pods : s # t /\ Busy(s) /\ Busy(t) => job[s].key # job[t].key
RowsFree == \A k \in DOMAIN rows : Row(rows[k]) /\ Free(rows[k])
FreeInv == JobShape /\ Held /\ Alone /\ RowsFree

-----------------------------------------------------------------------------
(* What a statement makes of a row. *)
LEMMA RowOps ==
  ASSUME NEW r, Row(r), Free(r), ~Open(r)
  PROVE  /\ Row(OneMoreOrNone(r)) /\ Free(OneMoreOrNone(r))
         /\ \A ticks : Row(DeferredRow(r, ticks)) /\ Free(DeferredRow(r, ticks))
         /\ \A status : status \notin {"queued", "failed"} =>
              Row([r EXCEPT !.status = status]) /\ Free([r EXCEPT !.status = status])
<1>1. ASSUME NEW status \in {"queued", "failed"}
      PROVE  LET x == [r EXCEPT !.status = status, !.wait = 1, !.spent = @ + 1]
             IN  Row(x) /\ Free(x)
  BY DEF Row, Free, Open
<1>2. Row(OneMoreOrNone(r)) /\ Free(OneMoreOrNone(r))
  BY <1>1 DEF OneMoreOrNone
<1>3. ASSUME NEW ticks PROVE Row(DeferredRow(r, ticks)) /\ Free(DeferredRow(r, ticks))
  BY DEF Row, Free, Open, DeferredRow
<1>4. ASSUME NEW status, status \notin {"queued", "failed"}
      PROVE  Row([r EXCEPT !.status = status]) /\ Free([r EXCEPT !.status = status])
  BY <1>4 DEF Row, Free, Open
<1> QED
  BY <1>2, <1>3, <1>4

(* The three ways a step writes jobs and rows. *)
LEMMA JobGoesOn ==
  ASSUME FreeInv, NEW s \in Pods, Busy(s), UNCHANGED rows,
         DOMAIN job' = Pods, \A t \in Pods : t # s => job'[t] = job[t],
         DOMAIN job'[s] = {"stage", "key", "head", "says"}, job'[s].key = job[s].key
  PROVE  FreeInv'
BY DEF FreeInv, JobShape, Held, Alone, RowsFree, Busy

LEMMA JobEnds ==
  ASSUME FreeInv, NEW s \in Pods, Busy(s), NEW r, Row(r), Free(r), EndJob(s),
         rows' = [rows EXCEPT ![job[s].key] = r]
  PROVE  FreeInv'
<1>1. /\ DOMAIN job' = Pods /\ job'[s] = IdleJob
      /\ \A t \in Pods : t # s => job'[t] = job[t]
  BY DEF EndJob, FreeInv, JobShape
<1>2. /\ DOMAIN rows' = DOMAIN rows /\ rows'[job[s].key] = r
      /\ \A k \in DOMAIN rows : k # job[s].key => rows'[k] = rows[k]
  BY DEF FreeInv, Held
<1>3. ~Busy(s)' /\ \A t \in Pods : t # s => (Busy(t)' <=> Busy(t))
  BY <1>1 DEF Busy, IdleJob
<1>4. JobShape'
  BY <1>1 DEF JobShape, FreeInv, IdleJob
<1>5. RowsFree'
  BY <1>2 DEF RowsFree, FreeInv
<1>6. Alone'
  BY <1>1, <1>3 DEF Alone, FreeInv
<1>7. Held'
  BY <1>1, <1>2, <1>3 DEF Held, Alone, FreeInv
<1> QED
  BY <1>4, <1>5, <1>6, <1>7 DEF FreeInv

LEMMA OthersUntouched ==
  ASSUME FreeInv, UNCHANGED job, DOMAIN rows \subseteq DOMAIN rows',
         \A k \in DOMAIN rows : rows'[k].status = rows[k].status,
         \A k \in DOMAIN rows' : Row(rows'[k]) /\ Free(rows'[k])
  PROVE  FreeInv'
BY DEF FreeInv, JobShape, Held, Alone, RowsFree, Busy

(* Of a pod that runs a job: its row is running. *)
LEMMA HeldRow ==
  ASSUME FreeInv, NEW s \in Pods, Busy(s)
  PROVE  LET r == rows[job[s].key] IN Row(r) /\ Free(r) /\ ~Open(r)
BY DEF FreeInv, Held, RowsFree, Open

LEMMA RetryFree ==
  ASSUME FreeInv, NEW s \in Pods, Busy(s), Retry(s)
  PROVE  FreeInv'
BY HeldRow, RowOps, JobEnds DEF Retry

LEMMA SettleFree ==
  ASSUME FreeInv, NEW s \in Pods, Busy(s), NEW status, status \notin {"queued", "failed"},
         Settle(s, status)
  PROVE  FreeInv'
<1> DEFINE r == [rows[job[s].key] EXCEPT !.status = status]
<1>1. Row(r) /\ Free(r)
  BY HeldRow, RowOps
<1>2. rows' = [rows EXCEPT ![job[s].key] = r] /\ EndJob(s)
  BY DEF Settle
<1> HIDE DEF r
<1> QED
  BY <1>1, <1>2, JobEnds

LEMMA DecideFree ==
  ASSUME FreeInv, NEW s \in Pods, Busy(s), NEW says, Decide(s, says)
  PROVE  FreeInv'
<1>1. job' = [job EXCEPT ![s].stage = "posting", ![s].says = says] /\ rows' = rows
  BY DEF Decide
<1> QED
  BY <1>1, JobGoesOn DEF FreeInv, JobShape

LEMMA BeginFree ==
  ASSUME FreeInv, NEW s \in Pods, NEW k \in DOMAIN rows, Begin(s, k)
  PROVE  FreeInv'
<1>1. ~Busy(s) /\ rows[k].status = "queued"
  BY DEF Begin, Due, Busy
<1>2. Row(rows[k]) /\ rows[k].attempts = rows[k].spent
  <2>1. Row(rows[k]) /\ Free(rows[k])
    BY DEF FreeInv, RowsFree
  <2> QED
    BY <1>1, <2>1 DEF Row, Free, Open
<1>3. \A t \in Pods : Busy(t) => job[t].key # k
  BY <1>1 DEF FreeInv, Held
<1>4. ASSUME NEW status \in {"running", "dropped"},
             rows' = [rows EXCEPT ![k].status = status, ![k].attempts = @ + 1]
      PROVE  /\ DOMAIN rows' = DOMAIN rows
             /\ rows'[k].status = status /\ Row(rows'[k]) /\ Free(rows'[k])
             /\ \A j \in DOMAIN rows : j # k => rows'[j] = rows[j]
  <2> DEFINE r == [rows[k] EXCEPT !.status = status]
             x == [r EXCEPT !.attempts = @ + 1]
  <2>1. rows' = [rows EXCEPT ![k] = x]
    BY <1>4
  <2>2. /\ DOMAIN r = DOMAIN rows[k] /\ r.status = status
        /\ r.attempts = rows[k].attempts /\ r.spent = rows[k].spent
    BY <1>2 DEF Row
  <2> HIDE DEF r
  <2>3. x.status = status /\ Row(x) /\ Free(x)
    BY <1>2, <2>2 DEF Row, Free, Open
  <2> HIDE DEF x
  <2> QED
    BY <2>1, <2>3
<1>5. CASE pr[k[1]].open
  <2>1. rows' = [rows EXCEPT ![k].status = "running", ![k].attempts = @ + 1]
    BY <1>5 DEF Begin
  <2>2. /\ DOMAIN job' = Pods /\ DOMAIN job'[s] = {"stage", "key", "head", "says"}
        /\ job'[s].key = k /\ \A t \in Pods : t # s => job'[t] = job[t]
    BY <1>5 DEF Begin, FreeInv, JobShape
  <2> QED
    BY <1>3, <1>4, <2>1, <2>2 DEF FreeInv, JobShape, Held, Alone, RowsFree, Busy
<1>6. CASE ~pr[k[1]].open
  <2>1. rows' = [rows EXCEPT ![k].status = "dropped", ![k].attempts = @ + 1] /\ job' = job
    BY <1>6 DEF Begin
  <2> QED
    BY <1>3, <1>4, <2>1 DEF FreeInv, JobShape, Held, Alone, RowsFree, Busy
<1> QED
  BY <1>5, <1>6

LEMMA QueueFree ==
  ASSUME FreeInv, NEW s \in Pods, QueueFollowUp(s)
  PROVE  FreeInv'
<1> DEFINE new == [status |-> "queued", attempts |-> 0, wait |-> 0, spent |-> 0]
<1>1. /\ DOMAIN rows' = DOMAIN rows \cup {scan[s].on}
      /\ \A k \in DOMAIN rows' : rows'[k] = IF k \in DOMAIN rows THEN rows[k] ELSE new
  BY DEF QueueFollowUp
<1>2. Row(new) /\ Free(new)
  BY DEF Row, Free, Open
<1>3. job' = job
  BY DEF QueueFollowUp
<1> HIDE DEF new
<1> QED
  BY <1>1, <1>2, <1>3, OthersUntouched DEF FreeInv, RowsFree

LEMMA CrashFree ==
  ASSUME FreeInv, NEW s \in Pods, Crash(s)
  PROVE  FreeInv'
<1>1. CASE Busy(s)
  BY <1>1, RetryFree DEF Crash, Busy
<1>2. CASE ~Busy(s)
  <2>1. rows' = rows /\ job' = job
    BY <1>2 DEF Crash, Busy
  <2> QED
    BY <2>1, OthersUntouched DEF FreeInv, RowsFree
<1> QED
  BY <1>1, <1>2

LEMMA TickFree ==
  ASSUME FreeInv, Tick
  PROVE  FreeInv'
<1>1. job' = job /\ DOMAIN rows' = DOMAIN rows
  BY DEF Tick
<1>2. ASSUME NEW k \in DOMAIN rows
      PROVE  Row(rows'[k]) /\ Free(rows'[k]) /\ rows'[k].status = rows[k].status
  <2>1. Row(rows[k]) /\ Free(rows[k])
    BY DEF FreeInv, RowsFree
  <2>2. PICK n : rows'[k] = [rows[k] EXCEPT !.wait = n]
    BY DEF Tick
  <2> QED
    BY <2>1, <2>2 DEF Row, Free, Open
<1> QED
  BY <1>1, <1>2, OthersUntouched

LEMMA JobStepFree ==
  ASSUME FreeInv, NEW s \in Pods, JobStep(s)
  PROVE  FreeInv'
<1>1. CASE \E k \in DOMAIN rows : Begin(s, k)
  BY <1>1, BeginFree
<1>2. CASE AnswerConflict(s)
  BY <1>2, DecideFree, SettleFree DEF AnswerConflict, Discard, Busy
<1>3. CASE WeighAnswer(s)
  <2>1. Busy(s)
    BY <1>3 DEF WeighAnswer, Busy
  <2>2. \/ \E says : Decide(s, says)
        \/ \E status \in {"dropped", "handed"} : Settle(s, status)
    BY <1>3 DEF WeighAnswer, Discard
  <2> QED
    BY <2>1, <2>2, DecideFree, SettleFree
<1>4. CASE Post(s)
  <2>1. Busy(s)
    BY <1>4 DEF Post, Busy
  <2>2. Retry(s) \/ \E status \in {"done", "dropped"} : Settle(s, status)
    BY <1>4 DEF Post
  <2> QED
    BY <2>1, <2>2, RetryFree, SettleFree
<1>5. CASE \E v \in Providers, says \in Answers : Answered(s, v, says)
  <2>1. PICK says : /\ job[s].stage = "asking" /\ rows' = rows
                    /\ job' = [job EXCEPT ![s].stage = "publishing", ![s].says = says]
    BY <1>5 DEF Answered
  <2> QED
    BY <2>1, JobGoesOn DEF FreeInv, JobShape, Busy
<1>6. CASE \E v \in Providers, ticks \in Cooldowns : NotAnswered(s, v, ticks)
  <2>1. rows' = rows /\ job' = job
    BY <1>6 DEF NotAnswered
  <2> QED
    BY <2>1, OthersUntouched DEF FreeInv, RowsFree
<1>7. CASE NobodyAnswered(s)
  BY <1>7, RetryFree DEF NobodyAnswered, Busy
<1>8. CASE Deferred(s)
  <2>1. Busy(s) /\ EndJob(s)
    BY <1>8 DEF Deferred, Busy
  <2>2. rows' = [rows EXCEPT ![job[s].key] = DeferredRow(@, RetryAfter(s))]
    BY <1>8 DEF Deferred
  <2> QED
    BY <2>1, <2>2, HeldRow, RowOps, JobEnds
<1> QED
  BY <1>1, <1>2, <1>3, <1>4, <1>5, <1>6, <1>7, <1>8 DEF JobStep

LEMMA StepFree == FreeInv /\ [StaleNext]_staleVars => FreeInv'
<1> SUFFICES ASSUME FreeInv, [StaleNext]_staleVars PROVE FreeInv'
  OBVIOUS
<1>1. ASSUME rows' = rows, job' = job PROVE FreeInv'
  BY <1>1, OthersUntouched DEF FreeInv, RowsFree
<1>2. ASSUME NEW s \in Pods, ScanStep(s) PROVE FreeInv'
  <2>1. CASE QueueFollowUp(s)
    BY <2>1, QueueFree
  <2>2. CASE ~QueueFollowUp(s)
    BY <1>1, <1>2, <2>2 DEF ScanStep, StartScan, ReadStatus, ReadTimeline, ClosePr, Leaves
  <2> QED
    BY <2>1, <2>2
<1>3. ASSUME NEW s \in Pods, JobStep(s) PROVE FreeInv'
  BY <1>3, JobStepFree
<1>4. ASSUME NEW s \in Pods, ScanFails(s) PROVE FreeInv'
  BY <1>1, <1>4 DEF ScanFails
<1>5. ASSUME NEW s \in Pods, JobFails(s) PROVE FreeInv'
  BY <1>5, RetryFree DEF JobFails, Busy
<1>6. ASSUME NEW s \in Pods, Crash(s) PROVE FreeInv'
  BY <1>6, CrashFree
<1>7. ASSUME NEW s \in Pods, Stop(s) PROVE FreeInv'
  BY <1>7, SettleFree DEF Stop, Busy
<1>8. ASSUME NEW p \in Prs, Outside(p) PROVE FreeInv'
  BY <1>1, <1>8 DEF Outside, Age, HumanResponds, StatusChanges, OtherJobWrites, Push
<1>9. CASE Tick
  BY <1>9, TickFree
<1>10. CASE UNCHANGED staleVars
  BY <1>1, <1>10 DEF staleVars
<1> QED
  BY <1>2, <1>3, <1>4, <1>5, <1>6, <1>7, <1>8, <1>9, <1>10 DEF StaleNext

(* Whatever fails, cools down, crashes or stops, and however many pods     *)
(* share the rows: a deferral for the providers' sake costs no attempt.    *)
THEOREM DeferralsCostNothing == StaleSpec => []DeferralsAreFree
<1>1. StaleInit => FreeInv
  BY DEF StaleInit, FreeInv, JobShape, Held, Alone, RowsFree, Busy, IdleJob
<1>2. FreeInv => DeferralsAreFree
  BY DEF FreeInv, RowsFree, Free, Open, DeferralsAreFree
<1> QED
  BY <1>1, <1>2, StepFree, PTL DEF StaleSpec

-----------------------------------------------------------------------------
(***************************************************************************)
(* Least and greatest numbers.                                             *)
(***************************************************************************)
LEMMA LeastExists ==
  ASSUME NEW S \in SUBSET Nat, S # {}
  PROVE  \E x \in S : \A y \in S : x <= y
<1>1. PICK x \in S : \A y \in S : ~ (<<y, x>> \in OpToRel(<, Nat))
  BY NatLessThanWellFounded, WFMin
<1>2. ASSUME NEW y \in S PROVE x <= y
  <2>1. ~ (<<y, x>> \in OpToRel(<, Nat))
    BY <1>1
  <2>2. <<y, x>>[1] = y /\ <<y, x>>[2] = x
    OBVIOUS
  <2> QED
    BY <2>1, <2>2 DEF OpToRel
<1> QED
  BY <1>2

(* Of finitely many numbers, in some order, there is a greatest.           *)
LEMMA GreatestOfSome ==
  ASSUME NEW n \in Nat, NEW f, \A i \in 1..n : f[i] \in Nat,
         NEW J \in SUBSET (1..n), J # {}
  PROVE  \E i \in J : \A j \in J : f[j] <= f[i]
<1> DEFINE Has(k) == \E i \in J : i <= k /\ \A j \in J : j <= k => f[j] <= f[i]
           Bad == {k \in 1..n : (\E i \in J : i <= k) /\ ~Has(k)}
<1>1. CASE Bad = {}
  <2>1. \A i \in J : i <= n
    OBVIOUS
  <2>2. n \in 1..n
    <3>1. PICK i \in J : i \in 1..n
      OBVIOUS
    <3> QED
      BY <3>1
  <2>3. Has(n)
    BY <1>1, <2>1, <2>2
  <2> QED
    BY <2>1, <2>3
<1>2. CASE Bad # {}
  <2>1. Bad \in SUBSET Nat
    OBVIOUS
  <2>2. PICK k \in Bad : \A m \in Bad : k <= m
    BY <1>2, <2>1, LeastExists
  <2>3. k \in 1..n /\ ~Has(k) /\ \E i \in J : i <= k
    BY <2>2
  <2>4. CASE \E i \in J : i <= k - 1
    <3>1. k - 1 \in 1..n /\ k - 1 \notin Bad
      <4>1. PICK i \in J : i <= k - 1
        BY <2>4
      <4>2. k \in 1..n /\ i \in 1..n
        BY <2>3
      <4>3. k - 1 \in 1..n /\ k - 1 \in Nat /\ ~(k <= k - 1)
        BY <4>1, <4>2
      <4> QED
        BY <2>2, <4>3
    <3>2. PICK i \in J : i <= k - 1 /\ \A j \in J : j <= k - 1 => f[j] <= f[i]
      BY <2>4, <3>1
    <3>3. f[i] \in Nat /\ f[k] \in Nat /\ \A j \in J : f[j] \in Nat
      BY <2>3
    <3>4. \A j \in J : j <= k => j <= k - 1 \/ j = k
      BY <2>3
    <3>5. CASE k \in J /\ f[i] <= f[k]
      BY <2>3, <3>2, <3>3, <3>4, <3>5
    <3>6. CASE ~(k \in J /\ f[i] <= f[k])
      BY <2>3, <3>2, <3>3, <3>4, <3>6
    <3> QED
      BY <3>5, <3>6
  <2>5. CASE ~\E i \in J : i <= k - 1
    <3>1. k \in J /\ \A j \in J : j <= k => j = k
      BY <2>3, <2>5
    <3> QED
      BY <2>3, <3>1
  <2> QED
    BY <2>4, <2>5
<1> QED
  BY <1>1, <1>2

LEMMA MaxIsGreatest ==
  ASSUME NEW S \in SUBSET Nat, \E m \in S : \A x \in S : x <= m
  PROVE  Max(S) \in S /\ \A x \in S : x <= Max(S)
<1>1. \E m \in S : \A x \in S : m >= x
  OBVIOUS
<1>2. Max(S) \in S /\ \A x \in S : Max(S) >= x
  BY <1>1 DEF Max
<1> QED
  BY <1>2

LEMMA MinIsLeast ==
  ASSUME NEW S \in SUBSET Nat, S # {}
  PROVE  Min(S) \in S /\ \A x \in S : Min(S) <= x
<1>1. \E m \in S : \A x \in S : m =< x
  BY LeastExists
<1> QED
  BY <1>1 DEF Min

LEMMA GreatestIndex ==
  ASSUME NEW n \in Nat, NEW J \in SUBSET (1..n), J # {}
  PROVE  Max(J) \in J
<1> DEFINE id == [i \in 1..n |-> i]
<1>1. \E i \in J : \A j \in J : id[j] <= id[i]
  <2>1. \A i \in 1..n : id[i] \in Nat
    OBVIOUS
  <2> HIDE DEF id
  <2> QED
    BY <2>1, GreatestOfSome
<1>2. \E i \in J : \A j \in J : j <= i
  BY <1>1
<1> QED
  BY <1>2, MaxIsGreatest

LEMMA LongestCooldown ==
  MaxCooldown \in Nat /\ \A ticks \in Cooldowns : ticks <= MaxCooldown
<1> DEFINE S == Cooldowns \cup {0}
<1>1. IsFiniteSet(S) /\ S \in SUBSET Nat
  BY ProviderAssumption, FS_AddElement
<1>2. PICK n \in Nat : ExistsSurjection(1..n, S)
  BY <1>1, FS_NatSurjection
<1>3. PICK f \in [1..n -> S] : \A x \in S : \E i \in 1..n : f[i] = x
  BY <1>2 DEF ExistsSurjection, Surjection
<1>4. 1..n # {} /\ \A i \in 1..n : f[i] \in Nat
  BY <1>1, <1>3
<1>5. PICK i \in 1..n : \A j \in 1..n : f[j] <= f[i]
  BY <1>4, GreatestOfSome
<1>6. \A x \in S : x <= f[i]
  BY <1>3, <1>5
<1>7. Max(S) \in S /\ \A x \in S : x <= Max(S)
  BY <1>1, <1>3, <1>6, MaxIsGreatest
<1> QED
  BY <1>1, <1>7 DEF MaxCooldown

-----------------------------------------------------------------------------
(***************************************************************************)
(* Types. A row has attempts left while it is queued, which needs that     *)
(* they are counted right; a scan closes only what it found unanswered,    *)
(* and the text a job is about to post is one the scans can read.          *)
(***************************************************************************)
Scan == [stage : {"idle", "listing", "status", "queueing", "closing"},
         todo : SUBSET (Prs \X Heads), on : {NoKey} \cup (Prs \X Heads \X Nat), ask : {"-"} \cup Says]
Job == [stage : {"idle", "conflict", "asking", "publishing", "posting"},
        key : {NoKey} \cup Key, head : Heads, says : {"-", "close"} \cup Answers \cup Says]
Talk == {t \in Seq(Entry) : \A i \in DOMAIN t : i > 1 => t[i].at - t[i - 1].at \in {0, 1}}

PrTypes == pr \in [Prs -> [open : BOOLEAN, head : Heads, status : Statuses]]
TalkTypes ==
  /\ talk \in [Prs -> Talk] /\ aged \in [Prs -> Nat]
  /\ \A p \in Prs : aged[p] <= Len(talk[p])
ScanTypes ==
  /\ scan \in [Pods -> Scan]
  /\ \A s \in Pods : /\ scan[s].stage \in {"idle", "listing"} <=> scan[s].on = NoKey
                     /\ scan[s].stage = "queueing" => scan[s].on \in Key
JobTypes ==
  /\ job \in [Pods -> Job]
  /\ \A s \in Pods : /\ job[s].stage = "idle" <=> job[s].key = NoKey
                     /\ job[s].stage = "posting" => job[s].says \in {"close"} \cup Says
RowTypes ==
  /\ DOMAIN rows \subseteq Key
  /\ \A k \in DOMAIN rows :
       /\ rows[k].status \in {"queued", "running", "done", "handed", "dropped", "failed"}
       /\ rows[k].attempts \in 0..MaxAttempts
       /\ rows[k].wait \in 0..(MaxCooldown + 1)
       /\ rows[k].spent \in 0..MaxAttempts
       /\ rows[k].status = "queued" => rows[k].attempts < MaxAttempts
       /\ rows[k].status = "running" => \E s \in Pods : job[s].key = k
StaleTypes ==
  /\ ProviderTypeOK /\ PrTypes /\ TalkTypes /\ ScanTypes /\ JobTypes /\ RowTypes
  /\ upsets \in 0..MaxUpsets
StaleInv == FreeInv /\ StaleTypes

LEMMA NoKeyIsNone == NoKey \notin Key
BY DEF NoKey, Key

LEMMA InvMeansTypes == StaleInv => StaleTypeOK
<1> SUFFICES ASSUME StaleInv PROVE StaleTypeOK
  OBVIOUS
<1>1. NoKey \notin Key
  BY NoKeyIsNone
<1>2. ASSUME NEW k \in DOMAIN rows, NEW s \in Pods, job[s].key = k
      PROVE  rows[k].status = "running"
  <2>1. Busy(s)
    BY <1>1, <1>2 DEF StaleInv, StaleTypes, RowTypes, JobTypes, Busy
  <2> QED
    BY <1>2, <2>1 DEF StaleInv, FreeInv, Held
<1>3. RowTypes /\ JobTypes /\ ScanTypes /\ TalkTypes
  BY DEF StaleInv, StaleTypes
<1>4. \A p \in Prs : /\ talk[p] \in Seq(Entry)
                    /\ aged[p] \in 0..Len(talk[p])
                    /\ \A i \in DOMAIN talk[p] : i > 1 => talk[p][i].at - talk[p][i - 1].at \in {0, 1}
  BY <1>3 DEF TalkTypes, Talk
<1>5. \A s \in Pods :
       /\ scan[s].stage \in {"idle", "listing", "status", "queueing", "closing"}
       /\ scan[s].stage \in {"idle", "listing"} <=> scan[s].on = NoKey
       /\ scan[s].todo \subseteq Prs \X Heads
       /\ job[s].stage \in {"idle", "conflict", "asking", "publishing", "posting"}
       /\ job[s].stage = "idle" <=> job[s].key = NoKey
  BY <1>3 DEF ScanTypes, Scan, JobTypes, Job
<1> QED
  BY <1>2, <1>3, <1>4, <1>5 DEF StaleTypeOK, RowTypes, StaleInv, StaleTypes, PrTypes

LEMMA InitTypes == StaleInit => StaleTypes
<1> SUFFICES ASSUME StaleInit PROVE StaleTypes
  OBVIOUS
<1>1. ProviderTypeOK
  BY LongestCooldown DEF StaleInit, ProviderInit, ProviderTypeOK, NoCooldown
<1>2. PrTypes
  BY StaleAssumption DEF StaleInit, PrTypes
<1>3. TalkTypes
  BY DEF StaleInit, TalkTypes, Talk
<1>4. ScanTypes
  BY DEF StaleInit, ScanTypes, Scan, IdleScan
<1>5. JobTypes
  BY StaleAssumption DEF StaleInit, JobTypes, Job, IdleJob
<1>6. RowTypes
  BY DEF StaleInit, RowTypes
<1>7. upsets \in 0..MaxUpsets
  BY StaleAssumption DEF StaleInit
<1> QED
  BY <1>1, <1>2, <1>3, <1>4, <1>5, <1>6, <1>7 DEF StaleTypes

(* The timeline grows by an entry of the same second, or of the next.      *)
LEMMA WriteTypes ==
  ASSUME TalkTypes, NEW p \in Prs, NEW by, NEW says, NEW head, Write(p, by, says, head),
         \A n \in Stamps : [by |-> by, says |-> says, head |-> head, at |-> n] \in Entry
  PROVE  TalkTypes'
<1>1. PICK n \in NextStamps(p) :
        talk' = [talk EXCEPT ![p] = Append(@, [by |-> by, says |-> says, head |-> head, at |-> n])]
  BY DEF Write
<1> DEFINE t == talk[p]
           e == [by |-> by, says |-> says, head |-> head, at |-> n]
<1>2. t \in Seq(Entry) /\ (\A i \in DOMAIN t : i > 1 => t[i].at - t[i - 1].at \in {0, 1})
      /\ aged[p] \in Nat /\ aged[p] <= Len(t)
  BY DEF TalkTypes, Talk
<1>3. \A i \in DOMAIN t : t[i].at \in Nat \ {0}
  BY <1>2 DEF Entry, Stamps
<1>4. n \in Stamps /\ (t # <<>> => n - t[Len(t)].at \in {0, 1})
  <2>1. CASE t = <<>>
    <3>1. LastAt(p) = 0 /\ Len(t) = 0
      BY <2>1 DEF LastAt
    <3> QED
      BY <1>2, <2>1, <3>1 DEF NextStamps, Stamps
  <2>2. CASE t # <<>>
    <3>1. Len(t) \in DOMAIN t /\ LastAt(p) = t[Len(t)].at
      BY <1>2, <2>2 DEF LastAt, Last
    <3> QED
      BY <1>3, <3>1 DEF NextStamps, Stamps
  <2> QED
    BY <2>1, <2>2
<1>5. e \in Entry /\ e.at = n
  BY <1>4
<1> HIDE DEF e
<1>6. Append(t, e) \in Talk
  <2> DEFINE u == Append(t, e)
  <2>1. /\ u \in Seq(Entry) /\ Len(u) = Len(t) + 1 /\ u[Len(t) + 1] = e
        /\ \A i \in 1..Len(t) : u[i] = t[i]
    BY <1>2, <1>5
  <2> HIDE DEF u
  <2>2. ASSUME NEW i \in DOMAIN u, i > 1 PROVE u[i].at - u[i - 1].at \in {0, 1}
    <3>1. i \in 1..Len(t) + 1 /\ i - 1 \in 1..Len(t) /\ DOMAIN t = 1..Len(t)
      BY <1>2, <2>1, <2>2
    <3>2. CASE i \in 1..Len(t)
      BY <1>2, <2>1, <2>2, <3>1, <3>2
    <3>3. CASE i = Len(t) + 1
      <4>1. u[i] = e /\ u[i - 1] = t[Len(t)] /\ t # <<>>
        BY <1>2, <2>1, <3>1, <3>3
      <4> QED
        BY <1>4, <1>5, <4>1
    <3> QED
      BY <3>1, <3>2, <3>3
  <2> QED
    BY <2>1, <2>2 DEF Talk, u
<1>7. Len(Append(t, e)) = Len(t) + 1
  BY <1>2
<1>8. /\ talk' \in [Prs -> Talk] /\ talk'[p] = Append(t, e)
      /\ \A q \in Prs : q # p => talk'[q] = talk[q]
  BY <1>1, <1>6 DEF TalkTypes, e
<1>9. aged' = aged
  BY DEF Write
<1>10. ASSUME NEW q \in Prs PROVE aged'[q] <= Len(talk'[q])
  <2>1. CASE q = p
    <3>1. Len(talk'[q]) = Len(t) + 1 /\ Len(t) \in Nat /\ aged'[q] = aged[p]
      BY <1>2, <1>7, <1>8, <1>9, <2>1
    <3> QED
      BY <1>2, <3>1
  <2>2. CASE q # p
    BY <1>8, <1>9, <2>2 DEF TalkTypes
  <2> QED
    BY <2>1, <2>2
<1> QED
  BY <1>8, <1>9, <1>10 DEF TalkTypes

LEMMA AgeTypes ==
  ASSUME TalkTypes, NEW p \in Prs, Age(p)
  PROVE  TalkTypes'
<1> DEFINE J == {i \in DOMAIN talk[p] : talk[p][i].at = talk[p][aged[p] + 1].at}
<1>1. talk[p] \in Seq(Entry) /\ aged[p] \in Nat /\ aged[p] < Len(talk[p])
  BY DEF TalkTypes, Talk, Age
<1>2. Len(talk[p]) \in Nat /\ J \in SUBSET (1..Len(talk[p])) /\ aged[p] + 1 \in J
  BY <1>1
<1>3. Max(J) \in 1..Len(talk[p])
  <2> HIDE DEF J
  <2> QED
    BY <1>2, GreatestIndex
<1>4. aged' = [aged EXCEPT ![p] = Max(J)] /\ talk' = talk
  BY DEF Age
<1> HIDE DEF J
<1> QED
  BY <1>3, <1>4 DEF TalkTypes

-----------------------------------------------------------------------------
(* What a scan makes of a timeline: the signal is a latest state of the    *)
(* HEAD and none of its second is settled; the response to follow up is    *)
(* the last one there is.                                                  *)
LEMMA SignalIsLatest ==
  ASSUME NEW t \in Seq(Entry), NEW h, Signal(t, h) # 0
  PROVE  LET i == Signal(t, h)
         IN  /\ i \in States(t, h)
             /\ \A j \in States(t, h) : t[j].at <= t[i].at
             /\ \A j \in States(t, h) : t[j].at >= t[i].at => t[j].says # "settled"
<1> DEFINE latest == {i \in States(t, h) : \A j \in States(t, h) : t[j].at <= t[i].at}
<1>1. /\ latest # {} /\ Signal(t, h) = Min(latest)
      /\ ~\E i \in latest : t[i].says = "settled"
  BY DEF Signal
<1>2. latest \in SUBSET Nat /\ \A i \in States(t, h) : t[i].at \in Nat
  BY DEF States, Entry, Stamps
<1>3. Signal(t, h) \in latest
  <2> HIDE DEF latest
  <2> QED
    BY <1>1, <1>2, MinIsLeast
<1>4. ASSUME NEW j \in States(t, h), t[j].at >= t[Signal(t, h)].at PROVE j \in latest
  <2>1. \A k \in States(t, h) : t[k].at <= t[Signal(t, h)].at
    BY <1>3
  <2>2. t[Signal(t, h)].at \in Nat
    BY <1>2, <1>3
  <2>3. \A k \in States(t, h) : t[k].at <= t[j].at
    BY <1>2, <1>4, <2>1, <2>2
  <2> QED
    BY <2>3
<1> QED
  BY <1>1, <1>3, <1>4

LEMMA ResponseIsLast ==
  ASSUME NEW t \in Seq(Entry), NEW i, NEW tip
  PROVE  /\ ToFollowUp(t, i, tip) \in Nat
         /\ t[i].says \notin FollowUps =>
              \A j \in Responses(t, i, tip) : t[j].at <= ToFollowUp(t, i, tip)
<1> DEFINE J == Responses(t, i, tip)
           S == {0} \cup {t[j].at : j \in J}
           f == [j \in 1..Len(t) |-> t[j].at]
<1>1. Len(t) \in Nat /\ J \in SUBSET (1..Len(t)) /\ \A j \in 1..Len(t) : f[j] \in Nat /\ f[j] = t[j].at
  BY DEF Responses, Entry, Stamps
<1>2. S \in SUBSET Nat
  BY <1>1
<1>3. \E m \in S : \A x \in S : x <= m
  <2>1. CASE J = {}
    BY <2>1
  <2>2. CASE J # {}
    <3> HIDE DEF J, f
    <3>1. PICK m \in J : \A j \in J : f[j] <= f[m]
      BY <1>1, <2>2, GreatestOfSome
    <3>2. t[m].at \in S /\ t[m].at \in Nat /\ \A j \in J : t[j].at <= t[m].at
      BY <1>1, <3>1
    <3> QED
      BY <3>2
  <2> QED
    BY <2>1, <2>2
<1>4. Max(S) \in S /\ \A x \in S : x <= Max(S)
  <2> HIDE DEF S
  <2> QED
    BY <1>2, <1>3, MaxIsGreatest
<1>5. ToFollowUp(t, i, tip) = IF t[i].says \in FollowUps THEN 0 ELSE Max(S)
  BY DEF ToFollowUp
<1>6. \A j \in Responses(t, i, tip) : t[j].at \in S
  OBVIOUS
<1>7. Max(S) \in Nat /\ \A j \in Responses(t, i, tip) : t[j].at <= Max(S)
  <2> HIDE DEF S
  <2> QED
    BY <1>2, <1>4, <1>6
<1> HIDE DEF S, J
<1>8. CASE t[i].says \in FollowUps
  BY <1>5, <1>8
<1>9. CASE t[i].says \notin FollowUps
  BY <1>5, <1>7, <1>9
<1> QED
  BY <1>8, <1>9

LEMMA TimelineRead ==
  ASSUME TalkTypes, PrTypes, NEW s \in Pods, NEW p \in Prs, NEW h \in Heads, ReadTimeline(s, p, h)
  PROVE  LET i    == Signal(talk[p], h)
             rest == scan[s].todo \ {<<p, h>>}
         IN  \/ GoTo(s, rest)
             \/ /\ i \in 1..aged[p] /\ i \in States(talk[p], h)
                /\ talk[p][i].says \in Says
                /\ scan' = [scan EXCEPT ![s] =
                     [stage |-> "status", todo |-> rest,
                      on |-> <<p, h, ToFollowUp(talk[p], i, pr[p].head)>>, ask |-> talk[p][i].says]]
<1> DEFINE i == Signal(talk[p], h)
<1>1. CASE ~Old(p, i)
  BY <1>1 DEF ReadTimeline
<1>2. CASE Old(p, i)
  <2>1. talk[p] \in Seq(Entry) /\ i \in 1..aged[p] /\ i # 0
    BY <1>2 DEF TalkTypes, Talk, Old
  <2>2. i \in States(talk[p], h)
    BY <2>1, SignalIsLatest
  <2>3. talk[p][i] \in Entry /\ talk[p][i].by = "bot"
    BY <2>1, <2>2 DEF States
  <2>4. talk[p][i].says \in Says
    BY <2>3 DEF Entry
  <2> QED
    BY <1>2, <2>1, <2>2, <2>4 DEF ReadTimeline
<1> QED
  BY <1>1, <1>2

LEMMA GoToTypes ==
  ASSUME ScanTypes, NEW s \in Pods, NEW todo \in SUBSET (Prs \X Heads), GoTo(s, todo)
  PROVE  ScanTypes'
<1> DEFINE new == IF todo = {} THEN IdleScan
                  ELSE [IdleScan EXCEPT !.stage = "listing", !.todo = todo]
<1>1. new \in Scan /\ new.stage \in {"idle", "listing"} /\ new.on = NoKey
  BY DEF IdleScan, Scan
<1>2. scan' = [scan EXCEPT ![s] = new]
  BY DEF GoTo
<1> HIDE DEF new
<1> QED
  BY <1>1, <1>2 DEF ScanTypes

LEMMA ScanStepTypes ==
  ASSUME ScanTypes, TalkTypes, PrTypes, NEW s \in Pods, ScanStep(s)
  PROVE  ScanTypes'
<1>0. scan[s] \in Scan /\ scan[s].todo \in SUBSET (Prs \X Heads)
  BY DEF ScanTypes, Scan
<1>1. CASE StartScan(s)
  <2>1. PICK some \in SUBSET {p \in Prs : pr[p].open} : GoTo(s, {<<p, pr[p].head>> : p \in some})
    BY <1>1 DEF StartScan, kSubset
  <2>2. {<<p, pr[p].head>> : p \in some} \in SUBSET (Prs \X Heads)
    BY DEF PrTypes
  <2> QED
    BY <2>1, <2>2, GoToTypes
<1>2. CASE ReadStatus(s)
  <2>1. CASE NextInList(s)
    BY <1>0, <2>1, GoToTypes DEF NextInList
  <2>2. CASE ~NextInList(s)
    <3> DEFINE stage == IF scan[s].on[3] = 0 THEN "closing" ELSE "queueing"
    <3>1. scan' = [scan EXCEPT ![s].stage = stage] /\ scan[s].stage = "status"
      BY <1>2, <2>2 DEF ReadStatus
    <3>2. scan[s].on # NoKey /\ scan[s].on \in Prs \X Heads \X Nat
      BY <1>0, <3>1 DEF ScanTypes, Scan
    <3>3. stage = "queueing" => scan[s].on \in Key
      BY <3>2 DEF Key, Stamps
    <3>4. stage \in {"closing", "queueing"}
      OBVIOUS
    <3> HIDE DEF stage
    <3>5. [scan[s] EXCEPT !.stage = stage] \in Scan
      BY <1>0, <3>4 DEF Scan
    <3>6. /\ scan' \in [Pods -> Scan] /\ scan'[s].stage = stage /\ scan'[s].on = scan[s].on
          /\ \A r \in Pods : r # s => scan'[r] = scan[r]
      BY <1>0, <3>1, <3>5 DEF ScanTypes, Scan
    <3> QED
      BY <3>2, <3>3, <3>4, <3>6 DEF ScanTypes
  <2> QED
    BY <2>1, <2>2
<1>3. CASE \E p \in Prs, h \in Heads : ReadTimeline(s, p, h)
  <2>1. PICK p \in Prs, h \in Heads : ReadTimeline(s, p, h)
    BY <1>3
  <2> DEFINE i == Signal(talk[p], h)
             rest == scan[s].todo \ {<<p, h>>}
             n == ToFollowUp(talk[p], i, pr[p].head)
             new == [stage |-> "status", todo |-> rest, on |-> <<p, h, n>>, ask |-> talk[p][i].says]
  <2>2. rest \in SUBSET (Prs \X Heads)
    BY <1>0
  <2>3. CASE GoTo(s, rest)
    BY <2>2, <2>3, GoToTypes
  <2>4. CASE talk[p][i].says \in Says /\ scan' = [scan EXCEPT ![s] = new]
    <3>1. n \in Nat
      BY ResponseIsLast DEF TalkTypes, Talk
    <3>2. new \in Scan /\ new.stage = "status" /\ new.on # NoKey
      BY <2>2, <2>4, <3>1 DEF Scan, NoKey
    <3> HIDE DEF new
    <3> QED
      BY <2>4, <3>2 DEF ScanTypes
  <2> QED
    BY <2>1, <2>3, <2>4, TimelineRead
<1>4. CASE QueueFollowUp(s) \/ ClosePr(s)
  BY <1>0, <1>4, GoToTypes DEF QueueFollowUp, ClosePr, NextInList
<1> QED
  BY <1>1, <1>2, <1>3, <1>4 DEF ScanStep

-----------------------------------------------------------------------------
(* What a job does to its row and to its memory.                           *)
LEMMA JobEndsTypes ==
  ASSUME JobTypes, NEW s \in Pods, EndJob(s)
  PROVE  JobTypes'
<1>1. IdleJob \in Job /\ IdleJob.stage = "idle" /\ IdleJob.key = NoKey
  BY StaleAssumption DEF IdleJob, Job
<1>2. job' = [job EXCEPT ![s] = IdleJob]
  BY DEF EndJob
<1> HIDE DEF IdleJob
<1> QED
  BY <1>1, <1>2 DEF JobTypes

LEMMA DecideTypes ==
  ASSUME JobTypes, NEW s \in Pods, job[s].stage # "idle", NEW says \in {"close"} \cup Says,
         Decide(s, says)
  PROVE  JobTypes'
<1> DEFINE new == [job[s] EXCEPT !.stage = "posting", !.says = says]
<1>1. job[s] \in Job /\ job[s].key # NoKey
  BY DEF JobTypes
<1>2. new \in Job /\ new.stage = "posting" /\ new.says = says /\ new.key = job[s].key
  BY <1>1 DEF Job
<1>3. job' = [job EXCEPT ![s] = new]
  BY DEF Decide
<1> HIDE DEF new
<1> QED
  BY <1>1, <1>2, <1>3 DEF JobTypes

(* One row is written, and its job, if it was running, is over; or the row *)
(* was free, and a job is begun with it.                                   *)
RowOK(r) ==
  /\ r.status \in {"queued", "done", "handed", "dropped", "failed"}
  /\ r.attempts \in 0..MaxAttempts
  /\ r.wait \in 0..(MaxCooldown + 1)
  /\ r.spent \in 0..MaxAttempts
  /\ r.status = "queued" => r.attempts < MaxAttempts

LEMMA RowEndsTypes ==
  ASSUME StaleInv, NEW s \in Pods, Busy(s), EndJob(s), NEW r, RowOK(r),
         rows' = [rows EXCEPT ![job[s].key] = r]
  PROVE  RowTypes'
<1>1. RowTypes /\ JobShape /\ Held
  BY DEF StaleInv, StaleTypes, FreeInv
<1>2. /\ DOMAIN rows' = DOMAIN rows /\ rows'[job[s].key] = r
      /\ \A k \in DOMAIN rows : k # job[s].key => rows'[k] = rows[k]
  BY <1>1 DEF Held
<1>3. \A t \in Pods : t # s => job'[t] = job[t]
  BY <1>1 DEF EndJob, JobShape
<1>4. ASSUME NEW k \in DOMAIN rows, k # job[s].key, rows[k].status = "running"
      PROVE  \E t \in Pods : job'[t].key = k
  <2>1. PICK t \in Pods : job[t].key = k
    BY <1>1, <1>4 DEF RowTypes
  <2>2. t # s
    BY <1>4, <2>1
  <2>3. job'[t].key = k
    BY <1>3, <2>1, <2>2
  <2> QED
    BY <2>3
<1> QED
  BY <1>1, <1>2, <1>4 DEF RowTypes, RowOK

(* The row of a job under way has its attempts counted and not used up.    *)
LEMMA RunningRow ==
  ASSUME StaleInv, NEW s \in Pods, Busy(s)
  PROVE  LET r == rows[job[s].key]
         IN  /\ Row(r) /\ r.status = "running"
             /\ r.attempts \in 0..MaxAttempts /\ r.spent \in 0..MaxAttempts
             /\ r.wait \in 0..(MaxCooldown + 1)
             /\ r.attempts = r.spent + 1
<1>1. job[s].key \in DOMAIN rows /\ rows[job[s].key].status = "running"
  BY DEF StaleInv, FreeInv, Held
<1>2. Row(rows[job[s].key]) /\ Free(rows[job[s].key])
  BY <1>1 DEF StaleInv, FreeInv, RowsFree
<1> QED
  BY <1>1, <1>2 DEF StaleInv, StaleTypes, RowTypes, Free, Open

LEMMA SettleTypes ==
  ASSUME StaleInv, NEW s \in Pods, Busy(s), NEW status \in {"done", "handed", "dropped"},
         Settle(s, status)
  PROVE  RowTypes' /\ JobTypes'
<1> DEFINE r == [rows[job[s].key] EXCEPT !.status = status]
<1>1. RowOK(r)
  BY RunningRow DEF Row, RowOK
<1>2. rows' = [rows EXCEPT ![job[s].key] = r] /\ EndJob(s)
  BY DEF Settle
<1> HIDE DEF r
<1> QED
  BY <1>1, <1>2, RowEndsTypes, JobEndsTypes DEF StaleInv, StaleTypes

LEMMA RetryTypes ==
  ASSUME StaleInv, NEW s \in Pods, Busy(s), Retry(s)
  PROVE  RowTypes' /\ JobTypes'
<1> DEFINE x == rows[job[s].key]
           status == IF x.attempts < MaxAttempts THEN "queued" ELSE "failed"
           r == [x EXCEPT !.status = status, !.wait = 1, !.spent = @ + 1]
<1>1. /\ Row(x) /\ x.attempts \in 0..MaxAttempts /\ x.spent \in 0..MaxAttempts
      /\ x.attempts = x.spent + 1
  BY RunningRow
<1>2. r.status = status /\ r.wait = 1 /\ r.spent = x.spent + 1 /\ r.attempts = x.attempts
  BY <1>1 DEF Row
<1>3. rows' = [rows EXCEPT ![job[s].key] = r] /\ EndJob(s)
  BY DEF Retry, OneMoreOrNone
<1> HIDE DEF r, x
<1>4. RowOK(r)
  BY <1>1, <1>2, LongestCooldown, StaleAssumption DEF RowOK
<1> QED
  BY <1>3, <1>4, RowEndsTypes, JobEndsTypes DEF StaleInv, StaleTypes

LEMMA DeferredTypes ==
  ASSUME StaleInv, NEW s \in Pods, Deferred(s)
  PROVE  RowTypes' /\ JobTypes'
<1> DEFINE x == rows[job[s].key]
           ticks == RetryAfter(s)
           r == [x EXCEPT !.status = "queued", !.attempts = @ - 1, !.wait = ticks]
<1>1. Busy(s)
  BY DEF Deferred, Busy
<1>2. /\ Row(x) /\ x.attempts \in 0..MaxAttempts /\ x.spent \in 0..MaxAttempts
      /\ x.attempts = x.spent + 1
  BY <1>1, RunningRow
<1>3. r.status = "queued" /\ r.wait = ticks /\ r.spent = x.spent /\ r.attempts = x.attempts - 1
  BY <1>2 DEF Row
<1>4. rows' = [rows EXCEPT ![job[s].key] = r] /\ EndJob(s)
  BY DEF Deferred, DeferredRow
<1>5. ticks \in 0..MaxCooldown
  <2> DEFINE W == {cooling[s][v] : v \in Providers}
  <2>1. W \subseteq 0..MaxCooldown /\ W # {}
    BY ProviderAssumption DEF StaleInv, StaleTypes, ProviderTypeOK
  <2>2. ticks = Min(W)
    BY DEF RetryAfter
  <2> HIDE DEF W, ticks
  <2>3. W \in SUBSET Nat
    BY <2>1, LongestCooldown
  <2>4. Min(W) \in W
    BY <2>1, <2>3, MinIsLeast
  <2> QED
    BY <2>1, <2>2, <2>4
<1> HIDE DEF r, x, ticks
<1>6. RowOK(r)
  BY <1>2, <1>3, <1>5, LongestCooldown, StaleAssumption DEF RowOK
<1> QED
  BY <1>1, <1>4, <1>6, RowEndsTypes, JobEndsTypes DEF StaleInv, StaleTypes

LEMMA RowsKept ==
  ASSUME RowTypes, UNCHANGED rows, \A s \in Pods : job'[s].key = job[s].key
  PROVE  RowTypes'
<1>1. ASSUME NEW k \in DOMAIN rows, rows[k].status = "running"
      PROVE  \E s \in Pods : job'[s].key = k
  <2>1. PICK s \in Pods : job[s].key = k
    BY <1>1 DEF RowTypes
  <2> QED
    BY <2>1
<1> QED
  BY <1>1 DEF RowTypes

LEMMA DecideRows ==
  ASSUME StaleInv, NEW s \in Pods, NEW says, Decide(s, says)
  PROVE  RowTypes'
<1>1. /\ UNCHANGED rows
      /\ job' = [job EXCEPT ![s] = [@ EXCEPT !.stage = "posting", !.says = says]]
  BY DEF Decide
<1>2. \A t \in Pods : job'[t].key = job[t].key
  BY <1>1 DEF StaleInv, FreeInv, JobShape
<1> QED
  BY <1>1, <1>2, RowsKept DEF StaleInv, StaleTypes

LEMMA BeginTypes ==
  ASSUME StaleInv, NEW s \in Pods, NEW k \in DOMAIN rows, Begin(s, k)
  PROVE  RowTypes' /\ JobTypes'
<1>1. RowTypes /\ JobTypes /\ PrTypes /\ JobShape
  BY DEF StaleInv, StaleTypes, FreeInv
<1>2. k \in Key /\ k[1] \in Prs
  BY <1>1 DEF RowTypes, Key
<1>3. ~Busy(s) /\ rows[k].status = "queued" /\ job[s].key = NoKey
  BY <1>1 DEF Begin, Due, Busy, JobTypes
<1>4. Row(rows[k]) /\ rows[k].attempts + 1 \in 0..MaxAttempts
  <2>1. Row(rows[k])
    BY DEF StaleInv, FreeInv, RowsFree
  <2>2. rows[k].attempts \in 0..MaxAttempts /\ rows[k].attempts < MaxAttempts
    BY <1>1, <1>3 DEF RowTypes
  <2> QED
    BY <2>1, <2>2, StaleAssumption
<1>5. ASSUME NEW status,
             rows' = [rows EXCEPT ![k].status = status, ![k].attempts = @ + 1]
      PROVE  /\ DOMAIN rows' = DOMAIN rows
             /\ rows'[k].status = status /\ rows'[k].attempts = rows[k].attempts + 1
             /\ rows'[k].wait = rows[k].wait /\ rows'[k].spent = rows[k].spent
             /\ \A j \in DOMAIN rows : j # k => rows'[j] = rows[j]
  <2> DEFINE r == [rows[k] EXCEPT !.status = status]
             x == [r EXCEPT !.attempts = @ + 1]
  <2>1. rows' = [rows EXCEPT ![k] = x]
    BY <1>5
  <2>2. /\ DOMAIN r = DOMAIN rows[k] /\ r.status = status
        /\ r.attempts = rows[k].attempts /\ r.spent = rows[k].spent /\ r.wait = rows[k].wait
    BY <1>4 DEF Row
  <2> HIDE DEF r
  <2>3. /\ x.status = status /\ x.attempts = rows[k].attempts + 1
        /\ x.wait = rows[k].wait /\ x.spent = rows[k].spent
    BY <1>4, <2>2 DEF Row
  <2> HIDE DEF x
  <2> QED
    BY <2>1, <2>3
<1>6. CASE pr[k[1]].open
  <2> DEFINE stage == IF pr[k[1]].status.conflict THEN "conflict" ELSE "asking"
             new == [stage |-> stage, key |-> k, head |-> pr[k[1]].head, says |-> "-"]
  <2>1. rows' = [rows EXCEPT ![k].status = "running", ![k].attempts = @ + 1]
    BY <1>6 DEF Begin
  <2>2. job' = [job EXCEPT ![s] = new]
    BY <1>6 DEF Begin
  <2>3. new \in Job /\ new.key = k /\ new.stage \in {"conflict", "asking"} /\ k # NoKey
    <3>1. stage \in {"conflict", "asking"} /\ pr[k[1]].head \in Heads
      BY <1>1, <1>2 DEF PrTypes
    <3> HIDE DEF stage
    <3> QED
      BY <1>2, <3>1, NoKeyIsNone DEF Job
  <2> HIDE DEF new
  <2>4. JobTypes'
    BY <1>1, <2>2, <2>3 DEF JobTypes
  <2>5. /\ job'[s].key = k /\ \A t \in Pods : t # s => job'[t] = job[t]
    BY <1>1, <2>2, <2>3 DEF JobShape
  <2>6. ASSUME NEW j \in DOMAIN rows, j # k, rows[j].status = "running"
        PROVE  \E t \in Pods : job'[t].key = j
    <3>1. PICK t \in Pods : job[t].key = j
      BY <1>1, <2>6 DEF RowTypes
    <3>2. j # NoKey
      BY <1>1, NoKeyIsNone DEF RowTypes
    <3>3. t # s
      BY <1>3, <3>1, <3>2
    <3> QED
      BY <2>5, <3>1, <3>3
  <2>7. /\ rows'[k].status = "running" /\ DOMAIN rows' = DOMAIN rows
        /\ rows'[k].attempts = rows[k].attempts + 1
        /\ rows'[k].wait = rows[k].wait /\ rows'[k].spent = rows[k].spent
        /\ \A j \in DOMAIN rows : j # k => rows'[j] = rows[j]
    BY <1>5, <2>1
  <2>8. RowTypes'
    BY <1>1, <1>4, <2>5, <2>6, <2>7 DEF RowTypes
  <2> QED
    BY <2>4, <2>8
<1>7. CASE ~pr[k[1]].open
  <2>1. rows' = [rows EXCEPT ![k].status = "dropped", ![k].attempts = @ + 1] /\ job' = job
    BY <1>7 DEF Begin
  <2>2. /\ rows'[k].status = "dropped" /\ DOMAIN rows' = DOMAIN rows
        /\ rows'[k].attempts = rows[k].attempts + 1
        /\ rows'[k].wait = rows[k].wait /\ rows'[k].spent = rows[k].spent
        /\ \A j \in DOMAIN rows : j # k => rows'[j] = rows[j]
    BY <1>5, <2>1
  <2>3. RowTypes'
    BY <1>1, <1>4, <2>1, <2>2 DEF RowTypes
  <2> QED
    BY <1>1, <2>1, <2>3 DEF JobTypes
<1> QED
  BY <1>6, <1>7

LEMMA JobStepTypes ==
  ASSUME StaleInv, NEW s \in Pods, JobStep(s)
  PROVE  RowTypes' /\ JobTypes'
<1>0. RowTypes /\ JobTypes /\ JobShape /\ job[s] \in Job
  BY DEF StaleInv, StaleTypes, FreeInv, JobTypes
<1>1. CASE \E k \in DOMAIN rows : Begin(s, k)
  BY <1>1, BeginTypes
<1>2. CASE AnswerConflict(s)
  <2>1. Busy(s)
    BY <1>2 DEF AnswerConflict, Busy
  <2>2. Decide(s, "again-conflict") \/ Settle(s, "dropped")
    BY <1>2 DEF AnswerConflict, Discard
  <2>3. "again-conflict" \in {"close"} \cup Says
    BY DEF Says, FollowUps
  <2> QED
    BY <1>0, <2>1, <2>2, <2>3, DecideTypes, DecideRows, SettleTypes DEF Busy
<1>3. CASE WeighAnswer(s)
  <2>1. Busy(s)
    BY <1>3 DEF WeighAnswer, Busy
  <2>2. \/ \E says \in {"again-status", "settled", "close", "again-review"} : Decide(s, says)
        \/ \E status \in {"dropped", "handed"} : Settle(s, status)
    BY <1>3 DEF WeighAnswer, Discard
  <2>3. {"again-status", "settled", "close", "again-review"} \subseteq {"close"} \cup Says
    BY DEF Says, FollowUps
  <2> QED
    BY <1>0, <2>1, <2>2, <2>3, DecideTypes, DecideRows, SettleTypes DEF Busy
<1>4. CASE Post(s)
  <2>1. Busy(s)
    BY <1>4 DEF Post, Busy
  <2>2. Retry(s) \/ \E status \in {"done", "dropped"} : Settle(s, status)
    BY <1>4 DEF Post
  <2> QED
    BY <2>1, <2>2, RetryTypes, SettleTypes
<1>5. CASE \E v \in Providers, says \in Answers : Answered(s, v, says)
  <2>1. PICK says \in Answers :
          /\ job[s].stage = "asking" /\ rows' = rows
          /\ job' = [job EXCEPT ![s] = [@ EXCEPT !.stage = "publishing", !.says = says]]
    BY <1>5 DEF Answered
  <2> DEFINE new == [job[s] EXCEPT !.stage = "publishing", !.says = says]
  <2>2. new \in Job /\ new.stage = "publishing" /\ new.key = job[s].key
    BY <1>0 DEF Job
  <2>3. job' = [job EXCEPT ![s] = new]
    BY <2>1
  <2> HIDE DEF new
  <2>4. JobTypes'
    BY <1>0, <2>1, <2>2, <2>3 DEF JobTypes
  <2>5. \A t \in Pods : job'[t].key = job[t].key
    BY <1>0, <2>2, <2>3 DEF JobShape
  <2> QED
    BY <1>0, <2>1, <2>4, <2>5, RowsKept
<1>6. CASE \E v \in Providers, ticks \in Cooldowns : NotAnswered(s, v, ticks)
  <2>1. rows' = rows /\ job' = job
    BY <1>6 DEF NotAnswered
  <2> QED
    BY <1>0, <2>1, RowsKept DEF JobTypes
<1>7. CASE NobodyAnswered(s)
  BY <1>7, RetryTypes DEF NobodyAnswered, Busy
<1>8. CASE Deferred(s)
  BY <1>8, DeferredTypes
<1> QED
  BY <1>1, <1>2, <1>3, <1>4, <1>5, <1>6, <1>7, <1>8 DEF JobStep

(* A follow-up is queued with all its attempts, or had been before.        *)
LEMMA QueueTypes ==
  ASSUME StaleInv, NEW s \in Pods, QueueFollowUp(s)
  PROVE  RowTypes'
<1> DEFINE new == [status |-> "queued", attempts |-> 0, wait |-> 0, spent |-> 0]
<1>1. /\ DOMAIN rows' = DOMAIN rows \cup {scan[s].on}
      /\ \A k \in DOMAIN rows' : rows'[k] = IF k \in DOMAIN rows THEN rows[k] ELSE new
      /\ job' = job /\ scan[s].on \in Key
  BY DEF QueueFollowUp, StaleInv, StaleTypes, ScanTypes
<1>2. /\ new.status = "queued" /\ new.attempts \in 0..MaxAttempts /\ new.attempts < MaxAttempts
      /\ new.spent \in 0..MaxAttempts /\ new.wait \in 0..(MaxCooldown + 1)
  BY StaleAssumption, LongestCooldown
<1>3. RowTypes
  BY DEF StaleInv, StaleTypes
<1> HIDE DEF new
<1> QED
  BY <1>1, <1>2, <1>3 DEF RowTypes

LEMMA TickTypes ==
  ASSUME StaleInv, Tick
  PROVE  RowTypes' /\ ProviderTypeOK'
<1>1. RowTypes /\ ProviderTypeOK /\ job' = job /\ failed' = failed
  BY DEF StaleInv, StaleTypes, Tick
<1>2. DOMAIN rows' = DOMAIN rows
  BY DEF Tick
<1>3. ASSUME NEW k \in DOMAIN rows
      PROVE  /\ rows'[k].status = rows[k].status /\ rows'[k].attempts = rows[k].attempts
             /\ rows'[k].spent = rows[k].spent /\ rows'[k].wait \in 0..(MaxCooldown + 1)
  <2>1. Row(rows[k]) /\ rows[k].wait \in 0..(MaxCooldown + 1)
    BY <1>1 DEF StaleInv, FreeInv, RowsFree, RowTypes
  <2> DEFINE n == IF rows[k].wait > 0 THEN rows[k].wait - 1 ELSE 0
  <2>2. rows'[k] = [rows[k] EXCEPT !.wait = n]
    BY DEF Tick
  <2>3. n \in 0..(MaxCooldown + 1)
    BY <2>1, LongestCooldown
  <2> HIDE DEF n
  <2> QED
    BY <2>1, <2>2, <2>3 DEF Row
<1>4. RowTypes'
  BY <1>1, <1>2, <1>3 DEF RowTypes
<1>5. \A s \in Pods, v \in Providers : CooledBy1(s)[v] \in 0..MaxCooldown
  BY <1>1, LongestCooldown DEF CooledBy1, ProviderTypeOK
<1>6. \A s \in Pods : CooledBy1(s) \in [Providers -> 0..MaxCooldown]
  BY <1>5 DEF CooledBy1
<1>7. cooling' \in [Pods -> [Providers -> 0..MaxCooldown]]
  BY <1>6 DEF Tick
<1> QED
  BY <1>1, <1>4, <1>7 DEF ProviderTypeOK

-----------------------------------------------------------------------------
LEMMA TableLostTypes ==
  ASSUME ProviderTypeOK, NEW s \in Pods, ProviderTableLost(s)
  PROVE  ProviderTypeOK'
<1>1. NoCooldown \in [Providers -> 0..MaxCooldown]
  BY LongestCooldown DEF NoCooldown
<1> QED
  BY <1>1 DEF ProviderTableLost, ProviderTypeOK

LEMMA JobStepProviders ==
  ASSUME ProviderTypeOK, NEW s \in Pods, JobStep(s)
  PROVE  ProviderTypeOK'
<1>1. CASE \E v \in Providers, ticks \in Cooldowns : NotAnswered(s, v, ticks)
  <2>1. PICK v \in Providers, ticks \in Cooldowns : ProviderFails(s, v, ticks)
    BY <1>1 DEF NotAnswered
  <2>2. ticks \in 0..MaxCooldown
    BY LongestCooldown, ProviderAssumption
  <2> QED
    BY <2>1, <2>2 DEF ProviderFails, ProviderTypeOK
<1>2. CASE ~\E v \in Providers, ticks \in Cooldowns : NotAnswered(s, v, ticks)
  <2>1. cooling' = cooling /\ (failed' = failed \/ failed' = [failed EXCEPT ![s] = {}])
    BY <1>2 DEF JobStep, Begin, AnswerConflict, WeighAnswer, Post, Answered, NobodyAnswered,
      Deferred, ProviderAnswers, AllProvidersFailed, AllProvidersCooling, RequestOver, providerVars
  <2> QED
    BY <2>1 DEF ProviderTypeOK
<1> QED
  BY <1>1, <1>2

(* What a job leaves alone, and what it posts.                             *)
LEMMA JobStepOutside ==
  ASSUME StaleInv, NEW s \in Pods, JobStep(s)
  PROVE  PrTypes' /\ TalkTypes' /\ scan' = scan /\ upsets' \in 0..MaxUpsets
<1>0. PrTypes /\ TalkTypes /\ JobTypes /\ upsets \in 0..MaxUpsets
  BY DEF StaleInv, StaleTypes
<1>1. CASE Post(s)
  <2> DEFINE p == job[s].key[1]
             says == job[s].says
             head == job[s].head
  <2>1. job[s] \in Job /\ job[s].key # NoKey /\ says \in {"close"} \cup Says
    BY <1>0, <1>1 DEF JobTypes, Post
  <2>2. p \in Prs /\ head \in Heads
    BY <2>1 DEF Job, Key
  <2>3. scan' = scan /\ upsets' \in 0..MaxUpsets
    BY <1>0, <1>1, StaleAssumption DEF Post, Upset
  <2>4. CASE says = "close"
    <3>1. pr' = [pr EXCEPT ![p].open = FALSE] /\ UNCHANGED <<talk, aged>>
      BY <1>1, <2>4 DEF Post
    <3> QED
      BY <1>0, <2>2, <2>3, <3>1 DEF PrTypes, TalkTypes
  <2>5. CASE says # "close"
    <3>1. Write(p, "bot", says, head) /\ pr' = pr
      BY <1>1, <2>5 DEF Post
    <3>2. \A n \in Stamps : [by |-> "bot", says |-> says, head |-> head, at |-> n] \in Entry
      BY <2>1, <2>2, <2>5 DEF Entry
    <3> HIDE DEF p, says, head
    <3>3. TalkTypes'
      BY <1>0, <2>2, <3>1, <3>2, WriteTypes
    <3> QED
      BY <1>0, <2>3, <3>1, <3>3 DEF PrTypes
  <2> QED
    BY <2>4, <2>5
<1>2. CASE ~Post(s)
  <2>1. UNCHANGED <<pr, talk, aged, scan, upsets>>
    BY <1>2 DEF JobStep, Begin, AnswerConflict, WeighAnswer, Answered, NotAnswered,
      NobodyAnswered, Deferred
  <2> QED
    BY <1>0, <2>1 DEF PrTypes, TalkTypes
<1> QED
  BY <1>1, <1>2

LEMMA OutsideTypes ==
  ASSUME StaleInv, NEW p \in Prs, Outside(p)
  PROVE  PrTypes' /\ TalkTypes' /\ upsets' \in 0..MaxUpsets
<1>0. PrTypes /\ TalkTypes /\ upsets \in 0..MaxUpsets
  BY DEF StaleInv, StaleTypes
<1>1. CASE Age(p)
  BY <1>0, <1>1, AgeTypes DEF Age, PrTypes
<1>2. CASE HumanResponds(p)
  <2>1. \A n \in Stamps : [by |-> "human", says |-> "-", head |-> 1, at |-> n] \in Entry
    BY StaleAssumption DEF Entry
  <2>2. TalkTypes'
    BY <1>0, <1>2, <2>1, WriteTypes DEF HumanResponds
  <2> QED
    BY <1>0, <1>2, <2>2 DEF HumanResponds, PrTypes
<1>3. CASE \E says \in OtherSays : OtherJobWrites(p, says)
  <2>1. PICK says \in OtherSays : OtherJobWrites(p, says)
    BY <1>3
  <2>2. pr[p].head \in Heads /\ says \in Says
    BY <1>0, StaleAssumption DEF PrTypes
  <2>3. \A n \in Stamps : [by |-> "bot", says |-> says, head |-> pr[p].head, at |-> n] \in Entry
    BY <2>2 DEF Entry
  <2>4. TalkTypes'
    BY <1>0, <2>1, <2>3, WriteTypes DEF OtherJobWrites
  <2> QED
    BY <1>0, <2>1, <2>4 DEF OtherJobWrites, PrTypes
<1>4. CASE \E h \in Heads : Push(p, h)
  <2>1. PICK h \in Heads : Push(p, h)
    BY <1>4
  <2>2. \A n \in Stamps : [by |-> "commit", says |-> "-", head |-> h, at |-> n] \in Entry
    BY DEF Entry
  <2>3. TalkTypes'
    <3>1. CASE UNCHANGED <<talk, aged>>
      BY <1>0, <3>1 DEF TalkTypes
    <3>2. CASE Write(p, "commit", "-", h)
      BY <1>0, <2>2, <3>2, WriteTypes
    <3> QED
      BY <2>1, <3>1, <3>2 DEF Push
  <2>4. PrTypes'
    BY <1>0, <2>1 DEF Push, PrTypes
  <2> QED
    BY <1>0, <2>1, <2>3, <2>4, StaleAssumption DEF Push, Upset
<1>5. CASE StatusChanges(p)
  <2>1. PICK status \in Statuses : pr' = [pr EXCEPT ![p].status = status]
    BY <1>5 DEF StatusChanges
  <2>2. UNCHANGED <<talk, aged>> /\ upsets' \in 0..MaxUpsets
    BY <1>0, <1>5, StaleAssumption DEF StatusChanges, Upset
  <2> QED
    BY <1>0, <2>1, <2>2 DEF PrTypes, TalkTypes
<1> QED
  BY <1>1, <1>2, <1>3, <1>4, <1>5 DEF Outside

LEMMA StepStaleTypes ==
  ASSUME StaleInv, [StaleNext]_staleVars
  PROVE  StaleTypes'
<1>0. /\ ProviderTypeOK /\ PrTypes /\ TalkTypes /\ ScanTypes /\ JobTypes /\ RowTypes
      /\ upsets \in 0..MaxUpsets
  BY DEF StaleInv, StaleTypes
<1>1. ASSUME NEW s \in Pods, ScanStep(s) PROVE StaleTypes'
  <2>1. ScanTypes'
    BY <1>0, <1>1, ScanStepTypes
  <2>2. UNCHANGED <<talk, aged, job, upsets, cooling, failed>>
    BY <1>1 DEF ScanStep, StartScan, ReadStatus, ReadTimeline, QueueFollowUp, ClosePr, Leaves
  <2>3. PrTypes'
    BY <1>0, <1>1 DEF ScanStep, StartScan, ReadStatus, ReadTimeline, QueueFollowUp, ClosePr,
      Leaves, PrTypes
  <2>4. CASE QueueFollowUp(s)
    BY <1>0, <2>1, <2>2, <2>3, <2>4, QueueTypes
    DEF StaleTypes, ProviderTypeOK, TalkTypes, JobTypes
  <2>5. CASE ~QueueFollowUp(s)
    <3>1. rows' = rows
      BY <1>1, <2>5 DEF ScanStep, StartScan, ReadStatus, ReadTimeline, ClosePr, Leaves
    <3>2. RowTypes'
      BY <1>0, <2>2, <3>1, RowsKept
    <3> QED
      BY <1>0, <2>1, <2>2, <2>3, <3>2 DEF StaleTypes, ProviderTypeOK, TalkTypes, JobTypes
  <2> QED
    BY <2>4, <2>5
<1>2. ASSUME NEW s \in Pods, JobStep(s) PROVE StaleTypes'
  BY <1>0, <1>2, JobStepTypes, JobStepProviders, JobStepOutside DEF StaleTypes, ScanTypes
<1>3. ASSUME NEW s \in Pods, ScanFails(s) \/ Crash(s)
      PROVE  PrTypes' /\ TalkTypes' /\ ScanTypes' /\ upsets' \in 0..MaxUpsets
  <2>1. IdleScan \in Scan /\ IdleScan.stage = "idle" /\ IdleScan.on = NoKey
    BY DEF IdleScan, Scan
  <2>2. scan' = [scan EXCEPT ![s] = IdleScan] /\ UNCHANGED <<pr, talk, aged>>
    BY <1>3 DEF ScanFails, Crash
  <2> HIDE DEF IdleScan
  <2>3. ScanTypes'
    BY <1>0, <2>1, <2>2 DEF ScanTypes
  <2>4. upsets' \in 0..MaxUpsets
    BY <1>0, <1>3, StaleAssumption DEF ScanFails, Crash, Upset
  <2> QED
    BY <1>0, <2>2, <2>3, <2>4 DEF PrTypes, TalkTypes
<1>4. ASSUME NEW s \in Pods, ScanFails(s) PROVE StaleTypes'
  <2>1. UNCHANGED <<rows, job, cooling, failed>>
    BY <1>4 DEF ScanFails
  <2>2. RowTypes'
    BY <1>0, <2>1, RowsKept
  <2> QED
    BY <1>0, <1>3, <1>4, <2>1, <2>2 DEF StaleTypes, ProviderTypeOK, JobTypes
<1>5. ASSUME NEW s \in Pods, Crash(s) PROVE StaleTypes'
  <2>1. ProviderTypeOK'
    BY <1>0, <1>5, TableLostTypes DEF Crash
  <2>2. RowTypes' /\ JobTypes'
    <3>1. CASE Busy(s)
      BY <1>5, <3>1, RetryTypes DEF Crash, Busy
    <3>2. CASE ~Busy(s)
      <4>1. rows' = rows /\ job' = job
        BY <1>5, <3>2 DEF Crash, Busy
      <4> QED
        BY <1>0, <4>1, RowsKept DEF JobTypes
    <3> QED
      BY <3>1, <3>2
  <2> QED
    BY <1>3, <1>5, <2>1, <2>2 DEF StaleTypes
<1>6. ASSUME NEW s \in Pods, JobFails(s) \/ Stop(s) PROVE StaleTypes'
  <2>1. Busy(s) /\ UNCHANGED <<pr, talk, aged, scan>> /\ upsets' \in 0..MaxUpsets
    BY <1>0, <1>6, StaleAssumption DEF JobFails, Stop, Busy, Upset
  <2>2. RowTypes' /\ JobTypes'
    BY <1>6, <2>1, RetryTypes, SettleTypes DEF JobFails, Stop
  <2>3. ProviderTypeOK'
    <3>1. CASE JobFails(s)
      BY <1>0, <3>1 DEF JobFails, ProviderTypeOK
    <3>2. CASE Stop(s)
      BY <1>0, <3>2, TableLostTypes DEF Stop
    <3> QED
      BY <1>6, <3>1, <3>2
  <2> QED
    BY <1>0, <2>1, <2>2, <2>3 DEF StaleTypes, PrTypes, TalkTypes, ScanTypes
<1>7. ASSUME NEW p \in Prs, Outside(p) PROVE StaleTypes'
  <2>1. UNCHANGED <<rows, scan, job, cooling, failed>>
    BY <1>7 DEF Outside, Age, HumanResponds, OtherJobWrites, Push, StatusChanges
  <2>2. RowTypes'
    BY <1>0, <2>1, RowsKept
  <2> QED
    BY <1>0, <1>7, <2>1, <2>2, OutsideTypes DEF StaleTypes, ProviderTypeOK, ScanTypes, JobTypes
<1>8. CASE Tick
  <2>1. RowTypes' /\ ProviderTypeOK' /\ UNCHANGED <<pr, talk, aged, scan, job, upsets>>
    BY <1>8, TickTypes DEF Tick
  <2> QED
    BY <1>0, <2>1 DEF StaleTypes, PrTypes, TalkTypes, ScanTypes, JobTypes
<1>9. CASE UNCHANGED staleVars
  <2>1. UNCHANGED <<pr, talk, aged, rows, scan, job, upsets, cooling, failed>>
    BY <1>9 DEF staleVars
  <2>2. RowTypes'
    BY <1>0, <2>1, RowsKept
  <2> QED
    BY <1>0, <2>1, <2>2 DEF StaleTypes, ProviderTypeOK, PrTypes, TalkTypes, ScanTypes, JobTypes
<1> QED
  BY <1>1, <1>2, <1>4, <1>5, <1>6, <1>7, <1>8, <1>9 DEF StaleNext

LEMMA StaleInvHolds == StaleSpec => []StaleInv
<1>1. StaleInit => StaleInv
  BY InitTypes DEF StaleInv, StaleInit, FreeInv, JobShape, Held, Alone, RowsFree, Busy, IdleJob
<1>2. StaleInv /\ [StaleNext]_staleVars => StaleInv'
  BY StepStaleTypes, StepFree DEF StaleInv
<1> QED
  BY <1>1, <1>2, PTL DEF StaleSpec

(* The timelines, the follow-up rows, the scans, the jobs and the          *)
(* providers' cooldowns keep their types: attempts stay within the budget, *)
(* and a row is running exactly while a pod works on it.                   *)
THEOREM MonitorTypes == StaleSpec => []StaleTypeOK
<1> QED
  BY StaleInvHolds, InvMeansTypes, PTL

(* A scan means to close a PR only when the last word on the HEAD it read  *)
(* is a request older than the threshold, and when a person or a commit    *)
(* came after it only if that request is itself a follow-up, whatever      *)
(* shares a second, is pushed back, is scanned twice or fails.             *)
THEOREM FollowUpCloses == StaleSpec => AnsweredIsClosedOnFollowUp
<1> DEFINE Closing ==
      \A s \in Pods : scan[s].on = NoKey /\ scan'[s].on # NoKey =>
        LET on == scan'[s].on
        IN  on[3] = 0 => \E i \in 1..aged[on[1]] :
              /\ LastWord(on[1], on[2], i)
              /\ CameAfter(on[1], i) => talk[on[1]][i].says \in FollowUps
<1>1. StaleInv /\ [StaleNext]_staleVars => [Closing]_staleVars
  <2> SUFFICES ASSUME StaleInv, StaleNext, NEW s \in Pods,
                      scan[s].on = NoKey, scan'[s].on # NoKey, scan'[s].on[3] = 0
               PROVE  LET on == scan'[s].on
                      IN  \E i \in 1..aged[on[1]] :
                            /\ LastWord(on[1], on[2], i)
                            /\ CameAfter(on[1], i) => talk[on[1]][i].says \in FollowUps
    OBVIOUS
  <2>0. ScanTypes /\ TalkTypes /\ PrTypes /\ DOMAIN scan = Pods
    BY DEF StaleInv, StaleTypes, ScanTypes
  <2>10. ASSUME NEW r \in Pods, NEW todo, GoTo(r, todo) PROVE FALSE
    <3>1. scan' = [scan EXCEPT ![r] = IF todo = {} THEN IdleScan
                   ELSE [IdleScan EXCEPT !.stage = "listing", !.todo = todo]]
      BY <2>10 DEF GoTo
    <3>2. scan'[s].on = NoKey
      BY <2>0, <3>1 DEF IdleScan
    <3> QED
      BY <3>2
  <2>1. PICK p \in Prs, h \in Heads : ReadTimeline(s, p, h)
    <3>1. scan' # scan
      OBVIOUS
    <3>2. IdleScan.on = NoKey
      BY DEF IdleScan
    <3>3. PICK r \in Pods : ScanStep(r) \/ ScanFails(r) \/ Crash(r)
      BY <3>1 DEF StaleNext, JobStep, Begin, AnswerConflict, WeighAnswer, Post, Answered,
        NotAnswered, NobodyAnswered, Deferred, JobFails, Stop, Tick, Outside, Age, HumanResponds,
        OtherJobWrites, Push, StatusChanges
    <3>4. ~(ScanFails(r) \/ Crash(r))
      BY <2>0, <3>2 DEF ScanFails, Crash
    <3>6. ~(StartScan(r) \/ QueueFollowUp(r) \/ ClosePr(r))
      BY <2>10 DEF StartScan, QueueFollowUp, ClosePr, NextInList
    <3>7. ~ReadStatus(r)
      <4>1. ASSUME NEW stage, scan' = [scan EXCEPT ![r].stage = stage] PROVE FALSE
        <5>1. scan[r] \in Scan
          BY <2>0 DEF ScanTypes
        <5>2. scan'[s].on = scan[s].on
          BY <2>0, <4>1, <5>1 DEF Scan
        <5> QED
          BY <5>2
      <4> QED
        BY <2>10, <4>1 DEF ReadStatus, NextInList
    <3>8. PICK p \in Prs, h \in Heads : ReadTimeline(r, p, h)
      BY <3>3, <3>4, <3>6, <3>7 DEF ScanStep
    <3>9. r = s
      <4>1. r # s => scan'[s] = scan[s]
        BY <2>0, <3>8 DEF ReadTimeline, GoTo
      <4> QED
        BY <4>1
    <3> QED
      BY <3>8, <3>9
  <2> DEFINE t == talk[p]
             i == Signal(t, h)
             n == ToFollowUp(t, i, pr[p].head)
  <2>2. /\ i \in 1..aged[p] /\ i \in States(t, h)
        /\ scan'[s].on = <<p, h, n>>
    <3>1. ~GoTo(s, scan[s].todo \ {<<p, h>>})
      BY <2>10
    <3> QED
      BY <2>0, <2>1, <3>1, TimelineRead
  <2>3. t \in Seq(Entry) /\ i # 0 /\ n = 0
    BY <2>0, <2>2 DEF TalkTypes, Talk
  <2>4. LastWord(p, h, i)
    <3>1. \A j \in States(t, h) : t[j].at \in Nat
      BY <2>3 DEF States, Entry, Stamps
    <3>2. \A j \in States(t, h) : t[j].at <= t[i].at
      BY <2>3, SignalIsLatest
    <3>3. \A j \in States(t, h) : t[j].at >= t[i].at => t[j].says # "settled"
      BY <2>3, SignalIsLatest
    <3> QED
      BY <2>2, <3>1, <3>2, <3>3 DEF LastWord
  <2>5. ASSUME CameAfter(p, i) PROVE t[i].says \in FollowUps
    <3>1. PICK j \in Responses(t, i, pr[p].head) : TRUE
      BY <2>5 DEF CameAfter, Responses
    <3>2. t[j].at \in Nat \ {0}
      BY <2>3, <3>1 DEF Responses, Entry, Stamps
    <3> QED
      BY <2>3, <3>1, <3>2, ResponseIsLast
  <2> QED
    BY <2>2, <2>4, <2>5
<1> QED
  BY <1>1, StaleInvHolds, PTL DEF StaleSpec, AnsweredIsClosedOnFollowUp
================================================================================
