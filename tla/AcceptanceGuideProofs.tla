----------------------- MODULE AcceptanceGuideProofs -----------------------
(***************************************************************************)
(* Theorems about AcceptanceGuide, for any rows, worker loops, items,      *)
(* pushes, check runs, events and faults: its types and locks; and, if one *)
(* standard loop serves the pull request and no status event comes while   *)
(* the guide is posted, that the check says in the end what the threads    *)
(* say, is no success over an open thread, and that no guide is lost.      *)
(***************************************************************************)
EXTENDS AcceptanceGuide, FiniteSetTheorems, NaturalsInduction, WellFoundedInduction, TLAPS

USE JobNumbers, GuideBounds

-----------------------------------------------------------------------------
(***************************************************************************)
(* Types, and who holds the turn and the lock.                             *)
(***************************************************************************)
LockHeld ==
  \A w \in Loops : task[w].at \in InLock =>
    serial[PodOf(w)] = w /\ (task[w].at \notin {"lock", "leave"} => lock = w)
Concluded ==
  \A c \in CheckIds : checks[c].status = "completed" <=> checks[c].conclusion # "none"

(* One handler moves, and stays one.                                       *)
MovesTo(w, t) ==
  /\ task' \in [Loops -> Task]
  /\ task'[w] = t
  /\ \A v \in Loops : v # w => task'[v] = task[v]

LEMMA MoveMoves ==
  ASSUME Types, NEW w \in Loops, NEW t \in Task, Move(w, t)
  PROVE  MovesTo(w, t)
BY DEF Types, Move, MovesTo

LEMMA TaskFields ==
  ASSUME Types, NEW w \in Loops
  PROVE  /\ task[w] \in Task /\ task[w].at \in Places /\ task[w].job \in Jobs \cup {0}
         /\ task[w].head \in Heads \cup {0} /\ task[w].check \in CheckIds \cup {0}
         /\ task[w].plan \in {"think", "closed", "conflict"}
         /\ task[w].items \in SUBSET Items /\ task[w].posted \in SUBSET Items
         /\ task[w].broken \in BOOLEAN /\ task[w].inconclusive \in BOOLEAN
         /\ task[w].markers \in SUBSET Marks /\ task[w].read \in [Items -> ThreadState]
         /\ task[w].latest \in Check
BY DEF Types, Task

LEMMA GoMoves ==
  ASSUME Types, NEW w \in Loops, NEW at \in Places, Go(w, at)
  PROVE  MovesTo(w, [task[w] EXCEPT !.at = at])
<1>1. [task[w] EXCEPT !.at = at] \in Task
  BY TaskFields DEF Task
<1>2. QED
  BY <1>1, MoveMoves DEF Go

(* Every place a handler can go to is one.                                 *)
LEMMA AllPlaces ==
  {"idle", "returned", "threw", "create", "post", "abort", "turn", "marker", "context",
   "target", "find", "join", "record", "ignore", "closed", "conflict", "demand", "insist",
   "think", "current", "publish", "conclude", "cancel", "lock", "pull", "publication",
   "threads", "checks", "reread", "write", "leave"} = Places
BY DEF Places, BeforeTry, InTry, InLock

LEMMA InitTypes == Init => TypeOK
<1> SUFFICES ASSUME Init PROVE TypeOK
  OBVIOUS
<1>1. Idle \in Task /\ NoCheck \in Check
  BY DEF Idle, Task, Places, NoCheck, NoOutput, Check, Conclusion, Reason, ThreadState, Marks
<1>2. Types
  BY <1>1 DEF Init, Types, Queue!Init, NewRow, Row, Heads, ThreadState, Marks
<1>3. QED
  BY <1>2 DEF TypeOK, Init, Idle, InLock, NoCheck

(* The local variables a handler sets together.                            *)
LEMMA SetAt ==
  ASSUME NEW t \in Task, NEW at \in Places
  PROVE  [t EXCEPT !.at = at] \in Task
BY DEF Task

LEMMA SetTarget ==
  ASSUME NEW t \in Task, NEW at \in Places, NEW h \in Heads,
         NEW plan \in {"think", "closed", "conflict"}
  PROVE  [t EXCEPT !.at = at, !.head = h, !.plan = plan] \in Task
BY DEF Task

LEMMA SetHead ==
  ASSUME NEW t \in Task, NEW at \in Places, NEW h \in Heads
  PROVE  [t EXCEPT !.at = at, !.head = h] \in Task
BY DEF Task

LEMMA SetCheck ==
  ASSUME NEW t \in Task, NEW at \in Places, NEW c \in CheckIds \cup {0}
  PROVE  [t EXCEPT !.at = at, !.check = c] \in Task
BY DEF Task

LEMMA SetItems ==
  ASSUME NEW t \in Task, NEW at \in Places, NEW S \in SUBSET Items
  PROVE  [t EXCEPT !.at = at, !.items = S] \in Task
BY DEF Task

LEMMA SetInconclusive ==
  ASSUME NEW t \in Task, NEW at \in Places
  PROVE  [t EXCEPT !.at = at, !.inconclusive = TRUE] \in Task
BY DEF Task

LEMMA SetBroken ==
  ASSUME NEW t \in Task, NEW at \in Places
  PROVE  [t EXCEPT !.at = at, !.broken = TRUE] \in Task
BY DEF Task

LEMMA SetMarkers ==
  ASSUME NEW t \in Task, NEW at \in Places, NEW M \in SUBSET Marks
  PROVE  [t EXCEPT !.at = at, !.markers = M] \in Task
BY DEF Task

LEMMA SetRead ==
  ASSUME NEW t \in Task, NEW at \in Places, NEW r \in [Items -> ThreadState]
  PROVE  [t EXCEPT !.at = at, !.read = r] \in Task
BY DEF Task

LEMMA SetLatest ==
  ASSUME NEW t \in Task, NEW at \in Places, NEW c \in CheckIds \cup {0}, NEW k \in Check
  PROVE  [t EXCEPT !.at = at, !.check = c, !.latest = k] \in Task
BY DEF Task

(* The threads a guide has tried to post.                                  *)
LEMMA NewPosted ==
  ASSUME NEW t \in Task, NEW S \in SUBSET Items
  PROVE  /\ [t EXCEPT !.posted = S] \in Task
         /\ [t EXCEPT !.posted = S, !.broken = TRUE] \in Task
<1>1. [t EXCEPT !.posted = S] \in Task
  BY DEF Task
<1>2. [t EXCEPT !.posted = S, !.broken = TRUE] \in Task
  BY DEF Task
<1>3. QED
  BY <1>1, <1>2

(* The newest check run of a HEAD that has one.                            *)
Newest(c, h) == c \in OfHead(h) /\ \A d \in OfHead(h) : d <= c

LEMMA GreatestExists ==
  ASSUME NEW S \in SUBSET CheckIds, S # {}
  PROVE  \E c \in S : \A d \in S : d <= c
<1> DEFINE Gaps == {MaxChecks - c : c \in S}
<1>1. Gaps \in SUBSET Nat /\ Gaps # {}
  <2>1. \A c \in S : MaxChecks - c \in Nat
    BY DEF CheckIds
  <2>2. QED
    BY <2>1
<1>2. PICK g \in Gaps : \A n \in Gaps : ~ (<<n, g>> \in OpToRel(<, Nat))
  BY <1>1, NatLessThanWellFounded, WFMin
<1>3. PICK c \in S : g = MaxChecks - c
  BY <1>2
<1>4. ASSUME NEW d \in S PROVE d <= c
  <2>1. MaxChecks - d \in Gaps /\ MaxChecks - d \in Nat /\ g \in Nat
    BY <1>1, <1>2
  <2>2. ~ (<<MaxChecks - d, g>> \in OpToRel(<, Nat))
    BY <1>2, <2>1
  <2>3. <<MaxChecks - d, g>>[1] = MaxChecks - d /\ <<MaxChecks - d, g>>[2] = g
    OBVIOUS
  <2>4. ~ (MaxChecks - d < g)
    BY <2>1, <2>2, <2>3 DEF OpToRel
  <2>5. QED
    BY <1>3, <2>4 DEF CheckIds
<1>5. QED
  BY <1>3, <1>4

LEMMA LatestIsNewest ==
  ASSUME NEW h, OfHead(h) # {}
  PROVE  Newest(LatestOf(h), h)
<1>1. OfHead(h) \in SUBSET CheckIds
  BY DEF OfHead
<1>2. \E c \in OfHead(h) : \A d \in OfHead(h) : d <= c
  BY <1>1, GreatestExists
<1>3. QED
  BY <1>2 DEF LatestOf, Newest

(* What one step of a handler, or one failure of a call, writes.           *)
Others(w) == \A v \in Loops : v # w => task'[v] = task[v]
Moved(w) == task' \in [Loops -> Task] /\ Others(w)

LEMMA ReadingMoves ==
  ASSUME Types, NEW w \in Loops,
         \/ Marker(w) \/ Context(w) \/ Find(w) \/ ClosedContext(w) \/ ConflictContext(w)
         \/ NoCriteria(w) \/ Current(w) \/ NoPath(w) \/ Ignore(w)
  PROVE  Moved(w) /\ Reads
<1>0. /\ \A t \in Task : Move(w, t) => Moved(w)
      /\ \A at \in Places : Go(w, at) => Moved(w)
  BY MoveMoves, GoMoves DEF Moved, Others, MovesTo
<1>1. CASE Marker(w)
  BY <1>0, <1>1, AllPlaces DEF Marker
<1>2. CASE Context(w)
  <2>1. pull.head \in Heads
    BY DEF Types
  <2>2. ASSUME NEW plan \in {"think", "closed", "conflict"}
        PROVE  [task[w] EXCEPT !.at = "target", !.head = pull.head, !.plan = plan] \in Task
    BY <2>1, TaskFields, AllPlaces, SetTarget
  <2>3. QED
    BY <1>0, <1>2, <2>2, AllPlaces DEF Context
<1>3. CASE Find(w)
  <2>1. ASSUME NEW i \in GuideJobs PROVE row[i].check \in CheckIds \cup {0}
    BY DEF Types, Row
  <2>2. /\ [task[w] EXCEPT !.at = "returned"] \in Task
        /\ [task[w] EXCEPT !.at = "create"] \in Task
        /\ [task[w] EXCEPT !.at = task[w].plan] \in Task
    BY TaskFields, AllPlaces, SetAt
  <2>4. ASSUME NEW i \in GuideJobs
        PROVE  [task[w] EXCEPT !.at = "join", !.check = row[i].check] \in Task
    BY <2>1, TaskFields, AllPlaces, SetCheck
  <2>3. QED
    BY <1>0, <1>3, <2>2, <2>4 DEF Find, Tracked
<1>4. CASE ClosedContext(w)
  BY <1>0, <1>4, AllPlaces DEF ClosedContext
<1>5. CASE ConflictContext(w)
  BY <1>0, <1>5, AllPlaces DEF ConflictContext
<1>6. CASE NoCriteria(w)
  <2>1. ASSUME NEW i \in Items
        PROVE  [task[w] EXCEPT !.at = "publish", !.items = {i}] \in Task
    <3>1. {i} \in SUBSET Items
      OBVIOUS
    <3>2. QED
      BY <3>1, TaskFields, AllPlaces, SetItems
  <2>2. QED
    BY <1>0, <1>6, <2>1 DEF NoCriteria
<1>7. CASE Current(w)
  BY <1>0, <1>7, AllPlaces DEF Current
<1>8. CASE NoPath(w)
  <2>1. [task[w] EXCEPT !.posted = task[w].items, !.broken = TRUE] \in Task
    BY TaskFields, NewPosted
  <2>2. QED
    BY <1>0, <1>8, <2>1 DEF NoPath
<1>9. CASE Ignore(w)
  BY <1>0, <1>9, AllPlaces DEF Ignore
<1>10. QED
  BY <1>1, <1>2, <1>3, <1>4, <1>5, <1>6, <1>7, <1>8, <1>9

LEMMA ReconcilerMoves ==
  ASSUME Types, NEW w \in Loops,
         \/ ReadPull(w) \/ ReadPublication(w) \/ ReadThreads(w) \/ ReadChecks(w) \/ Reread(w)
  PROVE  Moved(w) /\ Reads
<1>0. /\ \A t \in Task : Move(w, t) => Moved(w)
      /\ \A at \in Places : Go(w, at) => Moved(w)
  BY MoveMoves, GoMoves DEF Moved, Others, MovesTo
<1>1. Throws(w) => Moved(w)
  BY <1>0, TaskFields, AllPlaces, SetBroken DEF Throws
<1>2. CASE ReadPull(w)
  <2>1. pull.head \in Heads
    BY DEF Types
  <2>2. ASSUME NEW at \in {"publication", "leave"}
        PROVE  [task[w] EXCEPT !.at = at, !.head = pull.head] \in Task
    BY <2>1, TaskFields, AllPlaces, SetHead
  <2>3. QED
    BY <1>0, <1>2, <2>2 DEF ReadPull
<1>3. CASE ReadPublication(w)
  <2> DEFINE M == (IF Published THEN {"published"} ELSE {}) \cup (notes \cap {"incomplete"})
  <2>1. M \in SUBSET Marks
    BY DEF Marks
  <2>2. [task[w] EXCEPT !.at = "threads", !.markers = M] \in Task
    BY <2>1, TaskFields, AllPlaces, SetMarkers
  <2>3. QED
    BY <1>0, <1>3, <2>2 DEF ReadPublication
<1>4. CASE ReadThreads(w)
  <2>1. thread \in [Items -> ThreadState]
    BY DEF Types
  <2>2. [task[w] EXCEPT !.at = "checks", !.read = thread] \in Task
    BY <2>1, TaskFields, AllPlaces, SetRead
  <2>3. QED
    BY <1>0, <1>1, <1>4, <2>2 DEF ReadThreads
<1>5. CASE ReadChecks(w)
  <2>1. NoCheck \in Check /\ \A c \in CheckIds : checks[c] \in Check
    BY DEF Types, NoCheck, NoOutput, Check, Conclusion, Reason
  <2>2. CASE OfHead(task[w].head) = {}
    <3>1. [task[w] EXCEPT !.at = "reread", !.check = 0, !.latest = NoCheck] \in Task
      BY <2>1, TaskFields, AllPlaces, SetLatest
    <3>2. QED
      BY <1>0, <1>5, <2>2, <3>1 DEF ReadChecks
  <2>3. CASE OfHead(task[w].head) # {}
    <3> DEFINE c == LatestOf(task[w].head)
    <3>1. c \in CheckIds
      BY <2>3, LatestIsNewest DEF Newest, OfHead
    <3>2. [task[w] EXCEPT !.at = "reread", !.check = c, !.latest = checks[c]] \in Task
      BY <2>1, <3>1, TaskFields, AllPlaces, SetLatest
    <3>3. QED
      BY <1>0, <1>5, <2>3, <3>2 DEF ReadChecks
  <2>4. QED
    BY <2>2, <2>3
<1>6. CASE Reread(w)
  BY <1>0, <1>1, <1>6, AllPlaces DEF Reread
<1>7. QED
  BY <1>2, <1>3, <1>4, <1>5, <1>6 DEF ReadPull, ReadPublication, ReadThreads, ReadChecks, Reread

(* The check run that a step writes: one it follows, or a new one.         *)
Written(k) == /\ k \in Check /\ k.status # "absent"
              /\ k.status = "completed" <=> k.conclusion # "none"
Rewrites(w, c, k) ==
  /\ c \in CheckIds /\ Written(k)
  /\ checks' = [checks EXCEPT ![c] = k]
  /\ \/ c = task[w].check /\ k.head \in {checks[c].head, task[w].head}
     \/ Unused(c) /\ k.head = task[w].head

LEMMA ReopenedRewrites ==
  ASSUME Types, NEW w \in Loops, checks' = Reopened(task[w].check)
  PROVE  \/ task[w].check = 0 /\ checks' = checks
         \/ /\ task[w].check # 0
            /\ \E k : /\ Rewrites(w, task[w].check, k) /\ k.conclusion = "none"
                      /\ k.head = checks[task[w].check].head
<1> DEFINE c == task[w].check
           k == [checks[c] EXCEPT !.status = "in_progress", !.conclusion = "none",
                                  !.output = NoOutput]
<1>1. CASE c = 0
  BY <1>1 DEF Reopened
<1>2. CASE c # 0
  <2>1. c \in CheckIds /\ checks[c] \in Check
    BY <1>2, TaskFields DEF Types
  <2>2. k \in Check /\ k.head = checks[c].head /\ k.status = "in_progress" /\ k.conclusion = "none"
    BY <2>1 DEF Check, Conclusion, NoOutput, Reason
  <2>3. checks' = [checks EXCEPT ![c] = k]
    BY <1>2, <2>1 DEF Reopened, Types
  <2>4. QED
    BY <1>2, <2>1, <2>2, <2>3 DEF Rewrites, Written
<1>3. QED
  BY <1>1, <1>2

LEMMA ReportedIsCheck ==
  ASSUME NEW h \in Heads \cup {0}, NEW con \in Conclusion \ {"none"},
         NEW reason \in Reason, NEW m \in Nat, NEW n \in Nat
  PROVE  /\ Written(Report(h, con, <<reason, m, n>>))
         /\ Report(h, con, <<reason, m, n>>).head = h
         /\ Report(h, con, <<reason, m, n>>).conclusion = con
         /\ Report(h, con, <<reason, m, n>>).status = "completed"
BY DEF Report, Written, Check

LEMMA OutcomeType ==
  ASSUME NEW w PROVE Outcome(w) \in Conclusion \ {"none"}
BY DEF Outcome, OutcomeOfGuide, Conclusion

LEMMA ConcludesRewrites ==
  ASSUME Types, NEW w \in Loops, Concludes(w)
  PROVE  \/ task[w].check = 0 /\ checks' = checks
         \/ /\ task[w].check # 0
            /\ \E k : /\ Rewrites(w, task[w].check, k) /\ k.conclusion = Outcome(w)
                      /\ k.status = "completed" /\ k.head = checks[task[w].check].head
<1> DEFINE c == task[w].check
           k == Report(checks[c].head, Outcome(w), <<"guide", 0, 0>>)
<1>1. CASE c = 0
  BY <1>1 DEF Concludes, Updates
<1>2. CASE c # 0
  <2>1. c \in CheckIds /\ checks[c] \in Check
    BY <1>2, TaskFields DEF Types
  <2>2. checks[c].head \in Heads \cup {0} /\ "guide" \in Reason
    BY <2>1 DEF Check, Reason
  <2>3. /\ Written(k) /\ k.head = checks[c].head /\ k.conclusion = Outcome(w)
        /\ k.status = "completed"
    BY <2>2, OutcomeType, ReportedIsCheck
  <2>4. checks' = [checks EXCEPT ![c] = k]
    BY <1>2, <2>1 DEF Concludes, Updates, Types
  <2> HIDE DEF k
  <2>5. QED
    BY <1>2, <2>1, <2>3, <2>4 DEF Rewrites
<1>3. QED
  BY <1>1, <1>2

LEMMA CreatesRewrites ==
  ASSUME Types, NEW w \in Loops, NEW c \in CheckIds, Creates(w, c)
  PROVE  /\ Unused(c)
         /\ \E k : /\ Rewrites(w, c, k) /\ k.conclusion = "none" /\ k.head = task[w].head
<1> DEFINE k == [NoCheck EXCEPT !.head = task[w].head, !.status = "in_progress"]
<1>1. /\ k \in Check /\ k.head = task[w].head /\ k.status = "in_progress"
      /\ k.conclusion = "none"
  BY TaskFields DEF NoCheck, NoOutput, Check, Conclusion, Reason
<1>2. checks' = [checks EXCEPT ![c] = k] /\ Unused(c)
  BY DEF Creates, Updates
<1> HIDE DEF k
<1>3. QED
  BY <1>1, <1>2 DEF Rewrites, Written

LEMMA InStateType ==
  ASSUME NEW read, NEW how PROVE InState(read, how) \in Nat
<1>1. IsFiniteSet({i \in Items : read[i] = how})
  BY ItemNumbers, FS_Subset
<1>2. QED
  BY <1>1, FS_CardinalityType DEF InState

(* What a reconciler finds is to be done exactly if a thread is open, once *)
(* the guide is out.                                                       *)
SeesOpen(w) == \E i \in Items : task[w].read[i] = "open"

LEMMA FindingsSay ==
  ASSUME Types, NEW w \in Loops
  PROVE  LET k == Findings(w) IN
         /\ Written(k) /\ k.head = task[w].head /\ k.status = "completed"
         /\ "published" \in task[w].markers => (k.conclusion = "action_required" <=> SeesOpen(w))
         /\ k.conclusion = "success" => ~SeesOpen(w)
<1> DEFINE open == InState(task[w].read, "open")
           done == InState(task[w].read, "resolved")
           S == {i \in Items : task[w].read[i] = "open"}
<1>1. open \in Nat /\ done \in Nat /\ task[w].head \in Heads \cup {0}
  BY InStateType, TaskFields
<1>2. open > 0 <=> SeesOpen(w)
  <2>1. IsFiniteSet(S)
    BY ItemNumbers, FS_Subset
  <2>2. Cardinality(S) = 0 <=> S = {}
    BY <2>1, FS_EmptySet
  <2>3. open = Cardinality(S)
    BY DEF InState
  <2>4. QED
    BY <1>1, <2>2, <2>3 DEF SeesOpen
<1>3. /\ {"action_required", "neutral", "success"} \subseteq Conclusion \ {"none"}
      /\ {"GUIDE_NOT_PUBLISHED", "UNRESOLVED_GUIDE_THREADS", "GUIDE_PUBLICATION_INCOMPLETE",
          "GUIDE_THREADS_RESOLVED"} \subseteq Reason
  BY DEF Conclusion, Reason
<1> HIDE DEF open, done
<1>4. CASE "published" \notin task[w].markers
  <2>1. Findings(w) = Report(task[w].head, "action_required", <<"GUIDE_NOT_PUBLISHED", 0, 0>>)
    BY <1>4 DEF Findings
  <2>2. QED
    BY <1>1, <1>3, <1>4, <2>1, ReportedIsCheck
<1>5. CASE "published" \in task[w].markers /\ open > 0
  <2>1. Findings(w) = Report(task[w].head, "action_required",
                             <<"UNRESOLVED_GUIDE_THREADS", open, done>>)
    BY <1>5 DEF Findings, open, done
  <2>2. QED
    BY <1>1, <1>2, <1>3, <1>5, <2>1, ReportedIsCheck
<1>6. CASE "published" \in task[w].markers /\ ~(open > 0) /\ "incomplete" \in task[w].markers
  <2>1. Findings(w) = Report(task[w].head, "neutral", <<"GUIDE_PUBLICATION_INCOMPLETE", 0, 0>>)
    BY <1>6 DEF Findings, open, done
  <2>2. QED
    BY <1>1, <1>2, <1>3, <1>6, <2>1, ReportedIsCheck
<1>7. CASE "published" \in task[w].markers /\ ~(open > 0) /\ "incomplete" \notin task[w].markers
  <2>1. Findings(w) = Report(task[w].head, "success", <<"GUIDE_THREADS_RESOLVED", 0, done>>)
    BY <1>7 DEF Findings, open, done
  <2>2. QED
    BY <1>1, <1>2, <1>3, <1>7, <2>1, ReportedIsCheck
<1>8. QED
  BY <1>4, <1>5, <1>6, <1>7

LEMMA WritesRewrites ==
  ASSUME Types, NEW w \in Loops, Writes(w)
  PROVE  \E c \in CheckIds :
           /\ Rewrites(w, c, Findings(w))
           /\ IF task[w].check = 0 THEN Unused(c) ELSE c = task[w].check
<1>1. Written(Findings(w)) /\ Findings(w).head = task[w].head
  BY FindingsSay
<1>2. task[w].check # 0 => task[w].check \in CheckIds
  BY TaskFields
<1>3. QED
  BY <1>1, <1>2 DEF Writes, Updates, Rewrites

-----------------------------------------------------------------------------
(***************************************************************************)
(* A step of a loop at work: what it writes, and where it goes.            *)
(***************************************************************************)
StepOf(w) == (Handler(w) /\ UNCHANGED faults) \/ Fails(w)

TakesTurn(w) ==
  /\ StandsAt(w, "turn") /\ serial[PodOf(w)] = Nobody
  /\ serial' = [serial EXCEPT ![PodOf(w)] = w]
  /\ UNCHANGED <<queueVars, row, github, lock>>
TakesLock(w) ==
  /\ StandsAt(w, "lock") /\ lock = Nobody /\ lock' = w
  /\ UNCHANGED <<queueVars, row, github, serial>>

Effect(w) ==
  \/ Reads
  \/ StandsAt(w, "target") /\ RecordsTarget(w)
  \/ StandsAt(w, "record") /\ RecordsCheck(w)
  \/ task[w].at \in {"join", "think"} /\ Updates(Reopened(task[w].check))
  \/ StandsAt(w, "create") /\ \E c \in CheckIds : Creates(w, c)
  \/ Demands(w)
  \/ \E i \in Items : PostsThread(w, i)
  \/ PostsSummary(w)
  \/ Concludes(w)
  \/ TakesTurn(w)
  \/ TakesLock(w)
  \/ Writes(w)
  \/ Leaves(w)

(* A failing call is counted, and only changes the place of the handler    *)
(* and whether its run is broken.                                          *)
Stumbles(w) ==
  /\ faults' = [faults EXCEPT !.errors = @ + 1]
  /\ \/ \E at \in {"threw", "abort"} : Go(w, at)
     \/ Throws(w)
     \/ \E i \in Items : Move(w, [task[w] EXCEPT !.posted = @ \cup {i}, !.broken = TRUE])
     \/ Move(w, Tracked(task[w]))

LEMMA FailsStumbles ==
  ASSUME NEW w \in Loops, Fails(w)
  PROVE  Effect(w) /\ Stumbles(w)
<1>1. faults' = [faults EXCEPT !.errors = @ + 1]
  BY DEF Fails, CountError
<1>2. CASE CallFails(w)
  <2>1. Effect(w)
    BY <1>2 DEF CallFails, Effect, Reads, CarriedOut, StandsAt
  <2>2. Stumbles(w)
    BY <1>1, <1>2 DEF CallFails, Stumbles, Thrown
  <2>3. QED
    BY <2>1, <2>2
<1>3. CASE CreateFails(w)
  BY <1>1, <1>3 DEF CreateFails, Effect, Reads, Stumbles
<1>4. CASE LeaveFails(w)
  BY <1>1, <1>4 DEF LeaveFails, Effect, Stumbles
<1>5. CASE \E i \in Items : PostFails(w, i)
  BY <1>1, <1>5 DEF PostFails, Effect, Reads, Stumbles
<1>6. QED
  BY <1>2, <1>3, <1>4, <1>5 DEF Fails

LEMMA FailsMoves ==
  ASSUME Types, NEW w \in Loops, Stumbles(w)
  PROVE  Moved(w)
<1>0. /\ \A t \in Task : Move(w, t) => Moved(w)
      /\ \A at \in Places : Go(w, at) => Moved(w)
  BY MoveMoves, GoMoves DEF Moved, Others, MovesTo
<1>1. "threw" \in Places /\ "abort" \in Places /\ "leave" \in Places
  BY AllPlaces
<1>2. Throws(w) => Moved(w)
  BY <1>0, <1>1, TaskFields, SetBroken DEF Throws
<1>3. ASSUME NEW i \in Items
      PROVE  [task[w] EXCEPT !.posted = @ \cup {i}, !.broken = TRUE] \in Task
  <2>1. task[w].posted \cup {i} \in SUBSET Items
    BY TaskFields
  <2>2. QED
    BY <2>1, TaskFields, NewPosted
<1>4. Tracked(task[w]) \in Task
  BY TaskFields, AllPlaces, SetAt DEF Tracked
<1>5. QED
  BY <1>0, <1>1, <1>2, <1>3, <1>4 DEF Stumbles

LEMMA HandlerMoves ==
  ASSUME Types, NEW w \in Loops, Handler(w)
  PROVE  Moved(w) /\ Effect(w)
<1>0. /\ \A t \in Task : Move(w, t) => Moved(w)
      /\ \A at \in Places : Go(w, at) => Moved(w)
  BY MoveMoves, GoMoves DEF Moved, Others, MovesTo
<1>1. CASE \/ Marker(w) \/ Context(w) \/ Find(w) \/ ClosedContext(w) \/ ConflictContext(w)
           \/ NoCriteria(w) \/ Current(w) \/ NoPath(w) \/ Ignore(w)
  BY <1>1, ReadingMoves DEF Effect
<1>2. CASE \/ ReadPull(w) \/ ReadPublication(w) \/ ReadThreads(w) \/ ReadChecks(w) \/ Reread(w)
  BY <1>2, ReconcilerMoves DEF Effect
<1>3. CASE Target(w) \/ Join(w) \/ Demand(w) \/ PostSummary(w) \/ Conclude(w) \/ Write(w)
           \/ Leave(w)
  <2>1. {"find", "returned", "insist", "conclude", "threw", "leave"} \subseteq Places
    BY AllPlaces
  <2>2. Moved(w)
    BY <1>0, <1>3, <2>1 DEF Target, Join, Demand, PostSummary, Conclude, Write, Leave
  <2>3. Effect(w)
    BY <1>3 DEF Target, Join, Demand, PostSummary, Conclude, Write, Leave, Effect, StandsAt
  <2>4. QED
    BY <2>2, <2>3
<1>4. CASE Record(w)
  <2>1. Tracked(task[w]) \in Task
    BY TaskFields, AllPlaces, SetAt DEF Tracked
  <2>2. QED
    BY <1>0, <1>4, <2>1 DEF Record, Effect
<1>5. CASE Create(w)
  <2>1. ASSUME NEW c \in CheckIds
        PROVE  [task[w] EXCEPT !.at = "record", !.check = c] \in Task
    BY TaskFields, AllPlaces, SetCheck
  <2>2. QED
    BY <1>0, <1>5, <2>1 DEF Create, Effect
<1>6. CASE Think(w)
  <2>1. /\ \A S \in SUBSET Items : [task[w] EXCEPT !.at = "current", !.items = S] \in Task
        /\ [task[w] EXCEPT !.at = "current", !.inconclusive = TRUE] \in Task
    BY TaskFields, AllPlaces, SetItems, SetInconclusive
  <2>2. QED
    BY <1>0, <1>6, <2>1 DEF Think, Effect, StandsAt
<1>7. CASE \E i \in Items : PostThread(w, i)
  <2>1. ASSUME NEW i \in Items
        PROVE  [task[w] EXCEPT !.posted = @ \cup {i}] \in Task
    <3>1. task[w].posted \cup {i} \in SUBSET Items
      BY TaskFields
    <3>2. QED
      BY <3>1, TaskFields, NewPosted
  <2>2. QED
    BY <1>0, <1>7, <2>1 DEF PostThread, Effect
<1>8. CASE Turn(w)
  BY <1>0, <1>8, AllPlaces DEF Turn, Effect, TakesTurn
<1>9. CASE GetLock(w)
  BY <1>0, <1>9, AllPlaces DEF GetLock, LockTaken, Effect, TakesLock
<1>10. QED
  BY <1>1, <1>2, <1>3, <1>4, <1>5, <1>6, <1>7, <1>8, <1>9 DEF Handler

LEMMA StepMoves ==
  ASSUME Types, NEW w \in Loops, StepOf(w)
  PROVE  Moved(w) /\ Effect(w)
BY HandlerMoves, FailsStumbles, FailsMoves DEF StepOf

(* From where to where.                                                    *)
Edge(a, b) ==
  /\ a = "marker" => b \in {"turn", "context", "threw"}
  /\ a = "context" => b \in {"returned", "target", "threw"}
  /\ a = "target" => b \in {"find", "threw"}
  /\ a = "find" => b \in {"returned", "join", "create", "think", "closed", "conflict", "threw"}
  /\ a = "join" => b \in {"returned", "threw"}
  /\ a = "create" => b \in {"record", "think", "closed", "conflict"}
  /\ a = "record" => b \in {"think", "closed", "conflict", "threw"}
  /\ a = "closed" => b \in {"cancel", "returned", "abort"}
  /\ a = "conflict" => b \in {"cancel", "demand", "abort"}
  /\ a = "demand" => b \in {"insist", "abort"}
  /\ a = "think" => b \in {"current", "publish", "abort"}
  /\ a = "current" => b \in {"cancel", "publish", "abort"}
  /\ a = "publish" => b \in {"cancel", "post", "abort"}
  /\ a = "post" => b \in {"post", "conclude", "abort"}
  /\ a \in {"conclude", "insist", "cancel"} => b \in {"returned", "abort"}
  /\ a = "abort" => b = "threw"
  /\ a = "ignore" => b \in {"turn", "returned", "threw"}
  /\ a = "turn" => b = "lock"
  /\ a = "lock" => b \in {"pull", "leave"}
  /\ a = "pull" => b \in {"publication", "leave"}
  /\ a = "publication" => b \in {"threads", "leave"}
  /\ a = "threads" => b \in {"checks", "leave"}
  /\ a = "checks" => b \in {"reread", "leave"}
  /\ a = "reread" => b \in {"write", "leave"}
  /\ a = "write" => b = "leave"
  /\ a = "leave" => b \in {"threw", "returned"}
  /\ a \notin {"idle", "returned", "threw"}

(* What changes of the local variables, and where.                         *)
Changes(t, u, h) ==
  /\ Edge(t.at, u.at)
  /\ u.job = t.job
  /\ u.head = t.head \/ (u.head = h /\ t.at \in {"context", "pull"})
  /\ u.at \in {"target", "publication"} => u.head = h
  /\ u.check = t.check \/ t.at \in {"find", "create", "checks"}
  /\ u.plan = t.plan \/ t.at = "context"
  /\ (u.items = t.items /\ u.inconclusive = t.inconclusive) \/ t.at = "think"
  /\ u.posted = t.posted \/ t.at = "post"
  /\ u.broken = t.broken \/ t.at = "post" \/ u.at = "leave"
  /\ u.markers = t.markers \/ t.at = "publication"
  /\ u.read = t.read \/ t.at = "threads"
  /\ u.latest = t.latest \/ t.at = "checks"
Local(w) == Changes(task[w], task'[w], pull.head)

LEMMA LocalOfMove ==
  ASSUME Types, NEW w \in Loops, NEW t, Move(w, t)
  PROVE  task'[w] = t
BY DEF Types, Move

LEMMA AtChanges ==
  ASSUME NEW h, NEW t \in Task, NEW at, Edge(t.at, at), at \notin {"target", "publication"}
  PROVE  Changes(t, [t EXCEPT !.at = at], h)
BY DEF Changes, Task

LEMMA BrokenChanges ==
  ASSUME NEW h, NEW t \in Task, Edge(t.at, "leave")
  PROVE  Changes(t, [t EXCEPT !.at = "leave", !.broken = TRUE], h)
BY DEF Changes, Task

LEMMA ContextChanges ==
  ASSUME NEW t \in Task, NEW h, NEW plan, t.at = "context"
  PROVE  Changes(t, [t EXCEPT !.at = "target", !.head = h, !.plan = plan], h)
BY DEF Changes, Task, Edge

LEMMA JoinChanges ==
  ASSUME NEW h, NEW t \in Task, NEW c, t.at = "find"
  PROVE  Changes(t, [t EXCEPT !.at = "join", !.check = c], h)
BY DEF Changes, Task, Edge

LEMMA CreateChanges ==
  ASSUME NEW h, NEW t \in Task, NEW c, t.at = "create"
  PROVE  Changes(t, [t EXCEPT !.at = "record", !.check = c], h)
BY DEF Changes, Task, Edge

LEMMA ItemsChange ==
  ASSUME NEW h, NEW t \in Task, NEW S, NEW at \in {"current", "publish"}, t.at = "think"
  PROVE  /\ Changes(t, [t EXCEPT !.at = at, !.items = S], h)
         /\ Changes(t, [t EXCEPT !.at = at, !.inconclusive = TRUE], h)
BY DEF Changes, Task, Edge

LEMMA PostedChanges ==
  ASSUME NEW h, NEW t \in Task, NEW S, t.at = "post"
  PROVE  /\ Changes(t, [t EXCEPT !.posted = S], h)
         /\ Changes(t, [t EXCEPT !.posted = S, !.broken = TRUE], h)
BY DEF Changes, Task, Edge

LEMMA HeadChanges ==
  ASSUME NEW t \in Task, NEW h, NEW at \in {"publication", "leave"}, t.at = "pull"
  PROVE  Changes(t, [t EXCEPT !.at = at, !.head = h], h)
BY DEF Changes, Task, Edge

LEMMA MarkersChange ==
  ASSUME NEW h, NEW t \in Task, NEW M, t.at = "publication"
  PROVE  Changes(t, [t EXCEPT !.at = "threads", !.markers = M], h)
BY DEF Changes, Task, Edge

LEMMA ReadChanges ==
  ASSUME NEW h, NEW t \in Task, NEW r, t.at = "threads"
  PROVE  Changes(t, [t EXCEPT !.at = "checks", !.read = r], h)
BY DEF Changes, Task, Edge

LEMMA LatestChanges ==
  ASSUME NEW h, NEW t \in Task, NEW c, NEW k, t.at = "checks"
  PROVE  Changes(t, [t EXCEPT !.at = "reread", !.check = c, !.latest = k], h)
BY DEF Changes, Task, Edge

LEMMA GoLocal ==
  ASSUME Types, NEW w \in Loops, NEW at, Go(w, at), Edge(task[w].at, at),
         at \notin {"target", "publication"}
  PROVE  Local(w)
<1>1. task'[w] = [task[w] EXCEPT !.at = at] /\ task[w] \in Task
  BY LocalOfMove, TaskFields DEF Go
<1>2. Changes(task[w], [task[w] EXCEPT !.at = at], pull.head)
  BY <1>1, AtChanges
<1>3. QED
  BY <1>1, <1>2 DEF Local

LEMMA ThrowsLocal ==
  ASSUME Types, NEW w \in Loops, Throws(w), task[w].at \in InLock \ {"leave"}
  PROVE  Local(w)
<1>1. Edge(task[w].at, "leave")
  BY DEF InLock, Edge
<1>2. Changes(task[w], [task[w] EXCEPT !.at = "leave", !.broken = TRUE], pull.head)
  BY <1>1, TaskFields, BrokenChanges
<1>3. task'[w] = [task[w] EXCEPT !.at = "leave", !.broken = TRUE]
  BY LocalOfMove DEF Throws
<1>4. QED
  BY <1>2, <1>3 DEF Local

LEMMA TrackedLocal ==
  ASSUME Types, NEW w \in Loops, Move(w, Tracked(task[w])), task[w].at \in {"find", "create", "record"}
  PROVE  Local(w)
<1>1. task'[w] = [task[w] EXCEPT !.at = task[w].plan]
  BY LocalOfMove DEF Tracked
<1>2. task[w] \in Task /\ Edge(task[w].at, task[w].plan)
  BY TaskFields DEF Edge
<1>3. Changes(task[w], [task[w] EXCEPT !.at = task[w].plan], pull.head)
  BY <1>2, TaskFields, AtChanges
<1>4. QED
  BY <1>1, <1>3 DEF Local

LEMMA HandlerLocal ==
  ASSUME Types, NEW w \in Loops, Handler(w)
  PROVE  Local(w)
<1>0. task[w] \in Task
  BY TaskFields
<1>1. CASE \/ Marker(w) \/ Target(w) \/ Join(w) \/ ClosedContext(w) \/ ConflictContext(w)
           \/ Demand(w) \/ Current(w) \/ PostSummary(w) \/ Conclude(w) \/ Ignore(w) \/ Turn(w)
           \/ GetLock(w) \/ Write(w) \/ Leave(w)
  <2>1. PICK at : Go(w, at) /\ Edge(task[w].at, at) /\ at \notin {"target", "publication"}
    BY <1>1 DEF Marker, Target, Join, ClosedContext, ConflictContext, Demand, Demands, Current,
       PostSummary, PostsSummary, Conclude, Concludes, Ignore, Turn, GetLock, Write, Writes,
       Leave, Leaves, StandsAt, Edge
  <2>2. QED
    BY <2>1, GoLocal
<1>2. CASE Context(w)
  <2>1. task[w].at = "context"
    BY <1>2 DEF Context, StandsAt
  <2>2. CASE Go(w, "returned")
    BY <2>1, <2>2, GoLocal DEF Edge
  <2>3. ASSUME NEW plan,
               task'[w] = [task[w] EXCEPT !.at = "target", !.head = pull.head, !.plan = plan]
        PROVE  Local(w)
    <3>1. Changes(task[w], [task[w] EXCEPT !.at = "target", !.head = pull.head, !.plan = plan], pull.head)
      BY <1>0, <2>1, ContextChanges
    <3>2. QED
      BY <2>3, <3>1 DEF Local
  <2>4. QED
    BY <1>2, <2>2, <2>3, LocalOfMove DEF Context
<1>3. CASE Find(w)
  <2>1. task[w].at = "find"
    BY <1>3 DEF Find, StandsAt
  <2>2. ASSUME NEW at \in {"returned", "create"}, task'[w] = [task[w] EXCEPT !.at = at]
        PROVE  Local(w)
    <3>1. Edge(task[w].at, at)
      BY <2>1 DEF Edge
    <3>2. Changes(task[w], [task[w] EXCEPT !.at = at], pull.head)
      BY <1>0, <3>1, AtChanges
    <3>3. QED
      BY <2>2, <3>2 DEF Local
  <2>3. ASSUME NEW c, task'[w] = [task[w] EXCEPT !.at = "join", !.check = c]
        PROVE  Local(w)
    <3>1. Changes(task[w], [task[w] EXCEPT !.at = "join", !.check = c], pull.head)
      BY <1>0, <2>1, JoinChanges
    <3>2. QED
      BY <2>3, <3>1 DEF Local
  <2>4. \/ \E at \in {"returned", "create"} : task'[w] = [task[w] EXCEPT !.at = at]
        \/ Move(w, Tracked(task[w]))
        \/ \E c : task'[w] = [task[w] EXCEPT !.at = "join", !.check = c]
    BY <1>3, LocalOfMove DEF Find
  <2>5. QED
    BY <2>1, <2>2, <2>3, <2>4, TrackedLocal
<1>4. CASE Create(w)
  <2>1. PICK c : task'[w] = [task[w] EXCEPT !.at = "record", !.check = c]
    BY <1>4, LocalOfMove DEF Create
  <2>2. Changes(task[w], [task[w] EXCEPT !.at = "record", !.check = c], pull.head)
    BY <1>0, <1>4, CreateChanges DEF Create, StandsAt
  <2>3. QED
    BY <2>1, <2>2 DEF Local
<1>5. CASE Record(w)
  BY <1>5, TrackedLocal DEF Record, StandsAt
<1>6. CASE Think(w) \/ NoCriteria(w)
  <2>1. task[w].at = "think"
    BY <1>6 DEF Think, NoCriteria, StandsAt
  <2>2. CASE Think(w)
    <3>1. \/ \E S : task'[w] = [task[w] EXCEPT !.at = "current", !.items = S]
          \/ task'[w] = [task[w] EXCEPT !.at = "current", !.inconclusive = TRUE]
      BY <2>2, LocalOfMove DEF Think
    <3>2. ASSUME NEW S
          PROVE  /\ Changes(task[w], [task[w] EXCEPT !.at = "current", !.items = S], pull.head)
                 /\ Changes(task[w], [task[w] EXCEPT !.at = "current", !.inconclusive = TRUE], pull.head)
      BY <1>0, <2>1, ItemsChange
    <3>3. QED
      BY <3>1, <3>2 DEF Local
  <2>3. CASE NoCriteria(w)
    <3>1. PICK S : task'[w] = [task[w] EXCEPT !.at = "publish", !.items = S]
      BY <2>3, LocalOfMove DEF NoCriteria
    <3>2. Changes(task[w], [task[w] EXCEPT !.at = "publish", !.items = S], pull.head)
      BY <1>0, <2>1, ItemsChange
    <3>3. QED
      BY <3>1, <3>2 DEF Local
  <2>4. QED
    BY <1>6, <2>2, <2>3
<1>7. CASE NoPath(w) \/ \E i \in Items : PostThread(w, i)
  <2>1. \/ \E S : task'[w] = [task[w] EXCEPT !.posted = S]
        \/ \E S : task'[w] = [task[w] EXCEPT !.posted = S, !.broken = TRUE]
    BY <1>7, LocalOfMove DEF NoPath, PostThread
  <2>2. task[w].at = "post"
    BY <1>7 DEF NoPath, PostThread, PostsThread, StandsAt
  <2>3. ASSUME NEW S
        PROVE  /\ Changes(task[w], [task[w] EXCEPT !.posted = S], pull.head)
               /\ Changes(task[w], [task[w] EXCEPT !.posted = S, !.broken = TRUE], pull.head)
    BY <1>0, <2>2, PostedChanges
  <2>4. QED
    BY <2>1, <2>3 DEF Local
<1>8. CASE ReadPull(w)
  <2>1. PICK at \in {"publication", "leave"} :
          task'[w] = [task[w] EXCEPT !.at = at, !.head = pull.head]
    BY <1>8, LocalOfMove DEF ReadPull
  <2>2. Changes(task[w], [task[w] EXCEPT !.at = at, !.head = pull.head], pull.head)
    BY <1>0, <1>8, HeadChanges DEF ReadPull, StandsAt
  <2>3. QED
    BY <2>1, <2>2 DEF Local
<1>9. CASE ReadPublication(w)
  <2>1. PICK M : task'[w] = [task[w] EXCEPT !.at = "threads", !.markers = M]
    BY <1>9, LocalOfMove DEF ReadPublication
  <2>2. Changes(task[w], [task[w] EXCEPT !.at = "threads", !.markers = M], pull.head)
    BY <1>0, <1>9, MarkersChange DEF ReadPublication, StandsAt
  <2>3. QED
    BY <2>1, <2>2 DEF Local
<1>10. CASE ReadThreads(w)
  <2>1. task[w].at = "threads"
    BY <1>10 DEF ReadThreads, StandsAt
  <2>2. CASE Throws(w)
    BY <2>1, <2>2, ThrowsLocal DEF InLock
  <2>3. CASE task'[w] = [task[w] EXCEPT !.at = "checks", !.read = thread]
    <3>1. Changes(task[w], [task[w] EXCEPT !.at = "checks", !.read = thread], pull.head)
      BY <1>0, <2>1, ReadChanges
    <3>2. QED
      BY <2>3, <3>1 DEF Local
  <2>4. QED
    BY <1>10, <2>2, <2>3, LocalOfMove DEF ReadThreads
<1>11. CASE ReadChecks(w)
  <2>1. \E c, k : task'[w] = [task[w] EXCEPT !.at = "reread", !.check = c, !.latest = k]
    BY <1>11, LocalOfMove DEF ReadChecks
  <2>2. PICK c, k : task'[w] = [task[w] EXCEPT !.at = "reread", !.check = c, !.latest = k]
    BY <2>1
  <2>3. Changes(task[w], [task[w] EXCEPT !.at = "reread", !.check = c, !.latest = k], pull.head)
    BY <1>0, <1>11, LatestChanges DEF ReadChecks, StandsAt
  <2>4. QED
    BY <2>2, <2>3 DEF Local
<1>12. CASE Reread(w)
  BY <1>12, ThrowsLocal, GoLocal DEF Reread, Edge, StandsAt, InLock
<1>13. QED
  BY <1>1, <1>2, <1>3, <1>4, <1>5, <1>6, <1>7, <1>8, <1>9, <1>10, <1>11, <1>12 DEF Handler

LEMMA FailsLocal ==
  ASSUME Types, NEW w \in Loops, Fails(w)
  PROVE  Local(w)
<1>0. task[w] \in Task
  BY TaskFields
<1>1. CASE CallFails(w) /\ task[w].at \in InLock
  <2>1. Throws(w) /\ task[w].at # "leave"
    BY <1>1 DEF CallFails, Thrown, BeforeTry, InTry, InLock, StandsAt
  <2>2. QED
    BY <1>1, <2>1, ThrowsLocal
<1>2. CASE CallFails(w) /\ task[w].at \notin InLock
  <2>1. PICK at : Go(w, at) /\ Edge(task[w].at, at) /\ at \notin {"target", "publication"}
    <3>1. CASE task[w].at \in BeforeTry \cup {"abort"}
      BY <1>2, <3>1 DEF CallFails, Thrown, Edge, BeforeTry
    <3>2. CASE task[w].at \notin BeforeTry \cup {"abort"}
      <4>1. task[w].at \in InTry \cup {"post"}
        BY <1>2, <3>2 DEF CallFails, StandsAt
      <4>2. QED
        BY <1>2, <3>2, <4>1 DEF CallFails, Thrown, Edge, InTry
    <3>3. QED
      BY <3>1, <3>2
  <2>2. QED
    BY <2>1, GoLocal
<1>3. CASE CreateFails(w)
  BY <1>3, TrackedLocal DEF CreateFails, StandsAt
<1>4. CASE LeaveFails(w)
  BY <1>4, GoLocal DEF LeaveFails, Leaves, StandsAt, Edge
<1>5. ASSUME NEW i \in Items, PostFails(w, i) PROVE Local(w)
  <2>1. \E S : task'[w] = [task[w] EXCEPT !.posted = S, !.broken = TRUE]
    BY <1>5, LocalOfMove DEF PostFails
  <2>2. task[w].at = "post"
    BY <1>5 DEF PostFails, StandsAt
  <2>3. ASSUME NEW S
        PROVE  /\ Changes(task[w], [task[w] EXCEPT !.posted = S], pull.head)
               /\ Changes(task[w], [task[w] EXCEPT !.posted = S, !.broken = TRUE], pull.head)
    BY <1>0, <2>2, PostedChanges
  <2>4. QED
    BY <2>1, <2>3 DEF Local
<1>6. QED
  BY <1>1, <1>2, <1>3, <1>4, <1>5 DEF Fails

LEMMA StepLocal ==
  ASSUME Types, NEW w \in Loops, StepOf(w)
  PROVE  Local(w)
BY HandlerLocal, FailsLocal DEF StepOf

(* Who works for a HEAD knows it.                                          *)
HeadKnown ==
  {"target", "find", "join", "create", "record", "closed", "conflict", "demand", "insist",
   "think", "current", "publish", "cancel", "post", "conclude",
   "publication", "threads", "checks", "reread", "write"}
HeadsKnown == \A w \in Loops : task[w].at \in HeadKnown => task[w].head # 0

(* The types of what a step writes.                                        *)
SharedTypes ==
  /\ phase \in [Jobs -> {"none", "pending", "active", "done"}]
  /\ holder \in [Jobs -> Loops \cup {Nobody}]
  /\ row \in [GuideJobs -> Row]
  /\ pull \in [head : Heads, open : BOOLEAN, mergeable : BOOLEAN, events : Nat]
  /\ thread \in [Items -> ThreadState] /\ notes \subseteq Marks /\ demanded \subseteq Heads
  /\ checks \in [CheckIds -> Check] /\ Concluded
  /\ serial \in [{PodOf(w) : w \in Loops} -> Loops \cup {Nobody}]
  /\ lock \in Loops \cup {Nobody}

LEMMA RewrittenTypes ==
  ASSUME SharedTypes, NEW w, NEW c, NEW k, Rewrites(w, c, k)
  PROVE  checks' \in [CheckIds -> Check] /\ Concluded'
BY DEF SharedTypes, Rewrites, Written, Concluded

LEMMA RewrittenShared ==
  ASSUME SharedTypes, NEW w, NEW c, NEW k, Rewrites(w, c, k),
         UNCHANGED <<queueVars, row, pull, thread, notes, demanded, locks>>
  PROVE  SharedTypes'
<1>1. checks' \in [CheckIds -> Check] /\ Concluded'
  BY RewrittenTypes
<1>2. QED
  BY <1>1 DEF SharedTypes, queueVars, locks

LEMMA UnwrittenShared ==
  ASSUME SharedTypes, UNCHANGED <<queueVars, row, github, locks>>
  PROVE  SharedTypes'
BY DEF SharedTypes, queueVars, github, locks, Concluded

(* The job of a loop at work, if its place is one of the guide job.        *)
LEMMA RowWritten ==
  ASSUME Types, NEW w \in Loops, NEW j,
         \/ row' = [row EXCEPT ![j].target = task[w].head]
         \/ row' = [row EXCEPT ![j].check = task[w].check]
  PROVE  row' \in [GuideJobs -> Row]
<1>1. task[w].head \in Heads \cup {0} /\ task[w].check \in CheckIds \cup {0}
  BY TaskFields
<1>2. row \in [GuideJobs -> Row]
  BY DEF Types
<1>3. CASE j \in GuideJobs
  <2>1. row[j] \in Row
    BY <1>2, <1>3
  <2>2. /\ [row[j] EXCEPT !.target = task[w].head] \in Row
        /\ [row[j] EXCEPT !.check = task[w].check] \in Row
    BY <1>1, <2>1 DEF Row
  <2>3. QED
    BY <1>2, <2>2
<1>4. CASE j \notin GuideJobs
  BY <1>2, <1>4
<1>5. QED
  BY <1>3, <1>4

LEMMA EffectShared ==
  ASSUME Types, SharedTypes, HeadsKnown, NEW w \in Loops, Effect(w)
  PROVE  SharedTypes'
<1>1. CASE Reads
  BY <1>1, UnwrittenShared DEF Reads
<1>2. CASE RecordsTarget(w) \/ RecordsCheck(w)
  <2>1. row' \in [GuideJobs -> Row]
    BY <1>2, RowWritten DEF RecordsTarget, RecordsCheck
  <2>2. UNCHANGED <<queueVars, github, locks>>
    BY <1>2 DEF RecordsTarget, RecordsCheck
  <2>3. QED
    BY <2>1, <2>2 DEF SharedTypes, queueVars, github, locks, Concluded
<1>3. CASE Updates(Reopened(task[w].check)) \/ Concludes(w)
  <2>1. UNCHANGED <<queueVars, row, pull, thread, notes, demanded, locks>>
    BY <1>3 DEF Updates, Concludes
  <2>2. checks' = checks \/ \E c, k : Rewrites(w, c, k)
    BY <1>3, ReopenedRewrites, ConcludesRewrites DEF Updates
  <2>3. QED
    BY <2>1, <2>2, RewrittenShared, UnwrittenShared DEF github, locks
<1>4. CASE (\E c \in CheckIds : Creates(w, c)) \/ Writes(w)
  <2>1. UNCHANGED <<queueVars, row, pull, thread, notes, demanded, locks>>
    BY <1>4 DEF Updates, Creates, Writes
  <2>2. \E c, k : Rewrites(w, c, k)
    BY <1>4, CreatesRewrites, WritesRewrites
  <2>3. QED
    BY <2>1, <2>2, RewrittenShared
<1>5. CASE Demands(w)
  <2>1. task[w].head \in Heads
    BY <1>5, TaskFields DEF Demands, StandsAt, HeadsKnown, HeadKnown
  <2>2. QED
    BY <1>5, <2>1 DEF Demands, SharedTypes, queueVars, locks, Concluded
<1>6. CASE \E i \in Items : PostsThread(w, i)
  BY <1>6 DEF PostsThread, SharedTypes, queueVars, locks, Concluded, ThreadState
<1>7. CASE PostsSummary(w)
  BY <1>7 DEF PostsSummary, Summary, Marks, SharedTypes, queueVars, locks, Concluded
<1>8. CASE TakesTurn(w) \/ TakesLock(w) \/ Leaves(w)
  <2>1. /\ serial' \in [{PodOf(v) : v \in Loops} -> Loops \cup {Nobody}]
        /\ lock' \in Loops \cup {Nobody}
    BY <1>8 DEF TakesTurn, TakesLock, Leaves, SharedTypes
  <2>2. UNCHANGED <<queueVars, row, github>>
    BY <1>8 DEF TakesTurn, TakesLock, Leaves
  <2>3. QED
    BY <2>1, <2>2 DEF SharedTypes, queueVars, github, Concluded
<1>9. QED
  BY <1>1, <1>2, <1>3, <1>4, <1>5, <1>6, <1>7, <1>8 DEF Effect

LEMMA TypesAreShared ==
  TypeOK <=> SharedTypes /\ LockHeld /\ task \in [Loops -> Task]
             /\ faults \in [errors : Nat, crashes : Nat, early : Nat]
BY DEF TypeOK, Types, SharedTypes, LockHeld, Concluded

LEMMA HeadsStayKnown ==
  ASSUME Types, HeadsKnown, NEW w \in Loops, Local(w), Others(w)
  PROVE  HeadsKnown'
<1>1. pull.head # 0
  BY DEF Types, Heads
<1>2. task'[w].at \in HeadKnown =>
        task[w].at \in HeadKnown \/ task'[w].at \in {"target", "publication"}
  BY TaskFields DEF Local, Changes, Edge, HeadKnown, Places, BeforeTry, InTry, InLock
<1>3. task'[w].at \in HeadKnown => task'[w].head # 0
  BY <1>1, <1>2 DEF Local, Changes, HeadsKnown
<1>4. QED
  BY <1>3 DEF HeadsKnown, Others

(* At a place there is one thing to do, or two.                            *)
LEMMA ActionAt ==
  ASSUME NEW w, Handler(w)
  PROVE  /\ StandsAt(w, "marker") => Marker(w)
         /\ StandsAt(w, "context") => Context(w)
         /\ StandsAt(w, "target") => Target(w)
         /\ StandsAt(w, "find") => Find(w)
         /\ StandsAt(w, "join") => Join(w)
         /\ StandsAt(w, "create") => Create(w)
         /\ StandsAt(w, "record") => Record(w)
         /\ StandsAt(w, "closed") => ClosedContext(w)
         /\ StandsAt(w, "conflict") => ConflictContext(w)
         /\ StandsAt(w, "demand") => Demand(w)
         /\ StandsAt(w, "think") => Think(w) \/ NoCriteria(w)
         /\ task[w].at \in {"current", "publish"} => Current(w)
         /\ StandsAt(w, "post") =>
              NoPath(w) \/ PostSummary(w) \/ \E i \in Items : PostThread(w, i)
         /\ task[w].at \in {"conclude", "insist", "cancel", "abort"} => Conclude(w)
         /\ StandsAt(w, "ignore") => Ignore(w)
         /\ StandsAt(w, "turn") => Turn(w)
         /\ StandsAt(w, "lock") => GetLock(w)
         /\ StandsAt(w, "pull") => ReadPull(w)
         /\ StandsAt(w, "publication") => ReadPublication(w)
         /\ StandsAt(w, "threads") => ReadThreads(w)
         /\ StandsAt(w, "checks") => ReadChecks(w)
         /\ StandsAt(w, "reread") => Reread(w)
         /\ StandsAt(w, "write") => Write(w)
         /\ StandsAt(w, "leave") => Leave(w)
BY DEF Handler, Marker, Context, Target, Find, Join, Create, Record, ClosedContext,
   ConflictContext, Demand, Demands, Think, NoCriteria, Current, PostThread, PostsThread,
   NoPath, PostSummary, PostsSummary, Conclude, Concludes, Ignore, Turn, GetLock, ReadPull,
   ReadPublication, ReadThreads, ReadChecks, Reread, Write, Writes, Leave, Leaves, StandsAt

(* The turn and the lock are taken by one loop at a time.                  *)
LEMMA StepLocks ==
  ASSUME TypeOK, NEW w \in Loops, StepOf(w), Local(w), Others(w), Effect(w)
  PROVE  LockHeld'
<1> DEFINE Locked == InLock \ {"lock", "leave"}
<1>1. Types /\ LockHeld /\ Nobody \notin Loops
  BY LoopShape DEF TypeOK, LockHeld
<1>2. /\ task'[w].at \in InLock => task[w].at \in (InLock \ {"leave"}) \cup {"turn"}
      /\ task'[w].at \in Locked => task[w].at \in Locked \cup {"lock"}
      /\ task[w].at = "turn" => task'[w].at = "lock"
  BY <1>1, TaskFields DEF Local, Changes, Edge, Places, BeforeTry, InTry, InLock
<1>3. serial \in [{PodOf(v) : v \in Loops} -> Loops \cup {Nobody}]
  BY <1>1 DEF Types
<1>4. CASE TakesTurn(w)
  <2>1. /\ \A v \in Loops : PodOf(v) # PodOf(w) => serial'[PodOf(v)] = serial[PodOf(v)]
        /\ serial'[PodOf(w)] = w /\ serial[PodOf(w)] = Nobody /\ task[w].at = "turn"
    BY <1>3, <1>4 DEF TakesTurn, StandsAt
  <2>2. \A v \in Loops : v # w /\ task[v].at \in InLock => PodOf(v) # PodOf(w)
    BY <1>1, <2>1 DEF LockHeld
  <2>3. QED
    BY <1>1, <1>2, <1>4, <2>1, <2>2 DEF LockHeld, Others, TakesTurn
<1>5. CASE TakesLock(w)
  <2>1. /\ lock = Nobody /\ lock' = w /\ serial' = serial /\ task[w].at = "lock"
    BY <1>5 DEF TakesLock, StandsAt
  <2>2. QED
    BY <1>1, <1>2, <2>1 DEF LockHeld, Others, InLock
<1>6. CASE Leaves(w)
  <2>1. /\ \A v \in Loops : PodOf(v) # PodOf(w) => serial'[PodOf(v)] = serial[PodOf(v)]
        /\ lock' = IF lock = w THEN Nobody ELSE lock
        /\ task[w].at = "leave" /\ task'[w].at \notin InLock
    BY <1>2, <1>3, <1>6 DEF Leaves, StandsAt, InLock, Local, Changes, Edge
  <2>2. \A v \in Loops : v # w /\ task[v].at \in InLock => PodOf(v) # PodOf(w)
    BY <1>1, <2>1 DEF LockHeld, InLock
  <2>3. QED
    BY <1>1, <2>1, <2>2 DEF LockHeld, Others
<1>7. CASE serial' = serial /\ lock' = lock
  <2>1. task[w].at # "turn"
    <3>1. StandsAt(w, "turn") => ~Fails(w)
      BY DEF Fails, CallFails, CreateFails, LeaveFails, Leaves, PostFails, StandsAt, BeforeTry,
         InTry, InLock
    <3>2. StandsAt(w, "turn") => TakesTurn(w)
      BY <3>1, ActionAt DEF StepOf, Turn, TakesTurn
    <3>3. Nobody # w
      BY <1>1
    <3>4. TakesTurn(w) => serial' # serial
      BY <1>3, <3>3 DEF TakesTurn
    <3>5. QED
      BY <1>7, <3>2, <3>4 DEF StandsAt
  <2>2. task[w].at = "lock" => task'[w].at = "leave"
    <3>1. StandsAt(w, "lock") /\ Handler(w) => lock = Nobody /\ lock' = w
      BY ActionAt DEF GetLock, LockTaken
    <3>2. ~(StandsAt(w, "lock") /\ Handler(w))
      BY <1>1, <1>7, <3>1
    <3>3. StandsAt(w, "lock") => Throws(w)
      BY <3>2 DEF StepOf, Fails, CallFails, CreateFails, LeaveFails, Leaves, PostFails, Thrown,
         StandsAt, InLock
    <3>4. Throws(w) => task'[w].at = "leave"
      <4>1. Throws(w) => task'[w] = [task[w] EXCEPT !.at = "leave", !.broken = TRUE]
        BY <1>1, LocalOfMove DEF Throws
      <4>2. task[w] \in Task
        BY <1>1, TaskFields
      <4>3. \A t \in Task : [t EXCEPT !.at = "leave", !.broken = TRUE].at = "leave"
        BY DEF Task
      <4>4. QED
        BY <4>1, <4>2, <4>3
    <3>5. QED
      BY <3>3, <3>4 DEF StandsAt
  <2>3. QED
    BY <1>1, <1>2, <1>7, <2>1, <2>2 DEF LockHeld, Others, InLock
<1>8. (serial' = serial /\ lock' = lock) \/ TakesTurn(w) \/ TakesLock(w) \/ Leaves(w)
  BY DEF Effect, Reads, RecordsTarget, RecordsCheck, Updates, Creates, Demands, PostsThread,
     PostsSummary, Concludes, Writes, locks
<1>9. QED
  BY <1>4, <1>5, <1>6, <1>7, <1>8

(* The queue, and the worker loops around a handler.                       *)
QueueTypes ==
  /\ phase \in [Jobs -> {"none", "pending", "active", "done"}]
  /\ holder \in [Jobs -> Loops \cup {Nobody}]

LEMMA SubmitTypes ==
  ASSUME Types, NEW j \in Jobs, Submit(j)
  PROVE  QueueTypes' /\ row' \in [GuideJobs -> Row]
<1>1. QueueTypes'
  BY DEF Submit, Queue!Submit, Types, QueueTypes
<1>2. row \in [GuideJobs -> Row]
  BY DEF Types
<1>3. CASE j \in StatusJobs
  <2>1. row' = row
    BY <1>3 DEF Submit
  <2>2. row' \in [GuideJobs -> Row]
    BY <1>2, <2>1
  <2>3. QED
    BY <1>1, <2>2
<1>4. CASE j \in GuideJobs
  <2> DEFINE S == {i \in GuideJobs : row[i].started /\ phase[i] # "done"}
  <2>1. [row[j] EXCEPT !.earlier = S] \in Row
    BY <1>2, <1>4 DEF Row
  <2>2. row' = [row EXCEPT ![j] = [row[j] EXCEPT !.earlier = S]]
    BY <1>4, JobNumbers DEF Submit
  <2>3. row' \in [GuideJobs -> Row]
    BY <1>2, <1>4, <2>1, <2>2
  <2>4. QED
    BY <1>1, <2>3
<1>5. QED
  BY <1>1, <1>3, <1>4 DEF Jobs

LEMMA TakeTypes ==
  ASSUME Types, NEW j \in Jobs, NEW w \in Loops, Queue!Take(j, w)
  PROVE  QueueTypes'
BY DEF Queue!Take, Types, QueueTypes

LEMMA ReleaseTypes ==
  ASSUME Types, NEW S, Queue!Release(S)
  PROVE  QueueTypes'
<1>1. PICK done \in SUBSET S :
        phase' = [j \in Jobs |-> IF j \notin S THEN phase[j]
                                 ELSE IF j \in done THEN "done" ELSE "pending"]
  BY DEF Queue!Release
<1>2. holder' = [j \in Jobs |-> IF j \in S THEN Nobody ELSE holder[j]]
  BY DEF Queue!Release
<1>3. QED
  BY <1>1, <1>2 DEF Types, QueueTypes

LEMMA IdleType == Idle \in Task /\ Idle.at = "idle" /\ Idle.job = 0
<1>1. NoCheck \in Check
  BY DEF NoCheck, NoOutput, Check, Conclusion, Reason
<1>2. QED
  BY <1>1 DEF Idle, Task, Places, ThreadState

(* A job just taken: the place where it starts, and the check run its row  *)
(* has.                                                                    *)
Leased(at, j, c) == [Idle EXCEPT !.at = at, !.job = j, !.check = c]

LEMMA LeasedType ==
  ASSUME NEW at \in Places, NEW j \in Jobs, NEW c \in CheckIds \cup {0}
  PROVE  Leased(at, j, c) \in Task
BY IdleType DEF Task, Leased

LEMMA LeasedFields ==
  ASSUME NEW at \in Places, NEW j \in Jobs, NEW c \in CheckIds \cup {0}
  PROVE  /\ Leased(at, j, c).at = at /\ Leased(at, j, c).job = j
         /\ Leased(at, j, c).head = 0 /\ Leased(at, j, c).check = c
BY DEF Idle, Leased

LEMMA LeaseMoves ==
  ASSUME Types, NEW w \in Loops, NEW j \in Jobs, Lease(w, j)
  PROVE  /\ Moved(w) /\ row' \in [GuideJobs -> Row]
         /\ task'[w].at = IF j \in GuideJobs THEN "marker" ELSE "ignore"
         /\ task'[w].job = j /\ task'[w].head = 0
         /\ task'[w].check = IF j \in GuideJobs THEN row[j].check ELSE 0
         /\ \A i \in GuideJobs : /\ row'[i].check = row[i].check /\ row'[i].target = row[i].target
                                 /\ row'[i].earlier = row[i].earlier
<1> DEFINE at == IF j \in GuideJobs THEN "marker" ELSE "ignore"
           c == IF j \in GuideJobs THEN row[j].check ELSE 0
<1>1. row \in [GuideJobs -> Row] /\ at \in Places
  BY AllPlaces DEF Types
<1>2. c \in CheckIds \cup {0}
  BY <1>1 DEF Row
<1>3. Move(w, Leased(at, j, c))
  BY DEF Lease, Leased
<1>4. Leased(at, j, c) \in Task
  BY <1>1, <1>2, LeasedType
<1>5. Moved(w) /\ task'[w] = Leased(at, j, c)
  BY <1>3, <1>4, MoveMoves DEF Moved, Others, MovesTo
<1>6. task'[w].at = at /\ task'[w].job = j /\ task'[w].head = 0 /\ task'[w].check = c
  <2> HIDE DEF at, c
  <2>1. at \in Places /\ c \in CheckIds \cup {0} /\ j \in Jobs
    BY <1>1, <1>2
  <2>2. /\ Leased(at, j, c).at = at /\ Leased(at, j, c).job = j
        /\ Leased(at, j, c).head = 0 /\ Leased(at, j, c).check = c
    BY <2>1, LeasedFields
  <2>3. QED
    BY <1>5, <2>2
<1>7. row' = IF j \in GuideJobs THEN [row EXCEPT ![j].started = TRUE] ELSE row
  BY DEF Lease
<1>8. CASE j \in GuideJobs
  <2>1. row[j] \in Row
    BY <1>1, <1>8
  <2>2. /\ [row[j] EXCEPT !.started = TRUE] \in Row
        /\ [row[j] EXCEPT !.started = TRUE].check = row[j].check
        /\ [row[j] EXCEPT !.started = TRUE].target = row[j].target
        /\ [row[j] EXCEPT !.started = TRUE].earlier = row[j].earlier
    BY <2>1 DEF Row
  <2>3. row' = [row EXCEPT ![j] = [row[j] EXCEPT !.started = TRUE]]
    BY <1>7, <1>8
  <2>4. QED
    BY <1>1, <1>5, <1>6, <1>8, <2>2, <2>3
<1>9. CASE j \notin GuideJobs
  BY <1>1, <1>5, <1>6, <1>7, <1>9
<1>10. QED
  BY <1>8, <1>9

LEMMA SettleMoves ==
  ASSUME Types, NEW w \in Loops, Settle(w)
  PROVE  Moved(w) /\ task'[w] = Idle
BY IdleType, MoveMoves DEF Settle, Moved, Others, MovesTo

(* The pull request, and the threads the authors touch.                    *)
Environment ==
  \/ Opened \/ Push \/ Close \/ Reopen \/ ConflictChanges \/ StatusCommand
  \/ \E i \in Items : ThreadChanges(i)

PullType == [head : Heads, open : BOOLEAN, mergeable : BOOLEAN, events : Nat]

LEMMA HappensType ==
  ASSUME NEW p \in PullType, Happens(p)
  PROVE  pull' \in PullType /\ pull'.head = p.head /\ pull'.open = p.open
         /\ pull'.mergeable = p.mergeable
BY DEF Happens, PullType

LEMMA ChangedPull ==
  ASSUME NEW p \in PullType
  PROVE  /\ [p EXCEPT !.open = TRUE] \in PullType
         /\ [p EXCEPT !.open = TRUE].head = p.head
         /\ [p EXCEPT !.open = TRUE].open = TRUE
         /\ [p EXCEPT !.open = FALSE] \in PullType
         /\ [p EXCEPT !.open = FALSE].head = p.head
         /\ [p EXCEPT !.open = FALSE].open = FALSE
         /\ [p EXCEPT !.mergeable = ~@] \in PullType
         /\ [p EXCEPT !.mergeable = ~@].head = p.head
         /\ [p EXCEPT !.mergeable = ~@].open = p.open
         /\ p.head < MaxHead =>
              /\ [p EXCEPT !.head = @ + 1] \in PullType
              /\ [p EXCEPT !.head = @ + 1].head = p.head + 1
              /\ [p EXCEPT !.head = @ + 1].open = p.open
<1>1. \A b \in BOOLEAN : [p EXCEPT !.open = b] \in PullType /\ [p EXCEPT !.open = b].head = p.head
        /\ [p EXCEPT !.open = b].open = b
  BY DEF PullType
<1>2. [p EXCEPT !.mergeable = ~@] \in PullType /\ [p EXCEPT !.mergeable = ~@].head = p.head
      /\ [p EXCEPT !.mergeable = ~@].open = p.open
  BY DEF PullType
<1>3. ASSUME p.head < MaxHead
      PROVE  /\ [p EXCEPT !.head = @ + 1] \in PullType
             /\ [p EXCEPT !.head = @ + 1].head = p.head + 1
             /\ [p EXCEPT !.head = @ + 1].open = p.open
  <2>1. p.head + 1 \in Heads
    BY <1>3 DEF PullType, Heads
  <2>2. QED
    BY <2>1 DEF PullType
<1>4. QED
  BY <1>1, <1>2, <1>3

(* What an event does to the pull request.                                 *)
LEMMA EventsOnPull ==
  ASSUME pull \in PullType, Environment
  PROVE  /\ pull' \in PullType
         /\ \/ pull'.head = pull.head
            \/ Push /\ pull.open /\ pull'.open /\ pull'.head = pull.head + 1
         /\ pull'.open => pull.open \/ Reopen
<1>1. CASE Opened
  BY <1>1 DEF Opened, github
<1>2. CASE Push
  <2> DEFINE p == [pull EXCEPT !.head = @ + 1]
  <2>1. p \in PullType /\ p.head = pull.head + 1 /\ p.open = pull.open
    BY <1>2, ChangedPull DEF Push
  <2>2. Happens(p) /\ pull.open
    BY <1>2 DEF Push
  <2> HIDE DEF p
  <2>3. QED
    BY <1>2, <2>1, <2>2, HappensType
<1>3. CASE Close
  <2> DEFINE p == [pull EXCEPT !.open = FALSE]
  <2>1. p \in PullType /\ p.head = pull.head /\ ~p.open
    BY ChangedPull
  <2>2. Happens(p)
    BY <1>3 DEF Close
  <2> HIDE DEF p
  <2>3. QED
    BY <1>3, <2>1, <2>2, HappensType
<1>4. CASE Reopen
  <2> DEFINE p == [pull EXCEPT !.open = TRUE]
  <2>1. p \in PullType /\ p.head = pull.head /\ p.open
    BY ChangedPull
  <2>2. Happens(p)
    BY <1>4 DEF Reopen
  <2> HIDE DEF p
  <2>3. QED
    BY <1>4, <2>1, <2>2, HappensType
<1>5. CASE ConflictChanges
  <2> DEFINE p == [pull EXCEPT !.mergeable = ~@]
  <2>1. p \in PullType /\ p.head = pull.head /\ p.open = pull.open
    BY ChangedPull
  <2>2. Happens(p)
    BY <1>5 DEF ConflictChanges
  <2> HIDE DEF p
  <2>3. QED
    BY <1>5, <2>1, <2>2, HappensType
<1>6. CASE StatusCommand \/ \E i \in Items : ThreadChanges(i)
  BY <1>6, HappensType DEF StatusCommand, ThreadChanges
<1>7. QED
  BY <1>1, <1>2, <1>3, <1>4, <1>5, <1>6 DEF Environment

(* What it submits.                                                        *)
LEMMA EventsSubmit ==
  ASSUME Environment
  PROVE  \/ /\ UNCHANGED <<queueVars, row>>
            /\ Close \/ ConflictChanges
         \/ \E j \in GuideJobs : /\ Submit(j) /\ \A i \in GuideJobs : i < j => phase[i] # "none"
                                 /\ Opened \/ Push \/ Reopen
         \/ \E j \in StatusJobs : /\ Submit(j)
                                  /\ StatusCommand \/ \E i \in Items : ThreadChanges(i)
<1>1. CASE Opened
  <2>1. \A i \in GuideJobs : ~(i < 1)
    OBVIOUS
  <2>2. QED
    BY <1>1, <2>1 DEF Opened
<1>2. CASE Push \/ Reopen
  BY <1>2 DEF Push, Reopen, Later, NextGuideJob
<1>3. CASE Close \/ ConflictChanges
  BY <1>3 DEF Close, ConflictChanges
<1>4. CASE StatusCommand \/ \E i \in Items : ThreadChanges(i)
  BY <1>4 DEF StatusCommand, ThreadChanges, Reported
<1>5. QED
  BY <1>1, <1>2, <1>3, <1>4 DEF Environment

LEMMA EventsLeave ==
  ASSUME Environment
  PROVE  /\ UNCHANGED <<task, serial, lock, faults, notes, checks, demanded>>
         /\ \/ UNCHANGED thread
            \/ \E i \in Items : ThreadChanges(i)
BY DEF Environment, Opened, Push, Close, Reopen, ConflictChanges, StatusCommand, ThreadChanges,
   Happens, github, locks

LEMMA EnvironmentTypes ==
  ASSUME Types, Environment
  PROVE  /\ UNCHANGED <<task, serial, lock, faults, notes, checks, demanded>>
         /\ QueueTypes' /\ row' \in [GuideJobs -> Row]
         /\ pull' \in PullType /\ thread' \in [Items -> ThreadState]
<1>1. UNCHANGED <<queueVars, row>> => QueueTypes' /\ row' \in [GuideJobs -> Row]
  BY DEF Types, QueueTypes, queueVars
<1>2. \A j \in Jobs : Submit(j) => QueueTypes' /\ row' \in [GuideJobs -> Row]
  BY SubmitTypes
<1>3. QueueTypes' /\ row' \in [GuideJobs -> Row]
  BY <1>1, <1>2, EventsSubmit DEF Jobs
<1>4. pull' \in PullType
  BY EventsOnPull DEF Types, PullType
<1>5. thread' \in [Items -> ThreadState]
  BY EventsLeave DEF Types, ThreadChanges, ThreadState
<1>6. QED
  BY <1>3, <1>4, <1>5, EventsLeave

(* A crash leaves every loop of its pod idle, and the others as they were. *)
LEMMA CrashMoves ==
  ASSUME Types, NEW p, Crash(p)
  PROVE  /\ task' \in [Loops -> Task]
         /\ \A w \in Loops : IF PodOf(w) = p THEN task'[w] = Idle
                             ELSE task'[w] = task[w]
<1>1. task' = [w \in Loops |-> IF w \in {v \in Loops : PodOf(v) = p} THEN Idle ELSE task[w]]
  BY DEF Crash
<1>2. QED
  BY <1>1, IdleType DEF Types

LEMMA NextCases ==
  ASSUME Next
  PROVE  \/ \E w \in Loops : StepOf(w)
         \/ \E w \in Loops, j \in Jobs : Lease(w, j)
         \/ \E w \in Loops : Settle(w)
         \/ \E p \in {PodOf(w) : w \in Loops} : Crash(p)
         \/ Environment
         \/ UNCHANGED vars
BY DEF Next, Runs, StepOf, Environment, AtRest

(* The types are preserved by every step.                                  *)
FaultsType == faults \in [errors : Nat, crashes : Nat, early : Nat]

LEMMA StepTypes ==
  ASSUME TypeOK, HeadsKnown, NEW w \in Loops, StepOf(w)
  PROVE  TypeOK' /\ HeadsKnown'
<1>1. Types
  BY DEF TypeOK
<1>2. Moved(w) /\ Effect(w) /\ Local(w)
  BY <1>1, StepMoves, StepLocal
<1>3. HeadsKnown'
  BY <1>1, <1>2, HeadsStayKnown DEF Moved
<1>4. SharedTypes'
  BY <1>1, <1>2, EffectShared, TypesAreShared
<1>5. LockHeld'
  BY <1>2, StepLocks DEF Moved
<1>6. FaultsType'
  <2>1. faults' = faults \/ faults' = [faults EXCEPT !.errors = @ + 1]
    BY FailsStumbles DEF StepOf, Stumbles
  <2>2. QED
    BY <1>1, <2>1 DEF Types, FaultsType
<1>7. task' \in [Loops -> Task]
  BY <1>2 DEF Moved
<1>8. (SharedTypes /\ LockHeld /\ task \in [Loops -> Task] /\ FaultsType)' => TypeOK'
  BY DEF FaultsType, TypeOK, Types, SharedTypes, LockHeld, Concluded
<1>9. QED
  BY <1>3, <1>4, <1>5, <1>6, <1>7, <1>8

LEMMA NextTypes ==
  ASSUME TypeOK, HeadsKnown, [Next]_vars
  PROVE  TypeOK' /\ HeadsKnown'
<1>1. Types /\ SharedTypes /\ LockHeld /\ Concluded
  BY TypesAreShared DEF TypeOK, SharedTypes
<1>2. CASE UNCHANGED vars
  BY <1>2 DEF vars, TypeOK, Types, HeadsKnown
<1>3. ASSUME NEW w \in Loops, StepOf(w) PROVE TypeOK' /\ HeadsKnown'
  BY <1>3, StepTypes
<1>4. (SharedTypes /\ LockHeld /\ task \in [Loops -> Task] /\ FaultsType)' => TypeOK'
  BY DEF FaultsType, TypeOK, Types, SharedTypes, LockHeld, Concluded
<1>5. FaultsType
  BY <1>1 DEF Types, FaultsType
<1>6. ASSUME NEW w \in Loops, NEW j \in Jobs, Lease(w, j) PROVE TypeOK' /\ HeadsKnown'
  <2>1. /\ Moved(w) /\ row' \in [GuideJobs -> Row]
        /\ task'[w].at \in {"marker", "ignore"}
    BY <1>1, <1>6, LeaseMoves
  <2>2. QueueTypes' /\ UNCHANGED <<github, locks, faults>>
    BY <1>1, <1>6, TakeTypes DEF Lease
  <2>3. SharedTypes'
    BY <1>1, <2>1, <2>2 DEF SharedTypes, QueueTypes, github, locks, Concluded
  <2>4. LockHeld'
    BY <1>1, <2>1, <2>2 DEF LockHeld, locks, Moved, Others, InLock
  <2>5. HeadsKnown'
    BY <2>1 DEF HeadsKnown, HeadKnown, Moved, Others
  <2>6. QED
    BY <1>4, <1>5, <2>1, <2>2, <2>3, <2>4, <2>5 DEF Moved, FaultsType
<1>7. ASSUME NEW w \in Loops, Settle(w) PROVE TypeOK' /\ HeadsKnown'
  <2>1. Moved(w) /\ task'[w].at = "idle"
    BY <1>1, <1>7, SettleMoves, IdleType
  <2>2. QueueTypes' /\ UNCHANGED <<row, github, locks, faults>>
    BY <1>1, <1>7, ReleaseTypes DEF Settle
  <2>3. SharedTypes'
    BY <1>1, <2>2 DEF SharedTypes, QueueTypes, github, locks, Concluded
  <2>4. LockHeld'
    BY <1>1, <2>1, <2>2 DEF LockHeld, locks, Moved, Others, InLock
  <2>5. HeadsKnown'
    BY <2>1 DEF HeadsKnown, HeadKnown, Moved, Others
  <2>6. QED
    BY <1>4, <1>5, <2>1, <2>2, <2>3, <2>4, <2>5 DEF Moved, FaultsType
<1>8. ASSUME NEW p \in {PodOf(w) : w \in Loops}, Crash(p) PROVE TypeOK' /\ HeadsKnown'
  <2>1. /\ task' \in [Loops -> Task]
        /\ \A w \in Loops : IF PodOf(w) = p THEN task'[w].at = "idle" ELSE task'[w] = task[w]
    BY <1>1, <1>8, CrashMoves, IdleType
  <2>2. /\ QueueTypes' /\ UNCHANGED <<row, github>>
        /\ serial' = [serial EXCEPT ![p] = Nobody]
        /\ lock' = IF lock \in {w \in Loops : PodOf(w) = p} THEN Nobody ELSE lock
    BY <1>1, <1>8, ReleaseTypes DEF Crash
  <2>3. SharedTypes'
    BY <1>1, <2>2 DEF SharedTypes, QueueTypes, github, Concluded
  <2>4. LockHeld'
    <3>1. \A w \in Loops : PodOf(w) # p => serial'[PodOf(w)] = serial[PodOf(w)]
      BY <1>1, <2>2 DEF Types
    <3>2. \A w \in Loops : PodOf(w) # p /\ lock = w => lock' = w
      BY <2>2
    <3>3. QED
      BY <1>1, <2>1, <3>1, <3>2 DEF LockHeld, InLock
  <2>5. HeadsKnown'
    BY <2>1 DEF HeadsKnown, HeadKnown
  <2>6. FaultsType'
    <3>1. faults.crashes + 1 \in Nat /\ faults.early \in Nat /\ faults.early + 1 \in Nat
      BY <1>5 DEF FaultsType
    <3>2. PICK n \in Nat : faults' = [faults EXCEPT !.crashes = faults.crashes + 1, !.early = n]
      BY <1>8, <3>1 DEF Crash
    <3>3. QED
      BY <1>5, <3>1, <3>2 DEF FaultsType
  <2>7. QED
    BY <1>4, <2>1, <2>3, <2>4, <2>5, <2>6
<1>9. CASE Environment
  <2>1. /\ UNCHANGED <<task, serial, lock, faults, notes, checks, demanded>>
        /\ QueueTypes' /\ row' \in [GuideJobs -> Row]
        /\ pull' \in PullType /\ thread' \in [Items -> ThreadState]
    BY <1>1, <1>9, EnvironmentTypes
  <2>2. SharedTypes'
    BY <1>1, <2>1 DEF SharedTypes, QueueTypes, PullType, Concluded
  <2>3. LockHeld' /\ HeadsKnown' /\ FaultsType' /\ task' \in [Loops -> Task]
    BY <1>1, <1>5, <2>1 DEF LockHeld, HeadsKnown, FaultsType, Types
  <2>4. QED
    BY <1>4, <2>2, <2>3
<1>10. QED
  BY <1>2, <1>3, <1>6, <1>7, <1>8, <1>9, NextCases

(* Every value is one the code can produce, a check run is concluded        *)
(* exactly if it is completed, and whoever reads or writes as a reconciler *)
(* has the turn of its process and the lock of the pull request, whatever  *)
(* fails or crashes (src/src/status-reconciliation.ts, serialize and the   *)
(* MySQL lock).                                                            *)
THEOREM GuideTypes == Spec => []TypeOK
<1>1. Init => TypeOK /\ HeadsKnown
  <2>1. Init => HeadsKnown
    BY DEF Init, Idle, HeadsKnown, HeadKnown
  <2>2. QED
    BY <2>1, InitTypes
<1>2. TypeOK /\ HeadsKnown /\ [Next]_vars => (TypeOK /\ HeadsKnown)'
  BY NextTypes
<1>3. QED
  BY <1>1, <1>2, PTL DEF Spec

-----------------------------------------------------------------------------
(***************************************************************************)
(* The queue: who is at work holds its job, and nobody else does.          *)
(***************************************************************************)
BeforeGuide ==
  {"context", "target", "find", "join", "create", "record", "closed", "conflict", "demand",
   "insist", "think", "current", "publish", "cancel"}
GuidePlaces == {"marker"} \cup BeforeGuide \cup {"post", "conclude", "abort"}

HoldsItsJob(w) ==
  /\ task[w].at = "idle" <=> task[w].job = 0
  /\ task[w].job # 0 => /\ phase[task[w].job] = "active" /\ holder[task[w].job] = w
                        /\ Lane(task[w].job) = LaneOf(w)
  /\ task[w].at \in GuidePlaces => task[w].job \in GuideJobs
QueueInv ==
  /\ \A w \in Loops : HoldsItsJob(w)
  /\ \A j \in Jobs : phase[j] = "active" => holder[j] \in Loops /\ task[holder[j]].job = j

LEMMA JobsAreNumbers == 0 \notin Jobs
BY DEF Jobs

(* What a step of a handler leaves alone.                                  *)
LEMMA EffectKeeps ==
  ASSUME NEW w \in Loops, Effect(w)
  PROVE  /\ UNCHANGED <<phase, holder, pull>>
         /\ task[w].at # "post" => UNCHANGED <<thread, notes>>
         /\ task[w].at # "demand" => UNCHANGED demanded
         /\ task[w].at \notin {"target", "record"} => UNCHANGED row
         /\ task[w].at \notin {"join", "think", "create", "conclude", "insist", "cancel",
                               "abort", "write"} => UNCHANGED checks
<1>1. CASE Reads
  BY <1>1 DEF Reads, queueVars, github
<1>2. CASE StandsAt(w, "target") /\ RecordsTarget(w)
  BY <1>2 DEF RecordsTarget, queueVars, github, StandsAt
<1>3. CASE StandsAt(w, "record") /\ RecordsCheck(w)
  BY <1>3 DEF RecordsCheck, queueVars, github, StandsAt
<1>4. CASE task[w].at \in {"join", "think"} /\ Updates(Reopened(task[w].check))
  BY <1>4 DEF Updates, queueVars
<1>5. CASE StandsAt(w, "create") /\ \E c \in CheckIds : Creates(w, c)
  BY <1>5 DEF Creates, Updates, queueVars, StandsAt
<1>6. CASE Demands(w)
  BY <1>6 DEF Demands, queueVars, StandsAt
<1>7. CASE \E i \in Items : PostsThread(w, i)
  BY <1>7 DEF PostsThread, queueVars, StandsAt
<1>8. CASE PostsSummary(w)
  BY <1>8 DEF PostsSummary, queueVars, StandsAt
<1>9. CASE Concludes(w)
  BY <1>9 DEF Concludes, Updates, queueVars
<1>10. CASE TakesTurn(w) \/ TakesLock(w) \/ Leaves(w)
  BY <1>10 DEF TakesTurn, TakesLock, Leaves, queueVars, github
<1>11. CASE Writes(w)
  BY <1>11 DEF Writes, Updates, queueVars, StandsAt
<1>12. QED
  BY <1>1, <1>2, <1>3, <1>4, <1>5, <1>6, <1>7, <1>8, <1>9, <1>10, <1>11 DEF Effect

(* The facts about a step of a handler that the proofs below use.          *)
LEMMA StepFacts ==
  ASSUME TypeOK, NEW w \in Loops, StepOf(w)
  PROVE  /\ Types /\ Local(w) /\ Others(w) /\ Effect(w) /\ UNCHANGED <<phase, holder, pull>>
         /\ task[w].at \notin {"idle", "returned", "threw"} /\ task'[w].at # "idle"
         /\ task'[w].job = task[w].job
<1>1. Types /\ Local(w) /\ Others(w) /\ Effect(w)
  BY StepMoves, StepLocal DEF TypeOK, Moved
<1>2. UNCHANGED <<phase, holder, pull>>
  BY <1>1, EffectKeeps
<1>3. /\ task[w].at \notin {"idle", "returned", "threw"}
      /\ task'[w].job = task[w].job
  BY <1>1 DEF Local, Changes, Edge
<1>4. task'[w].at # "idle"
  BY <1>1, <1>3, TaskFields DEF Local, Changes, Edge, Places, BeforeTry, InTry, InLock
<1>5. QED
  BY <1>1, <1>2, <1>3, <1>4

LEMMA StepQueue ==
  ASSUME TypeOK, QueueInv, NEW w \in Loops, StepOf(w)
  PROVE  QueueInv'
<1>1. /\ Types /\ Local(w) /\ Others(w) /\ UNCHANGED <<phase, holder>>
      /\ task[w].at # "idle" /\ task'[w].at # "idle" /\ task'[w].job = task[w].job
  BY StepFacts
<1>2. task'[w].at \in GuidePlaces => task[w].at \in GuidePlaces
  BY <1>1, TaskFields DEF Local, Changes, Edge, Places, BeforeTry, InTry, InLock, GuidePlaces,
     BeforeGuide
<1>3. ASSUME NEW v \in Loops PROVE HoldsItsJob(v)'
  <2>1. HoldsItsJob(v)
    BY DEF QueueInv
  <2>2. CASE v = w
    BY <1>1, <1>2, <2>1, <2>2 DEF HoldsItsJob
  <2>3. CASE v # w
    BY <1>1, <2>1, <2>3 DEF HoldsItsJob, Others
  <2>4. QED
    BY <2>2, <2>3
<1>4. ASSUME NEW j \in Jobs, phase'[j] = "active"
      PROVE  holder'[j] \in Loops /\ task'[holder'[j]].job = j
  <2>1. holder[j] \in Loops /\ task[holder[j]].job = j
    BY <1>1, <1>4 DEF QueueInv
  <2>2. QED
    BY <1>1, <2>1 DEF Others
<1>5. QED
  BY <1>3, <1>4 DEF QueueInv

LEMMA LeaseQueue ==
  ASSUME TypeOK, QueueInv, NEW w \in Loops, NEW j \in Jobs, Lease(w, j)
  PROVE  QueueInv'
<1>1. /\ Moved(w) /\ task'[w].at = IF j \in GuideJobs THEN "marker" ELSE "ignore"
      /\ task'[w].job = j
  BY LeaseMoves DEF TypeOK
<1>2. /\ phase[j] = "pending" /\ phase' = [phase EXCEPT ![j] = "active"]
      /\ holder' = [holder EXCEPT ![j] = w] /\ Lane(j) = LaneOf(w) /\ task[w].at = "idle"
  BY DEF Lease, Queue!Take, StandsAt
<1>3. phase \in [Jobs -> {"none", "pending", "active", "done"}]
      /\ holder \in [Jobs -> Loops \cup {Nobody}]
  BY DEF TypeOK, Types
<1>4. ASSUME NEW v \in Loops PROVE HoldsItsJob(v)'
  <2>1. HoldsItsJob(v)
    BY DEF QueueInv
  <2>2. CASE v = w
    BY <1>1, <1>2, <1>3, <2>2, JobsAreNumbers DEF HoldsItsJob, GuidePlaces, BeforeGuide
  <2>3. CASE v # w
    <3>1. task'[v] = task[v] /\ task[v].job # j /\ task[v].job \in Jobs \cup {0}
      BY <1>1, <1>2, <2>1, <2>3, JobsAreNumbers, TaskFields
         DEF HoldsItsJob, Moved, Others, TypeOK
    <3>2. QED
      BY <1>2, <1>3, <2>1, <3>1 DEF HoldsItsJob
  <2>4. QED
    BY <2>2, <2>3
<1>5. ASSUME NEW i \in Jobs, phase'[i] = "active"
      PROVE  holder'[i] \in Loops /\ task'[holder'[i]].job = i
  <2>1. CASE i = j
    BY <1>1, <1>2, <1>3, <2>1
  <2>2. CASE i # j
    <3>1. holder'[i] = holder[i] /\ holder[i] \in Loops /\ task[holder[i]].job = i
      BY <1>2, <1>3, <1>5, <2>2 DEF QueueInv
    <3>2. holder[i] # w
      BY <1>2, <3>1, JobsAreNumbers DEF QueueInv, HoldsItsJob
    <3>3. QED
      BY <1>1, <3>1, <3>2 DEF Moved, Others
  <2>3. QED
    BY <2>1, <2>2
<1>6. QED
  BY <1>4, <1>5 DEF QueueInv

(* Several loops let go of their jobs.                                     *)
LEMMA ReleaseQueue ==
  ASSUME TypeOK, QueueInv, NEW W \in SUBSET Loops,
         Queue!Release({task[w].job : w \in W} \ {0}),
         \A w \in Loops : task'[w] = IF w \in W THEN Idle ELSE task[w]
  PROVE  /\ QueueInv'
         /\ \A j \in Jobs : j \notin {task[w].job : w \in W} => phase'[j] = phase[j]
<1> DEFINE S == {task[w].job : w \in W} \ {0}
<1>1. PICK done \in SUBSET S :
        phase' = [j \in Jobs |-> IF j \notin S THEN phase[j]
                                 ELSE IF j \in done THEN "done" ELSE "pending"]
  BY DEF Queue!Release
<1>2. holder' = [j \in Jobs |-> IF j \in S THEN Nobody ELSE holder[j]]
  BY DEF Queue!Release
<1>3. \A j \in Jobs : /\ j \notin S => phase'[j] = phase[j] /\ holder'[j] = holder[j]
                      /\ j \in S => phase'[j] \in {"done", "pending"}
  BY <1>1, <1>2
<1>4. ASSUME NEW v \in Loops PROVE HoldsItsJob(v)'
  <2>1. HoldsItsJob(v)
    BY DEF QueueInv
  <2>2. CASE v \in W
    BY <2>2, IdleType DEF HoldsItsJob, GuidePlaces, BeforeGuide
  <2>3. CASE v \notin W
    <3>1. task'[v] = task[v] /\ task[v].job \in Jobs \cup {0}
      BY <2>3, TaskFields DEF TypeOK
    <3>2. task[v].job \notin S
      <4>1. ASSUME NEW w \in W, task[w].job = task[v].job, task[v].job # 0 PROVE FALSE
        <5>1. holder[task[v].job] = v /\ holder[task[w].job] = w
          BY <2>1, <4>1 DEF HoldsItsJob, QueueInv
        <5>2. QED
          BY <2>3, <4>1, <5>1
      <4>2. QED
        BY <4>1
    <3>3. QED
      BY <1>3, <2>1, <3>1, <3>2 DEF HoldsItsJob
  <2>4. QED
    BY <2>2, <2>3
<1>5. ASSUME NEW i \in Jobs, phase'[i] = "active"
      PROVE  holder'[i] \in Loops /\ task'[holder'[i]].job = i
  <2>1. i \notin S
    BY <1>3, <1>5
  <2>2. holder'[i] = holder[i] /\ holder[i] \in Loops /\ task[holder[i]].job = i
    BY <1>3, <1>5, <2>1 DEF QueueInv
  <2>3. holder[i] \notin W
    BY <2>1, <2>2, JobsAreNumbers
  <2>4. QED
    BY <2>2, <2>3
<1>6. \A j \in Jobs : j \notin {task[w].job : w \in W} => phase'[j] = phase[j]
  BY <1>3
<1>7. QED
  BY <1>4, <1>5, <1>6 DEF QueueInv

LEMMA SettleQueue ==
  ASSUME TypeOK, QueueInv, NEW w \in Loops, Settle(w)
  PROVE  /\ QueueInv'
         /\ \A j \in Jobs : j # task[w].job => phase'[j] = phase[j]
         /\ phase'[task[w].job] = IF task[w].at = "returned" THEN "done" ELSE "pending"
         /\ task[w].job \in Jobs
<1>1. task[w].job # 0 /\ task[w].job \in Jobs
  BY TaskFields DEF Settle, QueueInv, HoldsItsJob, TypeOK
<1>2. {task[v].job : v \in {w}} \ {0} = {task[w].job}
  BY <1>1
<1>3. Queue!Release({task[v].job : v \in {w}} \ {0})
  BY <1>2 DEF Settle
<1>4. \A v \in Loops : task'[v] = IF v \in {w} THEN Idle ELSE task[v]
  BY SettleMoves DEF TypeOK, Moved, Others
<1>5. QueueInv' /\ \A j \in Jobs : j \notin {task[v].job : v \in {w}} => phase'[j] = phase[j]
  BY <1>3, <1>4, ReleaseQueue
<1>6. phase'[task[w].job] = IF task[w].at = "returned" THEN "done" ELSE "pending"
  BY DEF Settle, StandsAt
<1>7. QED
  BY <1>1, <1>5, <1>6

LEMMA CrashQueue ==
  ASSUME TypeOK, QueueInv, NEW p, Crash(p)
  PROVE  /\ QueueInv'
         /\ \A j \in Jobs : phase'[j] = phase[j] \/ (phase[j] = "active" /\ phase'[j] = "pending")
         /\ \E j \in Jobs : phase'[j] = "pending"
<1> DEFINE W == {w \in Loops : PodOf(w) = p}
           S == {task[w].job : w \in W} \ {0}
<1>1. Queue!Release(S) /\ S # {} /\ \A j \in S : phase'[j] = "pending"
  BY DEF Crash
<1>2. \A v \in Loops : task'[v] = IF v \in W THEN Idle ELSE task[v]
  BY DEF Crash
<1>3. QueueInv' /\ \A j \in Jobs : j \notin {task[v].job : v \in W} => phase'[j] = phase[j]
  BY <1>1, <1>2, ReleaseQueue
<1>4. S \subseteq Jobs /\ \A j \in S : phase[j] = "active"
  BY <1>1, TaskFields DEF TypeOK, Queue!Release
<1>5. \A j \in Jobs : j \notin S => j \notin {task[v].job : v \in W}
  BY JobsAreNumbers
<1>6. QED
  BY <1>1, <1>3, <1>4, <1>5

LEMMA EventQueue ==
  ASSUME TypeOK, QueueInv, Environment
  PROVE  /\ QueueInv'
         /\ \A j \in Jobs : phase'[j] = phase[j] \/ (phase[j] = "none" /\ phase'[j] = "pending")
         /\ Close \/ ConflictChanges \/ \E j \in Jobs : phase'[j] = "pending"
<1>1. UNCHANGED task
  BY EventsLeave
<1>2. CASE UNCHANGED <<queueVars, row>> /\ (Close \/ ConflictChanges)
  BY <1>1, <1>2 DEF QueueInv, HoldsItsJob, queueVars
<1>3. ASSUME NEW j \in Jobs, Submit(j)
      PROVE  /\ QueueInv'
             /\ \A i \in Jobs : phase'[i] = phase[i] \/ (phase[i] = "none" /\ phase'[i] = "pending")
             /\ phase'[j] = "pending"
  <2>1. phase[j] = "none" /\ phase' = [phase EXCEPT ![j] = "pending"] /\ holder' = holder
    BY <1>3 DEF Submit, Queue!Submit
  <2>2. \A i \in Jobs : IF i = j THEN phase[i] = "none" /\ phase'[i] = "pending"
                        ELSE phase'[i] = phase[i]
    BY <2>1 DEF TypeOK, Types
  <2>3. \A w \in Loops : task[w].job \in Jobs \cup {0}
    BY TaskFields DEF TypeOK
  <2>4. QED
    BY <1>1, <2>1, <2>2, <2>3 DEF QueueInv, HoldsItsJob
<1>4. QED
  BY <1>2, <1>3, EventsSubmit DEF Jobs

LEMMA InitQueue == Init => QueueInv
BY DEF Init, Queue!Init, QueueInv, HoldsItsJob, Idle, GuidePlaces, BeforeGuide

-----------------------------------------------------------------------------
(***************************************************************************)
(* HEADs and check runs are numbered as they come.                         *)
(***************************************************************************)
ChecksNumbered ==
  \A c \in CheckIds : /\ checks[c].head <= pull.head
                      /\ checks[c].status = "absent" <=> checks[c].head = 0
                      /\ checks[c].status # "absent" =>
                           \A d \in CheckIds : d < c => checks[d].status # "absent"
HeadInv ==
  /\ ChecksNumbered
  /\ \A w \in Loops : /\ task[w].head <= pull.head
                      /\ task[w].check # 0 => checks[task[w].check].status # "absent"
  /\ \A j \in GuideJobs : row[j].check # 0 => checks[row[j].check].status # "absent"

(* The check run a step writes, and what it says of it.                    *)
WritesCheck(w, c, k) ==
  /\ c \in CheckIds /\ Written(k) /\ checks' = [checks EXCEPT ![c] = k]
  /\ \/ /\ task[w].at \in {"join", "think"} /\ c = task[w].check
        /\ k.head = checks[c].head /\ k.conclusion = "none"
     \/ /\ task[w].at \in {"conclude", "insist", "cancel", "abort"} /\ c = task[w].check
        /\ k.head = checks[c].head /\ k.conclusion = Outcome(w) /\ k.status = "completed"
     \/ /\ task[w].at = "create" /\ Unused(c)
        /\ k.head = task[w].head /\ k.conclusion = "none"
     \/ /\ task[w].at = "write" /\ k = Findings(w) /\ k.head = task[w].head
        /\ IF task[w].check = 0 THEN Unused(c) ELSE c = task[w].check

LEMMA ChecksWritten ==
  ASSUME Types, NEW w \in Loops, Effect(w)
  PROVE  UNCHANGED checks \/ \E c, k : WritesCheck(w, c, k)
<1>1. CASE task[w].at \in {"join", "think"} /\ Updates(Reopened(task[w].check))
  <2>1. CASE task[w].check = 0 /\ checks' = checks
    BY <2>1
  <2>2. ASSUME NEW k, Rewrites(w, task[w].check, k), k.conclusion = "none",
               k.head = checks[task[w].check].head
        PROVE  WritesCheck(w, task[w].check, k)
    BY <1>1, <2>2 DEF Rewrites, WritesCheck
  <2>3. checks' = Reopened(task[w].check)
    BY <1>1 DEF Updates
  <2>4. QED
    BY <2>1, <2>2, <2>3, ReopenedRewrites
<1>2. CASE StandsAt(w, "create") /\ \E c \in CheckIds : Creates(w, c)
  <2>1. PICK c \in CheckIds : Creates(w, c)
    BY <1>2
  <2>2. Unused(c) /\ \E k : Rewrites(w, c, k) /\ k.conclusion = "none" /\ k.head = task[w].head
    BY <2>1, CreatesRewrites
  <2>3. ASSUME NEW k, Rewrites(w, c, k), k.conclusion = "none", k.head = task[w].head
        PROVE  WritesCheck(w, c, k)
    BY <1>2, <2>2, <2>3 DEF Rewrites, WritesCheck, StandsAt
  <2>4. QED
    BY <2>2, <2>3
<1>3. CASE Concludes(w)
  <2>1. CASE task[w].check = 0 /\ checks' = checks
    BY <2>1
  <2>2. ASSUME NEW k, Rewrites(w, task[w].check, k), k.conclusion = Outcome(w),
               k.status = "completed", k.head = checks[task[w].check].head
        PROVE  WritesCheck(w, task[w].check, k)
    BY <1>3, <2>2 DEF Rewrites, WritesCheck, Concludes
  <2>3. QED
    BY <1>3, <2>1, <2>2, ConcludesRewrites
<1>4. CASE Writes(w)
  <2>1. PICK c \in CheckIds :
          /\ Rewrites(w, c, Findings(w))
          /\ IF task[w].check = 0 THEN Unused(c) ELSE c = task[w].check
    BY <1>4, WritesRewrites
  <2>2. Findings(w).head = task[w].head
    BY FindingsSay
  <2>3. WritesCheck(w, c, Findings(w))
    BY <1>4, <2>1, <2>2 DEF Rewrites, WritesCheck, Writes, StandsAt
  <2>4. QED
    BY <2>3
<1>5. QED
  BY <1>1, <1>2, <1>3, <1>4
     DEF Effect, Reads, github, RecordsTarget, RecordsCheck, Demands, PostsThread, PostsSummary,
         TakesTurn, TakesLock, Leaves

LEMMA CheckFields ==
  ASSUME Types, NEW c \in CheckIds
  PROVE  /\ checks[c] \in Check /\ checks[c].head \in Nat
         /\ checks[c].status \in {"absent", "in_progress", "completed"}
         /\ c \in Nat /\ c # 0
BY DEF Types, Check, Heads, CheckIds

(* A new check run is numbered next.                                       *)
LEMMA UnusedIsNext ==
  ASSUME Types, ChecksNumbered, NEW c \in CheckIds, Unused(c)
  PROVE  \A d \in CheckIds : checks[d].status = "absent" <=> c <= d
<1>1. ASSUME NEW d \in CheckIds, c <= d PROVE checks[d].status = "absent"
  <2>1. c = d \/ c < d
    BY <1>1 DEF CheckIds
  <2>2. QED
    BY <2>1 DEF Unused, ChecksNumbered
<1>2. ASSUME NEW d \in CheckIds, ~(c <= d) PROVE checks[d].status # "absent"
  <2>1. d < c
    BY <1>2 DEF CheckIds
  <2>2. QED
    BY <2>1 DEF Unused
<1>3. QED
  BY <1>1, <1>2

(* What becomes of the check runs when one of them is written.             *)
LEMMA WrittenChecks ==
  ASSUME Types, HeadInv, HeadsKnown, NEW w \in Loops, NEW c, NEW k, WritesCheck(w, c, k)
  PROVE  /\ c \in CheckIds /\ checks'[c] = k /\ \A d \in CheckIds : d # c => checks'[d] = checks[d]
         /\ k.head \in Nat /\ k.head # 0 /\ k.head <= pull.head /\ k.status # "absent"
         /\ checks[c].status # "absent" \/ Unused(c)
<1>1. c \in CheckIds /\ checks' = [checks EXCEPT ![c] = k] /\ k.status # "absent" /\ k \in Check
  BY DEF WritesCheck, Written
<1>2. checks'[c] = k /\ \A d \in CheckIds : d # c => checks'[d] = checks[d]
  BY <1>1 DEF Types
<1>3. checks[c].status # "absent" \/ Unused(c)
  BY <1>1 DEF WritesCheck, HeadInv, CheckIds
<1>4. k.head # 0 /\ k.head <= pull.head
  <2>1. CASE k.head = checks[c].head /\ c = task[w].check
    BY <1>1, <2>1 DEF HeadInv, ChecksNumbered, CheckIds
  <2>2. CASE k.head = task[w].head /\ task[w].at \in {"create", "write"}
    BY <2>2 DEF HeadInv, HeadsKnown, HeadKnown
  <2>3. QED
    BY <2>1, <2>2 DEF WritesCheck
<1>5. k.head \in Nat
  BY <1>1 DEF Check, Heads
<1>6. QED
  BY <1>1, <1>2, <1>3, <1>4, <1>5

(* A failing call changes none of these.                                   *)
LEMMA StumblesKeep ==
  ASSUME Types, NEW w \in Loops, Stumbles(w)
  PROVE  /\ task'[w].head = task[w].head /\ task'[w].check = task[w].check
         /\ task'[w].items = task[w].items /\ task'[w].inconclusive = task[w].inconclusive
         /\ task'[w].latest = task[w].latest /\ task'[w].read = task[w].read
         /\ task'[w].markers = task[w].markers /\ task'[w].plan = task[w].plan
<1>1. task[w] \in Task
  BY TaskFields
<1>2. \/ \E at : task'[w] = [task[w] EXCEPT !.at = at]
      \/ task'[w] = [task[w] EXCEPT !.at = "leave", !.broken = TRUE]
      \/ \E S : task'[w] = [task[w] EXCEPT !.posted = S, !.broken = TRUE]
  BY LocalOfMove DEF Stumbles, Go, Throws, Tracked
<1>3. QED
  BY ZenonT(30), <1>1, <1>2 DEF Task

LEMMA StepNumbers ==
  ASSUME Types, HeadInv, HeadsKnown, NEW w \in Loops, Effect(w)
  PROVE  /\ ChecksNumbered'
         /\ \A c \in CheckIds : checks[c].status # "absent" => checks'[c].status # "absent"
<1>1. pull' = pull
  BY EffectKeeps
<1>2. CASE UNCHANGED checks
  BY <1>1, <1>2 DEF HeadInv, ChecksNumbered
<1>3. ASSUME NEW c, NEW k, WritesCheck(w, c, k)
      PROVE  /\ ChecksNumbered'
             /\ \A d \in CheckIds : checks[d].status # "absent" => checks'[d].status # "absent"
  <2>1. /\ c \in CheckIds /\ checks'[c] = k /\ \A d \in CheckIds : d # c => checks'[d] = checks[d]
        /\ k.head \in Nat /\ k.head # 0 /\ k.head <= pull.head /\ k.status # "absent"
        /\ checks[c].status # "absent" \/ Unused(c)
    BY <1>3, WrittenChecks
  <2>2. \A d \in CheckIds : checks[d].status # "absent" => checks'[d].status # "absent"
    BY <2>1
  <2>3. \A d \in CheckIds : d < c => checks[d].status # "absent"
    BY <2>1 DEF Unused, HeadInv, ChecksNumbered
  <2>4. ASSUME NEW d \in CheckIds
        PROVE  /\ checks'[d].head <= pull'.head
               /\ checks'[d].status = "absent" <=> checks'[d].head = 0
               /\ checks'[d].status # "absent" =>
                    \A e \in CheckIds : e < d => checks'[e].status # "absent"
    BY <1>1, <2>1, <2>2, <2>3 DEF HeadInv, ChecksNumbered
  <2>5. QED
    BY <2>2, <2>4 DEF ChecksNumbered
<1>4. QED
  BY <1>2, <1>3, ChecksWritten

(* The check run a handler works with, and the one its row remembers.      *)
LEMMA StepCheck ==
  ASSUME Types, HeadInv, HeadsKnown, NEW w \in Loops, StepOf(w), Local(w), Effect(w)
  PROVE  task'[w].check # 0 => checks'[task'[w].check].status # "absent"
<1>1. \A c \in CheckIds : checks[c].status # "absent" => checks'[c].status # "absent"
  BY StepNumbers
<1>2. CASE task'[w].check = task[w].check
  BY <1>1, <1>2, TaskFields DEF HeadInv
<1>3. CASE task'[w].check # task[w].check
  <2>1. task[w].at \in {"find", "create", "checks"}
    BY <1>3 DEF Local, Changes
  <2>2. Handler(w)
    <3>1. ASSUME Fails(w) PROVE task'[w].check = task[w].check
      <4>1. QED
        BY <3>1, FailsStumbles, StumblesKeep
    <3>2. QED
      BY <1>3, <3>1 DEF StepOf
  <2>3. CASE task[w].at = "find"
    <3>1. Find(w) /\ UNCHANGED checks
      BY <2>2, <2>3, ActionAt, EffectKeeps DEF StandsAt
    <3>2. \/ \E at : task'[w] = [task[w] EXCEPT !.at = at]
          \/ \E i \in GuideJobs : task'[w] = [task[w] EXCEPT !.at = "join", !.check = row[i].check]
      BY <3>1, LocalOfMove DEF Find, Tracked
    <3>3. \E i \in GuideJobs : task'[w].check = row[i].check
      BY <1>3, <3>2, TaskFields DEF Task
    <3>4. QED
      BY <3>1, <3>3 DEF HeadInv
  <2>4. CASE task[w].at = "create"
    <3>1. Create(w)
      BY <2>2, <2>4, ActionAt DEF StandsAt
    <3>2. PICK c \in CheckIds : Creates(w, c) /\ Move(w, [task[w] EXCEPT !.at = "record", !.check = c])
      BY <3>1 DEF Create
    <3>3. task'[w].check = c
      <4>1. task'[w] = [task[w] EXCEPT !.at = "record", !.check = c]
        BY <3>2, LocalOfMove
      <4>2. QED
        BY <4>1, TaskFields DEF Task
    <3>4. checks'[c].status = "in_progress"
      BY <3>2 DEF Creates, Updates, NoCheck, Types
    <3>5. QED
      BY <3>3, <3>4
  <2>5. CASE task[w].at = "checks"
    <3>1. ReadChecks(w) /\ UNCHANGED checks
      BY <2>2, <2>5, ActionAt, EffectKeeps DEF StandsAt
    <3>2. \E c, k : /\ task'[w] = [task[w] EXCEPT !.at = "reread", !.check = c, !.latest = k]
                    /\ c = 0 \/ (OfHead(task[w].head) # {} /\ c = LatestOf(task[w].head))
      BY <3>1, LocalOfMove DEF ReadChecks
    <3>3. \/ task'[w].check = 0
          \/ OfHead(task[w].head) # {} /\ task'[w].check = LatestOf(task[w].head)
      BY <3>2, TaskFields DEF Task
    <3>4. ASSUME task'[w].check # 0 PROVE checks[task'[w].check].status # "absent"
      <4>1. task'[w].check \in OfHead(task[w].head)
        BY <3>3, <3>4, LatestIsNewest DEF Newest
      <4>2. task[w].head # 0
        BY <2>5 DEF HeadsKnown, HeadKnown
      <4>3. QED
        BY <4>1, <4>2 DEF OfHead, HeadInv, ChecksNumbered
    <3>5. QED
      BY <3>1, <3>4
  <2>6. QED
    BY <2>1, <2>3, <2>4, <2>5
<1>4. QED
  BY <1>2, <1>3

(* What a step writes into its job's row.                                  *)
LEMMA RowChanges ==
  ASSUME Types, NEW w \in Loops, Effect(w), NEW j \in GuideJobs
  PROVE  /\ row'[j] = row[j] \/ (j = task[w].job /\ task[w].at \in {"target", "record"})
         /\ row'[j].earlier = row[j].earlier
         /\ row'[j].check = row[j].check
            \/ (j = task[w].job /\ task[w].at = "record" /\ row'[j].check = task[w].check)
         /\ row'[j].target = row[j].target
            \/ (j = task[w].job /\ task[w].at = "target" /\ row'[j].target = task[w].head)
<1>1. row[j] \in Row /\ row \in [GuideJobs -> Row]
  BY DEF Types
<1>2. CASE UNCHANGED row
  BY <1>2
<1>3. CASE StandsAt(w, "target") /\ RecordsTarget(w)
  <2>1. row'[j] = IF j = task[w].job THEN [row[j] EXCEPT !.target = task[w].head] ELSE row[j]
    BY <1>1, <1>3 DEF RecordsTarget
  <2>2. QED
    BY <1>1, <1>3, <2>1 DEF StandsAt, Row
<1>4. CASE StandsAt(w, "record") /\ RecordsCheck(w)
  <2>1. row'[j] = IF j = task[w].job THEN [row[j] EXCEPT !.check = task[w].check] ELSE row[j]
    BY <1>1, <1>4 DEF RecordsCheck
  <2>2. QED
    BY <1>1, <1>4, <2>1 DEF StandsAt, Row
<1>5. QED
  BY <1>2, <1>3, <1>4
     DEF Effect, Reads, Updates, Creates, Concludes, Writes, Demands, PostsThread, PostsSummary,
         TakesTurn, TakesLock, Leaves

LEMMA StepHeads ==
  ASSUME TypeOK, HeadInv, HeadsKnown, NEW w \in Loops, StepOf(w)
  PROVE  HeadInv'
<1>1. Types /\ Local(w) /\ Others(w) /\ Effect(w) /\ UNCHANGED pull
  BY StepFacts
<1>2. /\ ChecksNumbered'
      /\ \A c \in CheckIds : checks[c].status # "absent" => checks'[c].status # "absent"
  BY <1>1, StepNumbers
<1>3. ASSUME NEW v \in Loops
      PROVE  /\ task'[v].head <= pull'.head
             /\ task'[v].check # 0 => checks'[task'[v].check].status # "absent"
  <2>1. CASE v = w
    <3>1. task'[w].head <= pull.head
      BY <1>1, TypeOK DEF Local, Changes, HeadInv, Types, Heads
    <3>2. QED
      BY <1>1, <2>1, <3>1, StepCheck
  <2>2. CASE v # w
    BY <1>1, <1>2, <2>2, TaskFields DEF HeadInv, Others
  <2>3. QED
    BY <2>1, <2>2
<1>4. ASSUME NEW j \in GuideJobs
      PROVE  row'[j].check # 0 => checks'[row'[j].check].status # "absent"
  <2>1. row[j].check \in CheckIds \cup {0} /\ task[w].check \in CheckIds \cup {0}
    BY <1>1, TaskFields DEF Types, Row
  <2>2. row'[j].check = row[j].check \/ row'[j].check = task[w].check
    BY <1>1, RowChanges
  <2>3. QED
    BY <1>2, <2>1, <2>2 DEF HeadInv
<1>5. QED
  BY <1>2, <1>3, <1>4 DEF HeadInv

LEMMA OtherHeads ==
  ASSUME TypeOK, HeadInv, HeadsKnown, [Next]_vars, \A w \in Loops : ~StepOf(w)
  PROVE  HeadInv'
<1>1. Types /\ pull.head \in Nat
  BY DEF TypeOK, Types, Heads
<1>2. CASE UNCHANGED vars
  BY <1>2 DEF vars, HeadInv, ChecksNumbered
<1>3. ASSUME NEW w \in Loops, NEW j \in Jobs, Lease(w, j) PROVE HeadInv'
  <2>1. /\ Others(w) /\ task'[w].head = 0
        /\ task'[w].check = IF j \in GuideJobs THEN row[j].check ELSE 0
        /\ \A i \in GuideJobs : row'[i].check = row[i].check
    BY <1>1, <1>3, LeaseMoves DEF Moved
  <2>2. UNCHANGED <<pull, checks>>
    BY <1>3 DEF Lease, github
  <2>3. ASSUME NEW v \in Loops
        PROVE  /\ task'[v].head <= pull.head
               /\ task'[v].check # 0 => checks[task'[v].check].status # "absent"
    <3>1. CASE v = w
      <4>1. task'[w].head <= pull.head
        BY <1>1, <2>1
      <4>2. task'[w].check # 0 => j \in GuideJobs /\ task'[w].check = row[j].check
        BY <2>1
      <4>3. j \in GuideJobs /\ row[j].check # 0 => checks[row[j].check].status # "absent"
        BY DEF HeadInv
      <4>4. QED
        BY <3>1, <4>1, <4>2, <4>3
    <3>2. CASE v # w
      BY <2>1, <3>2 DEF HeadInv, Others
    <3>3. QED
      BY <3>1, <3>2
  <2>4. ChecksNumbered'
    BY <2>2 DEF HeadInv, ChecksNumbered
  <2>5. \A i \in GuideJobs : row'[i].check # 0 => checks'[row'[i].check].status # "absent"
    BY <2>1, <2>2 DEF HeadInv
  <2>6. QED
    BY <2>2, <2>3, <2>4, <2>5 DEF HeadInv
<1>4. ASSUME NEW w \in Loops, Settle(w) PROVE HeadInv'
  <2>1. Others(w) /\ task'[w] = Idle /\ Idle.head = 0 /\ Idle.check = 0
    BY <1>1, <1>4, SettleMoves DEF Moved, Idle
  <2>2. UNCHANGED <<pull, checks, row>>
    BY <1>4 DEF Settle, github
  <2>3. \A v \in Loops : task'[v].head <= pull.head /\ (task'[v].check # 0 => task'[v].check = task[v].check)
    BY <1>1, <2>1 DEF HeadInv, Others
  <2>4. QED
    BY <2>2, <2>3 DEF HeadInv, ChecksNumbered
<1>5. ASSUME NEW p, Crash(p) PROVE HeadInv'
  <2>1. \A w \in Loops : IF PodOf(w) = p THEN task'[w] = Idle ELSE task'[w] = task[w]
    BY <1>1, <1>5, CrashMoves
  <2>2. Idle.head = 0 /\ Idle.check = 0
    BY DEF Idle
  <2>3. UNCHANGED <<pull, checks, row>>
    BY <1>5 DEF Crash, github
  <2>4. QED
    BY <1>1, <2>1, <2>2, <2>3 DEF HeadInv, ChecksNumbered
<1>6. CASE Environment
  <2>1. UNCHANGED <<task, checks>>
    BY <1>6, EventsLeave
  <2>2. pull.head <= pull'.head /\ pull'.head \in Nat
    BY <1>1, <1>6, EventsOnPull DEF Types, PullType, Heads
  <2>3. \A i \in GuideJobs : row'[i].check = row[i].check
    <3>1. ASSUME NEW j \in Jobs, Submit(j), NEW i \in GuideJobs PROVE row'[i].check = row[i].check
      <4>1. row[i] \in Row
        BY <1>1 DEF Types
      <4>2. QED
        BY <1>1, <3>1, <4>1 DEF Submit, Types, Row
    <3>2. QED
      BY <1>6, <3>1, EventsSubmit DEF Jobs
  <2>4. \A w \in Loops : task[w].head \in Nat
    BY <1>1, TaskFields DEF Heads
  <2>5. \A c \in CheckIds : checks[c].head \in Nat
    BY <1>1, CheckFields
  <2>6. QED
    BY <1>1, <2>1, <2>2, <2>3, <2>4, <2>5 DEF HeadInv, ChecksNumbered
<1>7. QED
  BY <1>2, <1>3, <1>4, <1>5, <1>6, NextCases

LEMMA InitHeads == Init => HeadInv
BY DEF Init, HeadInv, ChecksNumbered, NoCheck, Idle, NewRow

-----------------------------------------------------------------------------
(***************************************************************************)
(* The publication of the guide.                                           *)
(***************************************************************************)
NoSuccess == \A c \in CheckIds : checks[c].conclusion # "success"
NoThreads == \A i \in Items : thread[i] = "none"

(* What a handler means to post, and has tried to.                         *)
Untouched == {"marker", "context", "target", "find", "create", "record", "think"}
Planned(t) ==
  /\ t.at \in Untouched => t.items = {} /\ ~t.inconclusive
  /\ t.at \in Untouched \cup {"current", "publish"} => t.posted = {} /\ ~t.broken
  /\ t.at \in {"current", "publish", "post", "conclude"} => (t.inconclusive => t.items = {})
  /\ t.at \in {"post", "conclude"} => t.posted \subseteq t.items
  /\ t.at = "conclude" => t.posted = t.items
PlanInv == \A w \in Loops : Planned(task[w])

(* Some failed call, or none.                                              *)
LEMMA StepFaults ==
  ASSUME Types, NEW w \in Loops, StepOf(w)
  PROVE  /\ \/ Handler(w) /\ UNCHANGED faults
            \/ Fails(w) /\ faults' = [faults EXCEPT !.errors = @ + 1]
         /\ InOneGo' => InOneGo /\ Handler(w)
         /\ Fails(w) => ~InOneGo'
<1>1. \/ Handler(w) /\ UNCHANGED faults
      \/ Fails(w) /\ faults' = [faults EXCEPT !.errors = @ + 1]
  BY FailsStumbles DEF StepOf, Stumbles
<1>2. Fails(w) => faults' = [faults EXCEPT !.errors = @ + 1]
  BY FailsStumbles DEF Stumbles
<1>3. faults.errors + 1 # 0
  BY DEF Types
<1>4. QED
  BY <1>1, <1>2, <1>3 DEF InOneGo, Types

(* The model's answer.                                                     *)
LEMMA ThinkStep ==
  ASSUME Types, NEW w \in Loops, StepOf(w), task[w].at = "think"
  PROVE  /\ task'[w].posted = task[w].posted /\ task'[w].broken = task[w].broken
         /\ \/ task'[w].inconclusive = task[w].inconclusive
            \/ task'[w].items = task[w].items
<1>1. CASE Fails(w)
  <2>1. CallFails(w)
    BY <1>1 DEF Fails, CreateFails, LeaveFails, Leaves, PostFails, StandsAt
  <2>2. task'[w] = [task[w] EXCEPT !.at = "abort"]
    BY <2>1, LocalOfMove DEF CallFails, Thrown, Go, InLock, BeforeTry
  <2>3. QED
    BY <2>2, TaskFields DEF Task
<1>2. CASE Handler(w)
  <2>1. Think(w) \/ NoCriteria(w)
    BY <1>2, ActionAt DEF StandsAt
  <2>2. \/ \E at, S : task'[w] = [task[w] EXCEPT !.at = at, !.items = S]
        \/ task'[w] = [task[w] EXCEPT !.at = "current", !.inconclusive = TRUE]
    BY <2>1, LocalOfMove DEF Think, NoCriteria
  <2>3. QED
    BY ZenonT(30), <2>2, TaskFields DEF Task
<1>3. QED
  BY <1>1, <1>2 DEF StepOf

(* Posting: a thread, or a failed attempt at one, no thread at all for     *)
(* want of a file, the summary, or its failure.                            *)
PostsOne(w, i) ==
  /\ i \in task[w].items \ task[w].posted /\ task'[w].at = "post"
  /\ task'[w].posted = task[w].posted \cup {i} /\ task'[w].items = task[w].items
  /\ UNCHANGED notes
  /\ \/ /\ Handler(w) /\ thread' = [thread EXCEPT ![i] = "open"]
        /\ task'[w].broken = task[w].broken
     \/ /\ Fails(w) /\ thread' \in {thread, [thread EXCEPT ![i] = "open"]}
PostsNone(w) ==
  /\ Handler(w) /\ task[w].posted = {} /\ task'[w].at = "post"
  /\ task'[w].posted = task[w].items /\ task'[w].items = task[w].items /\ task'[w].broken
  /\ UNCHANGED <<thread, notes>>
PostsAll(w) ==
  /\ Handler(w) /\ task[w].posted = task[w].items /\ task'[w].at = "conclude"
  /\ task'[w].posted = task[w].posted /\ task'[w].items = task[w].items
  /\ task'[w].broken = task[w].broken
  /\ "published" \in notes' /\ UNCHANGED thread
PostsFail(w) == Fails(w) /\ task'[w].at = "abort" /\ notes \subseteq notes' /\ UNCHANGED thread

LEMMA PostStep ==
  ASSUME Types, NEW w \in Loops, StepOf(w), task[w].at = "post"
  PROVE  \/ \E i \in Items : PostsOne(w, i)
         \/ PostsNone(w) \/ PostsAll(w) \/ PostsFail(w)
<1>0. task[w] \in Task
  BY TaskFields
<1>1. CASE Handler(w)
  <2>1. NoPath(w) \/ PostSummary(w) \/ \E i \in Items : PostThread(w, i)
    BY <1>1, ActionAt DEF StandsAt
  <2>2. CASE NoPath(w)
    <3>1. task'[w] = [task[w] EXCEPT !.posted = task[w].items, !.broken = TRUE]
      BY <2>2, LocalOfMove DEF NoPath
    <3>2. /\ task'[w].at = task[w].at /\ task'[w].posted = task[w].items
          /\ task'[w].items = task[w].items /\ task'[w].broken
      BY <1>0, <3>1 DEF Task
    <3>3. PostsNone(w)
      BY <1>1, <2>2, <3>2 DEF PostsNone, NoPath, Reads, github
    <3>4. QED
      BY <3>3
  <2>3. CASE PostSummary(w)
    <3>1. task'[w] = [task[w] EXCEPT !.at = "conclude"]
      BY <2>3, LocalOfMove DEF PostSummary, Go
    <3>2. /\ task'[w].at = "conclude" /\ task'[w].posted = task[w].posted
          /\ task'[w].items = task[w].items /\ task'[w].broken = task[w].broken
      BY <1>0, <3>1 DEF Task
    <3>3. PostsAll(w)
      BY <1>1, <2>3, <3>2 DEF PostsAll, PostSummary, PostsSummary, Summary
    <3>4. QED
      BY <3>3
  <2>4. ASSUME NEW i \in Items, PostThread(w, i) PROVE PostsOne(w, i)
    <3>1. task'[w] = [task[w] EXCEPT !.posted = task[w].posted \cup {i}]
      BY <2>4, LocalOfMove DEF PostThread
    <3>2. /\ task'[w].at = task[w].at /\ task'[w].posted = task[w].posted \cup {i}
          /\ task'[w].items = task[w].items /\ task'[w].broken = task[w].broken
      BY <1>0, <3>1 DEF Task
    <3>3. QED
      BY <1>1, <2>4, <3>2 DEF PostsOne, PostThread, PostsThread, NextItem
  <2>5. QED
    BY <2>1, <2>2, <2>3, <2>4
<1>2. CASE Fails(w)
  <2>1. CallFails(w) \/ \E i \in Items : PostFails(w, i)
    BY <1>2 DEF Fails, CreateFails, LeaveFails, Leaves, StandsAt
  <2>2. CASE CallFails(w)
    <3>1. task'[w] = [task[w] EXCEPT !.at = "abort"]
      BY <2>2, LocalOfMove DEF CallFails, Thrown, Go, InLock, BeforeTry
    <3>2. task'[w].at = "abort"
      BY <1>0, <3>1 DEF Task
    <3>3. notes \subseteq notes' /\ UNCHANGED thread
      BY <2>2 DEF CallFails, CarriedOut, Demands, PostsSummary, Concludes, Writes, Summary, github,
         StandsAt
    <3>4. QED
      BY <1>2, <3>2, <3>3 DEF PostsFail
  <2>3. ASSUME NEW i \in Items, PostFails(w, i) PROVE PostsOne(w, i)
    <3>1. task'[w] = [task[w] EXCEPT !.posted = task[w].posted \cup {i}, !.broken = TRUE]
      BY <2>3, LocalOfMove DEF PostFails
    <3>2. /\ task'[w].at = task[w].at /\ task'[w].posted = task[w].posted \cup {i}
          /\ task'[w].items = task[w].items
      BY <1>0, <3>1 DEF Task
    <3>3. QED
      BY <1>2, <2>3, <3>2 DEF PostsOne, PostFails, PostsThread, NextItem, github
  <2>4. QED
    BY <2>1, <2>2, <2>3
<1>3. QED
  BY <1>1, <1>2 DEF StepOf

LEMMA StepPlans ==
  ASSUME Types, PlanInv, NEW w \in Loops, StepOf(w), Local(w), Others(w)
  PROVE  PlanInv'
<1>1. Planned(task[w]) /\ task[w].at \in Places
  BY TaskFields DEF PlanInv
<1>2. Planned(task'[w])
  <2>1. CASE task[w].at = "think"
    <3>1. task'[w].at \in {"current", "publish", "abort"}
      BY <2>1 DEF Local, Changes, Edge
    <3>2. QED
      BY <1>1, <2>1, <3>1, ThinkStep DEF Planned, Untouched
  <2>2. CASE task[w].at = "post"
    <3>1. task'[w].inconclusive = task[w].inconclusive
      BY <2>2 DEF Local, Changes
    <3>2. ASSUME NEW i \in Items, PostsOne(w, i) PROVE Planned(task'[w])
      BY <1>1, <2>2, <3>1, <3>2 DEF Planned, Untouched, PostsOne
    <3>3. CASE PostsNone(w)
      BY <1>1, <2>2, <3>1, <3>3 DEF Planned, Untouched, PostsNone
    <3>4. CASE PostsAll(w)
      BY <1>1, <2>2, <3>1, <3>4 DEF Planned, Untouched, PostsAll
    <3>5. CASE PostsFail(w)
      BY <3>5 DEF Planned, Untouched, PostsFail
    <3>6. QED
      BY <2>2, <3>2, <3>3, <3>4, <3>5, PostStep
  <2>3. CASE task[w].at \notin {"think", "post"}
    <3>1. /\ task'[w].items = task[w].items /\ task'[w].inconclusive = task[w].inconclusive
          /\ task'[w].posted = task[w].posted
          /\ task'[w].at # "leave" => task'[w].broken = task[w].broken
      BY <2>3 DEF Local, Changes
    <3>2. /\ task'[w].at \in Untouched => task[w].at \in Untouched
          /\ task'[w].at = "publish" => task[w].at = "current"
          /\ task'[w].at \in {"post"} => task[w].at = "publish"
          /\ task'[w].at \notin {"current", "conclude"}
      BY <1>1, <2>3 DEF Local, Changes, Edge, Untouched, Places, BeforeTry, InTry, InLock
    <3>3. task'[w].at \in Untouched \cup {"publish"} =>
            task[w].at \in Untouched \cup {"current"} /\ task'[w].broken = task[w].broken
      BY <3>1, <3>2 DEF Untouched
    <3>4. task'[w].at = "post" => task'[w].broken = task[w].broken
      BY <3>1
    <3>5. QED
      BY <1>1, <3>1, <3>2, <3>3, <3>4 DEF Planned
  <2>4. QED
    BY <2>1, <2>2, <2>3
<1>3. QED
  BY <1>2 DEF PlanInv, Others

LEMMA LeasedPlan ==
  ASSUME NEW at \in {"marker", "ignore"}, NEW j \in Jobs, NEW c \in CheckIds \cup {0}
  PROVE  Planned(Leased(at, j, c))
<1>1. LET t == Leased(at, j, c) IN
      /\ t.at = at /\ t.items = {} /\ t.posted = {} /\ t.broken = FALSE /\ t.inconclusive = FALSE
  BY DEF Leased, Idle
<1>2. QED
  BY <1>1 DEF Planned, Untouched

LEMMA OtherPlans ==
  ASSUME TypeOK, PlanInv, [Next]_vars, \A w \in Loops : ~StepOf(w)
  PROVE  PlanInv'
<1>1. Types
  BY DEF TypeOK
<1>2. Planned(Idle)
  BY DEF Idle, Planned, Untouched
<1>3. ASSUME NEW w \in Loops, NEW j \in Jobs, Lease(w, j) PROVE PlanInv'
  <2> DEFINE at == IF j \in GuideJobs THEN "marker" ELSE "ignore"
             c == IF j \in GuideJobs THEN row[j].check ELSE 0
  <2>1. at \in {"marker", "ignore"} /\ c \in CheckIds \cup {0}
    BY <1>1 DEF Types, Row
  <2>2. task' = [task EXCEPT ![w] = Leased(at, j, c)]
    BY <1>3 DEF Lease, Move, Leased
  <2> HIDE DEF at, c
  <2>3. Planned(Leased(at, j, c))
    BY <2>1, LeasedPlan
  <2>4. QED
    BY <1>1, <2>2, <2>3 DEF PlanInv, Types
<1>4. ASSUME NEW w \in Loops, Settle(w) PROVE PlanInv'
  BY <1>1, <1>2, <1>4, SettleMoves DEF PlanInv, Moved, Others
<1>5. ASSUME NEW p, Crash(p) PROVE PlanInv'
  BY <1>1, <1>2, <1>5, CrashMoves DEF PlanInv
<1>6. CASE Environment \/ UNCHANGED vars
  <2>1. UNCHANGED task
    BY <1>6, EventsLeave DEF vars
  <2>2. QED
    BY <2>1 DEF PlanInv
<1>7. QED
  BY <1>3, <1>4, <1>5, <1>6, NextCases

LEMMA InitPlans == Init => PlanInv
BY DEF Init, PlanInv, Planned, Untouched, Idle

(* One standard loop serves the pull request, and nobody touches a thread  *)
(* or asks for its status while the guide is being posted.                 *)
OneGuideLoop ==
  \A v, w \in Loops : LaneOf(v) = "standard" /\ LaneOf(w) = "standard" => v = w

Posted(w) ==
  /\ \A i \in Items : thread[i] # "none" => i \in task[w].posted
  /\ InOneGo /\ task[w].broken => NoThreads /\ task[w].posted = task[w].items
  /\ InOneGo /\ ~task[w].broken => \A i \in task[w].posted : thread[i] = "open"
Stands(w) ==
  /\ task[w].at \in BeforeGuide => ~Published
  /\ task[w].at \in {"post", "conclude"} => Posted(w)
  /\ task[w].at = "conclude" => "published" \in notes
  /\ task[w].at \in {"ignore", "turn"} \cup InLock => Published
  /\ task[w].at \in {"threads", "checks", "reread", "write"} => "published" \in task[w].markers
NoStatusJob == \A s \in StatusJobs : phase[s] = "none"
PublicationInv ==
  /\ \A w \in Loops : Stands(w)
  /\ ~Published \/ Publishing => NoStatusJob
  /\ ~Published \/ (\E w \in Loops : task[w].at = "post") => NoSuccess
  /\ Publishing => NoSuccess \/ NoThreads

PublishingPlaces == {"think", "current", "publish", "post", "conclude", "abort"}

LEMMA GuideLane ==
  ASSUME Types, QueueInv, NEW w \in Loops, task[w].at \in GuidePlaces
  PROVE  /\ task[w].job \in GuideJobs /\ LaneOf(w) = "standard"
         /\ task[w].at \in PublishingPlaces => Publishing
<1>1. task[w].job \in GuideJobs /\ task[w].job # 0
  BY DEF QueueInv, HoldsItsJob
<1>2. LaneOf(w) = "standard"
  BY <1>1 DEF QueueInv, HoldsItsJob, Lane
<1>3. QED
  BY <1>1, <1>2 DEF Publishing, PublishingPlaces

(* While no status job was ever submitted, only one loop is at work.       *)
LEMMA AtWorkAlone ==
  ASSUME Types, QueueInv, OneGuideLoop, NoStatusJob,
         NEW v \in Loops, NEW w \in Loops, task[v].at # "idle", task[w].at # "idle"
  PROVE  v = w
<1>1. ASSUME NEW u \in Loops, task[u].at # "idle" PROVE LaneOf(u) = "standard"
  <2>1. task[u].job \in Jobs /\ phase[task[u].job] = "active" /\ Lane(task[u].job) = LaneOf(u)
    BY <1>1, TaskFields DEF QueueInv, HoldsItsJob
  <2>2. task[u].job \notin StatusJobs
    BY <2>1 DEF NoStatusJob
  <2>3. QED
    BY <2>1, <2>2 DEF Jobs, Lane
<1>2. QED
  BY <1>1 DEF OneGuideLoop

LEMMA PublishedByPost ==
  ASSUME NEW w \in Loops, Effect(w), task[w].at # "post"
  PROVE  Published' = Published /\ UNCHANGED <<thread, notes>>
BY EffectKeeps DEF Published

(* Which outcomes a review writes, and that a success is of a guide that   *)
(* has nothing to ask.                                                     *)
LEMMA OutcomeSays ==
  ASSUME NEW w
  PROVE  /\ task[w].at = "cancel" => Outcome(w) = "cancelled"
         /\ task[w].at = "abort" => Outcome(w) = "failure"
         /\ task[w].at = "insist" => Outcome(w) = "action_required"
         /\ task[w].at = "conclude" =>
              /\ Outcome(w) = "action_required" <=>
                   ~task[w].inconclusive /\ ~task[w].broken /\ task[w].items # {}
              /\ Outcome(w) = "success" => task[w].items = {}
BY DEF Outcome, OutcomeOfGuide, StandsAt

LEMMA NoSuccessWritten ==
  ASSUME Types, NEW w \in Loops, Effect(w), task[w].at # "write",
         task[w].at = "conclude" => Outcome(w) # "success", NoSuccess
  PROVE  NoSuccess'
<1>1. ASSUME NEW c, NEW k, WritesCheck(w, c, k) PROVE NoSuccess'
  <2>1. k.conclusion # "success"
    BY <1>1, OutcomeSays DEF WritesCheck
  <2>2. c \in CheckIds /\ checks' = [checks EXCEPT ![c] = k]
    BY <1>1 DEF WritesCheck
  <2>3. QED
    BY <2>1, <2>2 DEF NoSuccess, Types
<1>2. QED
  BY <1>1, ChecksWritten DEF NoSuccess

(* Where a handler at work may have come from.                             *)
LEMMA CameFrom ==
  ASSUME Types, NEW w \in Loops, Local(w)
  PROVE  /\ task'[w].at \in BeforeGuide =>
              task[w].at \in BeforeGuide \/ (task[w].at = "marker" /\ task'[w].at = "context")
         /\ task'[w].at = "post" => task[w].at \in {"publish", "post"}
         /\ task'[w].at = "conclude" => task[w].at = "post"
         /\ task'[w].at = "abort" => task[w].at \in BeforeGuide \cup {"post", "conclude"}
         /\ task'[w].at # "ignore"
         /\ task'[w].at \in {"turn"} \cup InLock => task[w].at \in {"marker", "ignore", "turn"} \cup InLock
         /\ task'[w].at = "turn" => task[w].at \in {"marker", "ignore"}
         /\ task'[w].at = "threads" => task[w].at = "publication"
         /\ task'[w].at = "checks" => task[w].at = "threads"
         /\ task'[w].at = "reread" => task[w].at = "checks"
         /\ task'[w].at = "write" => task[w].at = "reread"
BY TaskFields DEF Local, Changes, Edge, BeforeGuide, Places, BeforeTry, InTry, InLock

LEMMA MarkerStep ==
  ASSUME Types, NEW w \in Loops, StepOf(w), task[w].at = "marker"
  PROVE  /\ task'[w].at = "context" => ~Published
         /\ task'[w].at = "turn" => Published
<1>1. CASE Handler(w)
  <2>1. task'[w] = [task[w] EXCEPT !.at = IF Published THEN "turn" ELSE "context"]
    BY <1>1, ActionAt, LocalOfMove DEF Marker, Go, StandsAt
  <2>2. QED
    BY <2>1, TaskFields DEF Task
<1>2. CASE Fails(w)
  <2>1. task'[w] = [task[w] EXCEPT !.at = "threw"]
    BY <1>2, LocalOfMove DEF Fails, CallFails, CreateFails, LeaveFails, Leaves, PostFails, Thrown,
       Go, StandsAt, InLock, BeforeTry
  <2>2. QED
    BY <2>1, TaskFields DEF Task
<1>3. QED
  BY <1>1, <1>2 DEF StepOf

LEMMA PublicationStep ==
  ASSUME Types, NEW w \in Loops, StepOf(w), task[w].at = "publication", task'[w].at = "threads",
         Published
  PROVE  "published" \in task'[w].markers
<1>1. Handler(w)
  <2>1. Fails(w) => Throws(w)
    BY DEF Fails, CallFails, CreateFails, LeaveFails, Leaves, PostFails, Thrown, StandsAt, InLock
  <2>2. Throws(w) => task'[w].at = "leave"
    <3>1. Throws(w) => task'[w] = [task[w] EXCEPT !.at = "leave", !.broken = TRUE]
      BY LocalOfMove DEF Throws
    <3>2. QED
      BY <3>1, TaskFields DEF Task
  <2>3. QED
    BY <2>1, <2>2 DEF StepOf
<1>2. \E M : /\ "published" \in M
             /\ task'[w] = [task[w] EXCEPT !.at = "threads", !.markers = M]
  BY <1>1, ActionAt, LocalOfMove DEF ReadPublication, StandsAt
<1>3. QED
  BY <1>2, TaskFields DEF Task

(* Before the guide is out.                                                *)
LEMMA StepBefore ==
  ASSUME TypeOK, QueueInv, PlanInv, PublicationInv, OneGuideLoop, NEW w \in Loops, StepOf(w),
         ~Published, task[w].at # "post"
  PROVE  PublicationInv' /\ ~Published'
<1>1. /\ Types /\ Local(w) /\ Others(w) /\ Effect(w) /\ UNCHANGED phase
      /\ task[w].at # "idle"
  BY StepFacts
<1>2. Published' = Published /\ UNCHANGED <<thread, notes>>
  BY <1>1, PublishedByPost
<1>3. NoStatusJob /\ NoSuccess /\ Stands(w) /\ NoThreads
  BY DEF PublicationInv, Published, NoThreads
<1>4. \A v \in Loops : v # w => task[v].at = "idle"
  BY <1>1, <1>3, AtWorkAlone
<1>5. task[w].at \notin {"conclude", "ignore", "turn"} \cup InLock
  BY <1>3 DEF Stands, Published
<1>6. NoStatusJob' /\ NoSuccess' /\ NoThreads'
  BY <1>1, <1>2, <1>3, <1>5, NoSuccessWritten DEF NoStatusJob, NoThreads, InLock
<1>7. Stands(w)'
  <2>1. task'[w].at \notin {"ignore", "turn", "conclude"} \cup InLock
    <3>1. task[w].at = "marker" => task'[w].at # "turn"
      BY <1>1, MarkerStep
    <3>2. task[w].at = "marker" => task'[w].at \notin InLock
      BY <1>1 DEF Local, Changes, Edge, InLock
    <3>3. task[w].at # "marker" => task'[w].at \notin {"turn"} \cup InLock
      BY <1>1, <1>5, CameFrom
    <3>4. task'[w].at \notin {"ignore", "conclude"}
      BY <1>1, CameFrom
    <3>5. QED
      BY <3>1, <3>2, <3>3, <3>4
  <2>2. ASSUME task'[w].at = "post" PROVE Posted(w)'
    <3>1. task[w].at = "publish"
      BY <1>1, <2>2, CameFrom
    <3>2. task[w].posted = {} /\ ~task[w].broken
      BY <3>1 DEF PlanInv, Planned
    <3>3. task'[w].posted = {} /\ ~task'[w].broken
      BY <1>1, <2>2, <3>1, <3>2 DEF Local, Changes
    <3>4. QED
      BY <1>6, <3>3 DEF Posted, NoThreads
  <2>3. QED
    BY <1>2, <2>1, <2>2 DEF Stands, InLock
<1>8. ASSUME NEW v \in Loops, v # w PROVE Stands(v)'
  <2>1. task'[v].at = "idle"
    BY <1>1, <1>4, <1>8 DEF Others
  <2>2. QED
    BY <2>1 DEF Stands, BeforeGuide, InLock
<1>9. QED
  BY <1>2, <1>6, <1>7, <1>8 DEF PublicationInv

(* While the threads and the summary are posted.                           *)
LEMMA StepPosting ==
  ASSUME TypeOK, QueueInv, PlanInv, PublicationInv, OneGuideLoop, NEW w \in Loops, StepOf(w),
         task[w].at = "post"
  PROVE  PublicationInv' /\ (Published => Published')
<1>1. /\ Types /\ Local(w) /\ Others(w) /\ Effect(w) /\ UNCHANGED <<phase, checks>>
      /\ task[w].at # "idle"
  BY StepFacts, EffectKeeps
<1>2. Publishing /\ Stands(w) /\ Posted(w)
  BY <1>1, GuideLane DEF PublicationInv, PublishingPlaces, GuidePlaces, Stands
<1>3. NoStatusJob /\ NoSuccess
  BY <1>2 DEF PublicationInv
<1>4. \A v \in Loops : v # w => task[v].at = "idle"
  BY <1>1, <1>3, AtWorkAlone
<1>5. NoStatusJob' /\ NoSuccess'
  BY <1>1, <1>3 DEF NoStatusJob, NoSuccess
<1>6. thread \in [Items -> ThreadState]
  BY <1>1 DEF Types
<1>7. Stands(w)' /\ (Published => Published')
  <2>1. InOneGo' => InOneGo /\ Handler(w)
    BY <1>1, StepFaults
  <2>2. Fails(w) => ~InOneGo'
    BY <1>1, StepFaults
  <2>3. ASSUME NEW i \in Items, PostsOne(w, i) PROVE Stands(w)' /\ (Published => Published')
    <3>1. \A k \in Items : thread'[k] # "none" => thread[k] # "none" \/ k = i
      BY <1>6, <2>3 DEF PostsOne
    <3>2. \A k \in Items : thread[k] # "none" => thread'[k] # "none"
      BY <1>6, <2>3 DEF PostsOne
    <3>3. \A k \in Items : thread'[k] # "none" => k \in task'[w].posted
      BY <1>2, <2>3, <3>1 DEF Posted, PostsOne
    <3>4. ASSUME InOneGo'
          PROVE  ~task'[w].broken /\ \A k \in task'[w].posted : thread'[k] = "open"
      <4>1. InOneGo /\ ~Fails(w)
        BY <2>1, <2>2, <3>4
      <4>2. thread' = [thread EXCEPT ![i] = "open"] /\ task'[w].broken = task[w].broken
        BY <2>3, <4>1 DEF PostsOne
      <4>3. ~task[w].broken
        BY <1>2, <2>3, <4>1 DEF Posted, PostsOne
      <4>4. task[w].posted \subseteq Items
        BY <1>1, TaskFields
      <4>5. QED
        BY <1>2, <1>6, <2>3, <4>1, <4>2, <4>3, <4>4 DEF Posted, PostsOne
    <3>5. Posted(w)'
      BY <3>3, <3>4 DEF Posted
    <3>6. Published => Published'
      BY <2>3, <3>2 DEF Published, PostsOne
    <3>7. QED
      BY <2>3, <3>5, <3>6 DEF Stands, PostsOne, BeforeGuide, InLock
  <2>4. CASE PostsNone(w)
    <3>1. NoThreads /\ NoThreads'
      BY <1>2, <2>4 DEF Posted, PostsNone, NoThreads
    <3>2. Posted(w)'
      BY <2>4, <3>1 DEF Posted, PostsNone, NoThreads
    <3>3. QED
      BY <2>4, <3>2 DEF Stands, PostsNone, BeforeGuide, InLock, Published
  <2>5. CASE PostsAll(w)
    <3>1. Posted(w)'
      BY <1>2, <2>1, <2>5 DEF Posted, PostsAll, NoThreads
    <3>2. Published'
      BY <2>5 DEF Published, PostsAll
    <3>3. QED
      BY <2>5, <3>1, <3>2 DEF Stands, PostsAll, BeforeGuide, InLock
  <2>6. CASE PostsFail(w)
    BY <2>6 DEF Stands, PostsFail, BeforeGuide, InLock, Published
  <2>7. QED
    BY <1>1, <2>3, <2>4, <2>5, <2>6, PostStep
<1>8. ASSUME NEW v \in Loops, v # w PROVE Stands(v)'
  <2>1. task'[v].at = "idle"
    BY <1>1, <1>4, <1>8 DEF Others
  <2>2. QED
    BY <2>1 DEF Stands, BeforeGuide, InLock
<1>9. QED
  BY <1>5, <1>7, <1>8 DEF PublicationInv

(* The conclusion is no success, or no thread was posted.                  *)
LEMMA ConcludeKeeps ==
  ASSUME TypeOK, QueueInv, PlanInv, PublicationInv, NEW w \in Loops, StepOf(w),
         task[w].at = "conclude", UNCHANGED thread
  PROVE  NoSuccess' \/ NoThreads'
<1>1. Types /\ Effect(w)
  BY StepFacts
<1>2. Publishing
  BY <1>1, GuideLane DEF PublishingPlaces, GuidePlaces
<1>3. (NoSuccess \/ NoThreads) /\ Posted(w)
  BY <1>2 DEF PublicationInv, Stands
<1>4. CASE NoThreads
  BY <1>4 DEF NoThreads
<1>5. CASE Outcome(w) = "success"
  <2>1. task[w].items = {} /\ task[w].posted = task[w].items
    BY <1>5, OutcomeSays DEF PlanInv, Planned
  <2>2. QED
    BY <1>3, <2>1 DEF Posted, NoThreads
<1>6. CASE NoSuccess /\ Outcome(w) # "success"
  BY <1>1, <1>6, NoSuccessWritten
<1>7. QED
  BY <1>3, <1>4, <1>5, <1>6

(* Once it is out.                                                         *)
LEMMA StepAfter ==
  ASSUME TypeOK, QueueInv, PlanInv, PublicationInv, OneGuideLoop, NEW w \in Loops, StepOf(w),
         Published, task[w].at # "post"
  PROVE  /\ PublicationInv' /\ Published' /\ (Publishing' => task[w].at = "conclude")
         /\ \A v \in Loops : task[v].at \in PublishingPlaces => v = w
<1>1. /\ Types /\ Local(w) /\ Others(w) /\ Effect(w) /\ UNCHANGED phase
      /\ task[w].at # "idle"
  BY StepFacts
<1>2. Published' /\ UNCHANGED <<thread, notes>>
  BY <1>1, PublishedByPost
<1>3. Stands(w) /\ task[w].at \notin BeforeGuide
  BY DEF PublicationInv, Stands
<1>4. ASSUME NEW v \in Loops, task[v].at \in PublishingPlaces PROVE v = w
  <2>1. Publishing /\ task[v].at # "idle"
    BY <1>1, <1>4, GuideLane DEF PublishingPlaces, GuidePlaces, BeforeGuide
  <2>2. NoStatusJob
    BY <2>1 DEF PublicationInv
  <2>3. QED
    BY <1>1, <1>4, <2>1, <2>2, AtWorkAlone
<1>5. task'[w].at \notin BeforeGuide \cup {"post", "conclude"}
  BY <1>1, <1>3, CameFrom, MarkerStep DEF BeforeGuide
<1>6. task'[w].at = "abort" => task[w].at = "conclude"
  BY <1>1, <1>3, CameFrom
<1>7. Stands(w)'
  <2>1. task'[w].at \in {"threads", "checks", "reread", "write"} => "published" \in task'[w].markers
    <3>1. task'[w].at = "threads" => "published" \in task'[w].markers
      BY <1>1, CameFrom, PublicationStep
    <3>2. task'[w].at \in {"checks", "reread", "write"} =>
            task[w].at \in {"threads", "checks", "reread"} /\ task'[w].markers = task[w].markers
      BY <1>1, CameFrom DEF Local, Changes
    <3>3. QED
      BY <1>3, <3>1, <3>2 DEF Stands
  <2>2. QED
    BY <1>2, <1>5, <2>1 DEF Stands
<1>8. ASSUME NEW v \in Loops, v # w PROVE Stands(v)' /\ task'[v].at \notin PublishingPlaces
  <2>1. Stands(v) /\ task[v].at \notin PublishingPlaces /\ task'[v] = task[v]
    BY <1>1, <1>4, <1>8 DEF PublicationInv, Others
  <2>2. QED
    BY <1>2, <2>1 DEF Stands, PublishingPlaces
<1>9. Publishing' => task'[w].at = "abort"
  BY <1>5, <1>8 DEF Publishing, PublishingPlaces, BeforeGuide
<1>10. Publishing' => task[w].at = "conclude" /\ Publishing
  BY <1>1, <1>6, <1>9, GuideLane DEF PublishingPlaces, GuidePlaces
<1>11. Publishing' => NoStatusJob'
  BY <1>1, <1>10 DEF PublicationInv, NoStatusJob
<1>12. \A v \in Loops : task'[v].at # "post"
  BY <1>5, <1>8 DEF PublishingPlaces
<1>13. Publishing' => NoSuccess' \/ NoThreads'
  BY <1>2, <1>10, ConcludeKeeps
<1>14. QED
  BY <1>2, <1>4, <1>7, <1>8, <1>10, <1>11, <1>12, <1>13 DEF PublicationInv

(* Steps outside the handlers.                                             *)
OtherStep ==
  \/ \E w \in Loops, j \in Jobs : Lease(w, j)
  \/ \E w \in Loops : Settle(w)
  \/ \E p \in {PodOf(w) : w \in Loops} : Crash(p)
  \/ Environment
  \/ UNCHANGED vars

LEMMA StepOrOther ==
  ASSUME [Next]_vars
  PROVE  (\E w \in Loops : StepOf(w)) \/ OtherStep
BY NextCases DEF OtherStep

(* What they do to the threads, and where they leave the handlers.         *)
LEMMA OtherKeeps ==
  ASSUME TypeOK, QueueInv, OtherStep
  PROVE  /\ UNCHANGED <<notes, checks, demanded>>
         /\ UNCHANGED thread \/ \E i \in Items : ThreadChanges(i)
         /\ InOneGo' => InOneGo
         /\ \A w \in Loops : task'[w] = task[w] \/ task'[w].at \in {"idle", "marker", "ignore"}
<1>1. Types
  BY DEF TypeOK
<1>2. ASSUME NEW w \in Loops, NEW j \in Jobs, Lease(w, j)
      PROVE  /\ UNCHANGED <<notes, checks, demanded, thread, faults>>
             /\ \A v \in Loops : task'[v] = task[v] \/ task'[v].at \in {"idle", "marker", "ignore"}
  BY <1>1, <1>2, LeaseMoves DEF Lease, github, Moved, Others
<1>3. ASSUME NEW w \in Loops, Settle(w)
      PROVE  /\ UNCHANGED <<notes, checks, demanded, thread, faults>>
             /\ \A v \in Loops : task'[v] = task[v] \/ task'[v].at \in {"idle", "marker", "ignore"}
  BY <1>1, <1>3, SettleMoves, IdleType DEF Settle, github, Moved, Others
<1>4. ASSUME NEW p, Crash(p)
      PROVE  /\ UNCHANGED <<notes, checks, demanded, thread>> /\ (InOneGo' => InOneGo)
             /\ \A v \in Loops : task'[v] = task[v] \/ task'[v].at \in {"idle", "marker", "ignore"}
  <2>1. /\ UNCHANGED <<notes, checks, demanded, thread>>
        /\ faults' = [faults EXCEPT !.crashes = @ + 1,
                                    !.early = IF Published THEN @ ELSE @ + 1]
    BY <1>4 DEF Crash, github
  <2>2. faults'.errors = faults.errors /\ faults'.early \in {faults.early, faults.early + 1}
        /\ faults.early \in Nat
    BY <1>1, <2>1 DEF Types
  <2>3. QED
    BY <1>1, <1>4, <2>1, <2>2, CrashMoves, IdleType DEF InOneGo
<1>5. CASE Environment
  BY <1>5, EventsLeave DEF InOneGo
<1>6. CASE UNCHANGED vars
  BY <1>6 DEF vars, InOneGo
<1>7. QED
  BY <1>2, <1>3, <1>4, <1>5, <1>6 DEF OtherStep, InOneGo

LEMMA OtherPublished ==
  ASSUME TypeOK, QueueInv, OtherStep
  PROVE  Published' = Published
<1>1. CASE UNCHANGED <<thread, notes>>
  BY <1>1 DEF Published
<1>2. ASSUME NEW i \in Items, ThreadChanges(i), UNCHANGED notes PROVE Published' = Published
  <2>1. thread[i] # "none" /\ thread'[i] # "none"
    BY <1>2 DEF ThreadChanges, TypeOK, Types
  <2>2. Published /\ Published'
    BY <2>1 DEF Published
  <2>3. QED
    BY <2>2
<1>3. QED
  BY <1>1, <1>2, OtherKeeps

(* Status jobs are submitted, and taken, only when the guide is out and    *)
(* its job has concluded.                                                  *)
LEMMA OtherStatusJobs ==
  ASSUME TypeOK, QueueInv, PublicationInv, ~StatusDuringPublish, OtherStep
  PROVE  /\ Publishing' => Publishing
         /\ ~Published' \/ Publishing' => NoStatusJob' /\ UNCHANGED thread
         /\ \A w \in Loops : task'[w].at = "ignore" => Published
<1>1. Types
  BY DEF TypeOK
<1>2. Publishing' => Publishing
  BY OtherKeeps DEF Publishing
<1>3. Published' = Published
  BY OtherPublished
<1>4. ASSUME ~Published \/ Publishing PROVE NoStatusJob' /\ UNCHANGED thread
  <2>1. NoStatusJob /\ ~Quiet
    BY <1>4 DEF PublicationInv, Quiet
  <2>2. \A s \in StatusJobs : s \in Jobs /\ s \notin GuideJobs
    BY DEF Jobs
  <2>3. ASSUME NEW w \in Loops, NEW j \in Jobs, Lease(w, j) PROVE NoStatusJob'
    <3>1. phase[j] = "pending" /\ phase' = [phase EXCEPT ![j] = "active"]
      BY <2>3 DEF Lease, Queue!Take
    <3>2. QED
      BY <1>1, <2>1, <2>2, <3>1 DEF NoStatusJob, Types
  <2>4. ASSUME NEW w \in Loops, Settle(w) PROVE NoStatusJob'
    <3>1. phase[task[w].job] = "active"
      BY <2>4, SettleQueue, JobsAreNumbers DEF QueueInv, HoldsItsJob
    <3>2. QED
      BY <2>1, <2>2, <2>4, <3>1, SettleQueue DEF NoStatusJob
  <2>5. ASSUME NEW p, Crash(p) PROVE NoStatusJob'
    BY <2>1, <2>2, <2>5, CrashQueue DEF NoStatusJob
  <2>6. ASSUME Environment PROVE NoStatusJob'
    <3>1. ~StatusCommand /\ ~ \E i \in Items : ThreadChanges(i)
      BY <2>1 DEF StatusCommand, ThreadChanges
    <3>2. CASE UNCHANGED queueVars
      BY <2>1, <3>2 DEF NoStatusJob, queueVars
    <3>3. ASSUME NEW j \in GuideJobs, Submit(j) PROVE NoStatusJob'
      BY <1>1, <2>1, <2>2, <3>3 DEF NoStatusJob, Submit, Queue!Submit, Types
    <3>4. QED
      BY <2>6, <3>1, <3>2, <3>3, EventsSubmit
  <2>7. UNCHANGED vars => NoStatusJob'
    BY <2>1 DEF vars, queueVars, NoStatusJob
  <2>8. UNCHANGED thread
    BY <2>1, OtherKeeps DEF ThreadChanges
  <2>9. QED
    BY <2>3, <2>4, <2>5, <2>6, <2>7, <2>8 DEF OtherStep
<1>5. ASSUME NEW w \in Loops, task'[w].at = "ignore" PROVE Published
  <2>1. CASE task'[w] = task[w]
    BY <1>5, <2>1 DEF PublicationInv, Stands
  <2>2. ASSUME NEW j \in Jobs, Lease(w, j) PROVE Published
    <3>1. j \in StatusJobs /\ phase[j] = "pending"
      BY <1>1, <1>5, <2>2, LeaseMoves DEF Lease, Queue!Take, Jobs
    <3>2. QED
      BY <3>1 DEF PublicationInv, NoStatusJob
  <2>3. task'[w] = task[w] \/ \E j \in Jobs : Lease(w, j)
    <3>1. ASSUME NEW v \in Loops, NEW j \in Jobs, Lease(v, j), v # w PROVE task'[w] = task[w]
      BY <1>1, <3>1, LeaseMoves DEF Moved, Others
    <3>2. ASSUME NEW v \in Loops, Settle(v) PROVE task'[w] = task[w]
      BY <1>1, <1>5, <3>2, SettleMoves, IdleType DEF Moved, Others
    <3>3. ASSUME NEW p, Crash(p) PROVE task'[w] = task[w]
      BY <1>1, <1>5, <3>3, CrashMoves, IdleType
    <3>4. QED
      BY <3>1, <3>2, <3>3, EventsLeave DEF OtherStep, vars
  <2>4. QED
    BY <2>1, <2>2, <2>3
<1>6. QED
  BY <1>2, <1>3, <1>4, <1>5

LEMMA OtherPublication ==
  ASSUME TypeOK, QueueInv, PublicationInv, ~StatusDuringPublish, OtherStep
  PROVE  PublicationInv'
<1>1. Types
  BY DEF TypeOK
<1>2. /\ UNCHANGED <<notes, checks>> /\ Published' = Published /\ (InOneGo' => InOneGo)
      /\ \A w \in Loops : task'[w] = task[w] \/ task'[w].at \in {"idle", "marker", "ignore"}
  BY OtherKeeps, OtherPublished
<1>3. /\ Publishing' => Publishing
      /\ ~Published' \/ Publishing' => NoStatusJob' /\ UNCHANGED thread
      /\ \A w \in Loops : task'[w].at = "ignore" => Published
  BY OtherStatusJobs
<1>4. ASSUME NEW w \in Loops PROVE Stands(w)'
  <2>1. CASE task'[w] # task[w]
    <3>1. task'[w].at \in {"idle", "marker", "ignore"}
      BY <1>2, <2>1
    <3>2. QED
      BY <1>2, <1>3, <3>1 DEF Stands, BeforeGuide, InLock
  <2>2. CASE task'[w] = task[w]
    <3>1. Stands(w)
      BY DEF PublicationInv
    <3>2. ASSUME task[w].at \in {"post", "conclude"} PROVE Posted(w)'
      <4>1. Publishing
        BY <1>1, <3>2, GuideLane DEF PublishingPlaces, GuidePlaces
      <4>2. UNCHANGED thread
        <5>1. ~Quiet
          BY <4>1 DEF Quiet
        <5>2. QED
          BY <5>1, OtherKeeps DEF ThreadChanges
      <4>3. QED
        BY <1>2, <2>2, <3>1, <3>2, <4>2 DEF Stands, Posted, NoThreads
    <3>3. QED
      BY <1>2, <2>2, <3>1, <3>2 DEF Stands
  <2>3. QED
    BY <2>1, <2>2
<1>5. ASSUME ~Published' \/ (\E w \in Loops : task'[w].at = "post") PROVE NoSuccess'
  <2>1. ~Published \/ \E w \in Loops : task[w].at = "post"
    BY <1>2, <1>5
  <2>2. QED
    BY <1>2, <2>1 DEF PublicationInv, NoSuccess
<1>6. Publishing' => NoSuccess' \/ NoThreads'
  BY <1>2, <1>3 DEF PublicationInv, NoSuccess, NoThreads
<1>7. QED
  BY <1>3, <1>4, <1>5, <1>6 DEF PublicationInv

LEMMA InitPublication == Init => PublicationInv
<1> SUFFICES ASSUME Init PROVE PublicationInv
  OBVIOUS
<1>1. \A w \in Loops : task[w].at = "idle"
  BY DEF Init, Idle
<1>2. NoSuccess /\ NoStatusJob
  BY DEF Init, NoSuccess, NoStatusJob, NoCheck, Queue!Init, Jobs
<1>3. QED
  BY <1>1, <1>2 DEF PublicationInv, Stands, BeforeGuide, InLock, Publishing

-----------------------------------------------------------------------------
(***************************************************************************)
(* The check run of a guide job that nothing has cut off is its own, and   *)
(* the newest.                                                             *)
(***************************************************************************)
AtOwnCheck ==
  {"record", "conflict", "demand", "insist", "think", "current", "publish", "post", "conclude",
   "cancel"}
OwnCheck(w) ==
  /\ task[w].check # 0
  /\ checks[task[w].check].head = task[w].head /\ checks[task[w].check].conclusion = "none"
  /\ \A d \in CheckIds : d > task[w].check => checks[d].status = "absent"
Starts(w) == task[w].at = "marker" /\ ~Published
Fresh(w) ==
  /\ task[w].at = "threw" => Published
  /\ task[w].at \notin {"abort", "join", "closed"}
  /\ task[w].at \in {"context", "target", "find", "create"} \/ Starts(w) => task[w].check = 0
  /\ task[w].at \in {"context", "target", "find", "create", "record"} \/ Starts(w) =>
       row[task[w].job].check = 0
  /\ task[w].at = "context" \/ Starts(w) => row[task[w].job].target = 0
  /\ task[w].at \in {"target", "find", "create", "record"} => task[w].plan # "closed"
  /\ task[w].at \in AtOwnCheck => OwnCheck(w)
FreshRows ==
  ~Published => \A j \in GuideJobs : phase[j] \in {"none", "pending"} =>
                  row[j].check = 0 /\ row[j].target = 0
OwnCheckInv == InOneGo => FreshRows /\ \A w \in Loops : Fresh(w)

(* Only a failed call leads to these places, or an earlier failure.        *)
LEMMA HandlerGoes ==
  ASSUME Types, NEW w \in Loops, Handler(w)
  PROVE  /\ task'[w].at = "threw" => task[w].at \in {"abort", "leave"}
         /\ task'[w].at # "abort"
<1>1. task'[w].at \in {"threw", "abort"} => Conclude(w) \/ Leave(w)
  <2>0. task[w] \in Task
    BY TaskFields
  <2>1. Local(w)
    BY HandlerLocal
  <2>2. ASSUME task'[w].at \in {"threw", "abort"}, ~Conclude(w), ~Leave(w) PROVE FALSE
    <3>1. task[w].at \in {"marker", "context", "target", "find", "join", "record", "ignore",
            "closed", "conflict", "demand", "think", "current", "publish", "post"}
      <4>1. task[w].at \notin {"conclude", "insist", "cancel", "abort", "leave"}
        BY <2>2, ActionAt DEF StandsAt
      <4>2. QED
        BY <2>1, <2>2, <4>1, TaskFields DEF Local, Changes, Edge, Places, BeforeTry, InTry, InLock
    <3>2. CASE task[w].at \in {"marker", "target", "join", "ignore", "closed", "conflict",
                               "demand", "current", "publish"}
      <4>1. \E at : at \notin {"threw", "abort"} /\ task'[w] = [task[w] EXCEPT !.at = at]
        BY <3>2, ActionAt, LocalOfMove DEF Marker, Target, Join, Ignore, ClosedContext,
           ConflictContext, Demand, Current, Go, StandsAt
      <4>2. QED
        BY <2>0, <2>2, <4>1 DEF Task
    <3>3. CASE task[w].at = "context"
      <4>1. \/ task'[w] = [task[w] EXCEPT !.at = "returned"]
            \/ \E h, plan : task'[w] = [task[w] EXCEPT !.at = "target", !.head = h, !.plan = plan]
        BY <3>3, ActionAt, LocalOfMove DEF Context, Go, StandsAt
      <4>2. QED
        BY <2>0, <2>2, <4>1 DEF Task
    <3>4. CASE task[w].at \in {"find", "record"}
      <4>1. \/ \E at \in {"returned", "create", task[w].plan} : task'[w] = [task[w] EXCEPT !.at = at]
            \/ \E c : task'[w] = [task[w] EXCEPT !.at = "join", !.check = c]
        <5>1. CASE task[w].at = "record"
          BY <5>1, ActionAt, LocalOfMove DEF Record, Tracked, StandsAt
        <5>2. CASE task[w].at = "find"
          <6>1. Find(w)
            BY <5>2, ActionAt DEF StandsAt
          <6>2. \/ Move(w, [task[w] EXCEPT !.at = "returned"])
                \/ \E c : Move(w, [task[w] EXCEPT !.at = "join", !.check = c])
                \/ Move(w, [task[w] EXCEPT !.at = "create"])
                \/ Move(w, [task[w] EXCEPT !.at = task[w].plan])
            BY <6>1 DEF Find, Tracked
          <6>3. QED
            BY <6>2, LocalOfMove
        <5>3. QED
          BY <3>4, <5>1, <5>2
      <4>2. task[w].plan \in {"think", "closed", "conflict"}
        BY TaskFields
      <4>3. \/ \E at : at \notin {"threw", "abort"} /\ task'[w] = [task[w] EXCEPT !.at = at]
            \/ \E c : task'[w] = [task[w] EXCEPT !.at = "join", !.check = c]
        BY <4>1, <4>2
      <4>4. QED
        BY <2>0, <2>2, <4>3 DEF Task
    <3>5. CASE task[w].at = "think"
      <4>1. \/ \E S : \E at \in {"current", "publish"} : task'[w] = [task[w] EXCEPT !.at = at, !.items = S]
            \/ task'[w] = [task[w] EXCEPT !.at = "current", !.inconclusive = TRUE]
        BY <3>5, ActionAt, LocalOfMove DEF Think, NoCriteria, StandsAt
      <4>2. QED
        BY <2>0, <2>2, <4>1 DEF Task
    <3>6. CASE task[w].at = "post"
      <4>1. \/ task'[w] = [task[w] EXCEPT !.at = "conclude"]
            \/ \E S : task'[w] = [task[w] EXCEPT !.posted = S, !.broken = TRUE]
            \/ \E S : task'[w] = [task[w] EXCEPT !.posted = S]
        BY <3>6, ActionAt, LocalOfMove DEF NoPath, PostSummary, PostThread, Go, StandsAt
      <4>2. QED
        BY <2>0, <2>2, <3>6, <4>1 DEF Task
    <3>7. QED
      BY <3>1, <3>2, <3>3, <3>4, <3>5, <3>6
  <2>3. QED
    BY <2>2
<1>2. Conclude(w) => task'[w].at # "abort" /\ (task'[w].at = "threw" => task[w].at = "abort")
  <2>1. Conclude(w) => task'[w] = [task[w] EXCEPT !.at = IF task[w].at = "abort" THEN "threw" ELSE "returned"]
    BY LocalOfMove DEF Conclude, Go, StandsAt
  <2>2. QED
    BY <2>1, TaskFields DEF Task
<1>3. Leave(w) => task'[w].at # "abort" /\ task[w].at = "leave"
  <2>1. Leave(w) => task'[w] = [task[w] EXCEPT !.at = IF task[w].broken THEN "threw" ELSE "returned"]
                    /\ task[w].at = "leave"
    BY LocalOfMove DEF Leave, Leaves, Go, StandsAt
  <2>2. QED
    BY <2>1, TaskFields DEF Task
<1>4. QED
  BY <1>1, <1>2, <1>3

LEMMA ContextStep ==
  ASSUME Types, NEW w \in Loops, Handler(w), task[w].at = "context", task[w].check = 0
  PROVE  task'[w].at = "target" =>
           pull.open /\ task'[w].plan = IF pull.mergeable THEN "think" ELSE "conflict"
<1>1. Context(w)
  BY ActionAt DEF StandsAt
<1>2. \/ task'[w] = [task[w] EXCEPT !.at = "returned"]
      \/ /\ pull.open
         /\ \E plan : /\ plan = IF pull.mergeable THEN "think" ELSE "conflict"
                      /\ task'[w] = [task[w] EXCEPT !.at = "target", !.head = pull.head, !.plan = plan]
  BY <1>1, LocalOfMove DEF Context, Go
<1>3. CASE task'[w] = [task[w] EXCEPT !.at = "returned"]
  <2>1. task'[w].at = "returned"
    BY <1>3, TaskFields DEF Task
  <2>2. QED
    BY <2>1
<1>4. CASE /\ pull.open
           /\ \E plan : /\ plan = IF pull.mergeable THEN "think" ELSE "conflict"
                        /\ task'[w] = [task[w] EXCEPT !.at = "target", !.head = pull.head, !.plan = plan]
  <2>1. PICK plan : /\ plan = IF pull.mergeable THEN "think" ELSE "conflict"
                    /\ task'[w] = [task[w] EXCEPT !.at = "target", !.head = pull.head, !.plan = plan]
    BY <1>4
  <2>2. task'[w].plan = plan
    <3> HIDE DEF NoCheck
    <3>1. task[w] \in Task
      BY TaskFields
    <3>2. QED
      BY <2>1, <3>1 DEF Task
  <2>3. QED
    BY <1>4, <2>1, <2>2
<1>5. QED
  BY <1>2, <1>3, <1>4

(* With one standard loop, no older review of the HEAD is running, and a   *)
(* queued one has no target yet: what is found is over.                    *)
LEMMA FindStep ==
  ASSUME TypeOK, HeadsKnown, QueueInv, OneGuideLoop, FreshRows, ~Published,
         NEW w \in Loops, Handler(w), task[w].at = "find", task[w].check = 0
  PROVE  \/ task'[w].at = "create"
         \/ /\ task'[w].at = "returned"
            /\ \E i \in GuideJobs : /\ i \in row[task[w].job].earlier /\ phase[i] = "done"
                                    /\ row[i].target = task[w].head
<1>1. Types /\ Find(w) /\ task[w].head # 0 /\ task[w].at \in GuidePlaces
  BY ActionAt DEF TypeOK, HeadsKnown, HeadKnown, StandsAt, GuidePlaces, BeforeGuide
<1>2. \A i \in GuideJobs : i \in Older(w) => phase[i] = "done" /\ i \in row[task[w].job].earlier
  <2>1. ASSUME NEW i \in GuideJobs, i \in Older(w) PROVE phase[i] = "done"
    <3>0. i < task[w].job /\ row[i].target = task[w].head /\ i \in Nat
      BY <2>1, JobNumbers DEF Older
    <3>1. row[i].target # 0 /\ i # task[w].job /\ i \in Jobs
      <4>1. i # task[w].job
        BY <3>0
      <4>2. QED
        BY <1>1, <3>0, <4>1 DEF Jobs
    <3>2. phase[i] \notin {"none", "pending"}
      BY <3>1 DEF FreshRows
    <3>3. phase[i] # "active"
      <4>1. ASSUME phase[i] = "active" PROVE FALSE
        <5>1. holder[i] \in Loops /\ task[holder[i]].job = i
          BY <3>1, <4>1 DEF QueueInv
        <5>2. LaneOf(holder[i]) = "standard"
          BY <5>1, <3>1, JobsAreNumbers DEF QueueInv, HoldsItsJob, Lane
        <5>3. LaneOf(w) = "standard"
          BY <1>1, GuideLane
        <5>4. holder[i] = w
          BY <5>1, <5>2, <5>3 DEF OneGuideLoop
        <5>5. QED
          BY <3>1, <5>1, <5>4
      <4>2. QED
        BY <4>1
    <3>4. QED
      BY <3>1, <3>2, <3>3 DEF TypeOK, Types
  <2>2. QED
    BY <2>1 DEF Older
<1>3. CASE \E i \in GuideJobs :
             First(w, i) /\ Move(w, IF phase[i] = "done" \/ row[i].check = 0
                                    THEN [task[w] EXCEPT !.at = "returned"]
                                    ELSE [task[w] EXCEPT !.at = "join", !.check = row[i].check])
  <2>1. PICK i \in GuideJobs :
          First(w, i) /\ Move(w, IF phase[i] = "done" \/ row[i].check = 0
                                 THEN [task[w] EXCEPT !.at = "returned"]
                                 ELSE [task[w] EXCEPT !.at = "join", !.check = row[i].check])
    BY <1>3
  <2>2. i \in Older(w) /\ phase[i] = "done" /\ i \in row[task[w].job].earlier
        /\ row[i].target = task[w].head
    BY <1>2, <2>1 DEF First, Older
  <2>3. task'[w] = [task[w] EXCEPT !.at = "returned"]
    BY <1>1, <2>1, <2>2, LocalOfMove
  <2>4. task'[w].at = "returned"
    BY <1>1, <2>3, TaskFields DEF Task
  <2>5. QED
    BY <2>2, <2>4
<1>4. CASE Move(w, IF task[w].check = 0 THEN [task[w] EXCEPT !.at = "create"] ELSE Tracked(task[w]))
  <2>1. task'[w] = [task[w] EXCEPT !.at = "create"]
    BY <1>1, <1>4, LocalOfMove
  <2>2. QED
    BY <1>1, <2>1, TaskFields DEF Task
<1>5. QED
  BY <1>1, <1>3, <1>4 DEF Find

LEMMA CreateStep ==
  ASSUME TypeOK, HeadInv, NEW w \in Loops, Handler(w), task[w].at = "create"
  PROVE  task'[w].at = "record" /\ OwnCheck(w)'
<1>1. Types /\ Create(w)
  BY ActionAt DEF StandsAt, TypeOK
<1>2. PICK c \in CheckIds : Creates(w, c) /\ Move(w, [task[w] EXCEPT !.at = "record", !.check = c])
  BY <1>1 DEF Create
<1>3. task'[w].at = "record" /\ task'[w].check = c /\ task'[w].head = task[w].head
  <2>1. task'[w] = [task[w] EXCEPT !.at = "record", !.check = c]
    BY <1>1, <1>2, LocalOfMove
  <2>2. QED
    BY <1>1, <2>1, TaskFields DEF Task
<1>4. checks'[c].head = task[w].head /\ checks'[c].conclusion = "none"
      /\ \A d \in CheckIds : d # c => checks'[d] = checks[d]
  BY <1>1, <1>2 DEF Creates, Updates, NoCheck, Types
<1>5. \A d \in CheckIds : d > c => checks[d].status = "absent"
  <2>1. \A d \in CheckIds : checks[d].status = "absent" <=> c <= d
    BY <1>1, <1>2, UnusedIsNext DEF HeadInv, Creates
  <2>2. QED
    BY <2>1 DEF CheckIds
<1>6. c # 0 /\ \A d \in CheckIds : d > c => d # c
  BY DEF CheckIds
<1>7. QED
  BY <1>3, <1>4, <1>5, <1>6 DEF OwnCheck

(* A guide job at work before the guide is out, or posting, is alone.      *)
LEMMA GuideAlone ==
  ASSUME TypeOK, QueueInv, PublicationInv, OneGuideLoop, NEW v \in Loops, NEW w \in Loops,
         task[w].at # "idle",
         task[v].at \in BeforeGuide \cup {"post", "conclude", "abort"} \/ (~Published /\ task[v].at # "idle")
  PROVE  v = w
<1>1. Types /\ task[v].at # "idle"
  BY DEF TypeOK, BeforeGuide
<1>2. NoStatusJob
  <2>1. ~Published \/ task[v].at \in {"post", "conclude", "abort"}
    BY DEF PublicationInv, Stands
  <2>2. task[v].at \in {"post", "conclude", "abort"} => Publishing
    BY <1>1, GuideLane DEF PublishingPlaces, GuidePlaces
  <2>3. QED
    BY <2>1, <2>2 DEF PublicationInv
<1>3. QED
  BY <1>1, <1>2, AtWorkAlone

LEMMA OwnCheckKept ==
  ASSUME TypeOK, NEW w \in Loops, StepOf(w), OwnCheck(w), task[w].at \in AtOwnCheck,
         task'[w].at \in AtOwnCheck
  PROVE  OwnCheck(w)'
<1>1. Types /\ Local(w) /\ Effect(w)
  BY StepFacts
<1>2. task'[w].check = task[w].check /\ task'[w].head = task[w].head
  BY <1>1 DEF Local, Changes, AtOwnCheck
<1>3. task[w].at \notin {"conclude", "insist", "cancel", "abort", "join", "create", "write"}
  BY <1>1 DEF Local, Changes, Edge, AtOwnCheck
<1>4. CASE UNCHANGED checks
  BY <1>2, <1>4 DEF OwnCheck
<1>5. ASSUME NEW c, NEW k, WritesCheck(w, c, k) PROVE OwnCheck(w)'
  <2>1. c = task[w].check /\ c \in CheckIds /\ k.head = checks[c].head /\ k.conclusion = "none"
        /\ checks' = [checks EXCEPT ![c] = k]
    BY <1>3, <1>5 DEF WritesCheck
  <2>2. checks'[c].head = checks[c].head /\ checks'[c].conclusion = "none"
        /\ \A d \in CheckIds : d # c => checks'[d] = checks[d]
    BY <1>1, <2>1 DEF Types
  <2>3. \A d \in CheckIds : d > c => d # c
    BY <2>1 DEF CheckIds
  <2>4. QED
    BY <1>2, <2>1, <2>2, <2>3 DEF OwnCheck
<1>6. QED
  BY <1>1, <1>4, <1>5, ChecksWritten

LEMMA StepFresh ==
  ASSUME TypeOK, HeadsKnown, QueueInv, HeadInv, PublicationInv, OneGuideLoop, InOneGo, FreshRows,
         NEW w \in Loops, Fresh(w), StepOf(w), Handler(w), Published => Published'
  PROVE  Fresh(w)'
<1>1. Types /\ Local(w) /\ Effect(w) /\ task'[w].job = task[w].job
  BY StepFacts
<1>2. Stands(w) /\ task[w].at \in Places
  BY <1>1, TaskFields DEF PublicationInv
<1>3. task'[w].at = "threw" => Published'
  BY <1>1, <1>2, HandlerGoes DEF Fresh, Stands, InLock
<1>4. CASE task'[w].at \notin GuidePlaces
  BY <1>3, <1>4 DEF Fresh, GuidePlaces, BeforeGuide, AtOwnCheck, Starts
<1>5. CASE task'[w].at \in GuidePlaces
  <2>1. task[w].at \in GuidePlaces /\ task[w].job \in GuideJobs /\ task'[w].at # "marker"
        /\ task'[w].at # "threw"
    <3>1. task[w].at \in GuidePlaces /\ task'[w].at # "marker" /\ task'[w].at # "threw"
      BY <1>1, <1>2, <1>5 DEF Local, Changes, Edge, Places, BeforeTry, InTry, InLock, GuidePlaces,
         BeforeGuide
    <3>2. QED
      BY <1>1, <3>1, GuideLane
  <2>2. CASE task[w].at = "marker"
    <3>1. task'[w].at = "context" /\ ~Published /\ task'[w].check = task[w].check
      BY <1>1, <1>5, <2>2, MarkerStep DEF Local, Changes, Edge, GuidePlaces, BeforeGuide
    <3>2. row' = row
      BY <1>1, <2>2, EffectKeeps
    <3>3. QED
      BY <1>1, <2>2, <3>1, <3>2 DEF Fresh, Starts, AtOwnCheck
  <2>3. CASE task[w].at = "context"
    <3>1. task'[w].at = "target" /\ task'[w].check = 0 /\ row' = row
      BY <1>1, <1>5, <2>1, <2>3, EffectKeeps
         DEF Local, Changes, Edge, GuidePlaces, BeforeGuide, Fresh
    <3>2. task'[w].plan # "closed"
      BY <1>1, <2>3, <3>1, ContextStep DEF Fresh
    <3>3. QED
      BY <1>1, <2>3, <3>1, <3>2 DEF Fresh, Starts, AtOwnCheck
  <2>4. CASE task[w].at = "target"
    <3>1. task'[w].at = "find" /\ task'[w].check = 0 /\ task'[w].plan = task[w].plan
      BY <1>1, <2>1, <2>4 DEF Local, Changes, Edge, Fresh
    <3>2. row'[task[w].job].check = row[task[w].job].check
      BY <1>1, <2>1, <2>4, RowChanges
    <3>3. QED
      BY <1>1, <2>4, <3>1, <3>2 DEF Fresh, Starts, AtOwnCheck
  <2>5. CASE task[w].at = "find"
    <3>1. ~Published /\ task[w].check = 0
      BY <1>2, <2>5 DEF Stands, BeforeGuide, Fresh
    <3>2. task'[w].at = "create"
      BY <1>5, <2>5, <3>1, FindStep DEF GuidePlaces, BeforeGuide
    <3>3. task'[w].check = 0 /\ task'[w].plan = task[w].plan /\ row' = row
      <4>1. row' = row /\ task'[w].plan = task[w].plan
        BY <1>1, <2>5, EffectKeeps DEF Local, Changes
      <4>2. Find(w)
        BY <2>5, ActionAt DEF StandsAt
      <4>3. \/ \E at : task'[w] = [task[w] EXCEPT !.at = at]
            \/ \E c : task'[w] = [task[w] EXCEPT !.at = "join", !.check = c]
        BY <1>1, <4>2, LocalOfMove DEF Find, Tracked
      <4>4. QED
        BY <1>1, <3>1, <3>2, <4>1, <4>3, TaskFields DEF Task
    <3>4. QED
      BY <1>1, <2>5, <3>2, <3>3 DEF Fresh, Starts, AtOwnCheck
  <2>6. CASE task[w].at = "create"
    <3>1. task'[w].at = "record" /\ OwnCheck(w)'
      BY <2>6, CreateStep
    <3>2. row' = row /\ task'[w].plan = task[w].plan
      BY <1>1, <2>6, EffectKeeps DEF Local, Changes
    <3>3. QED
      BY <1>1, <2>6, <3>1, <3>2 DEF Fresh, Starts, AtOwnCheck
  <2>7. CASE task[w].at \in AtOwnCheck
    <3>1. task[w].at = "record" => task'[w].at = task[w].plan
      <4>1. task[w].at = "record" => task'[w] = [task[w] EXCEPT !.at = task[w].plan]
        BY <1>1, ActionAt, LocalOfMove DEF Record, Tracked, StandsAt
      <4>2. QED
        BY <1>1, <4>1, TaskFields DEF Task
    <3>2. task[w].at = "record" => task[w].plan \in {"think", "conflict"}
      BY <1>1, <1>2, TaskFields DEF Fresh
    <3>3. task'[w].at \in AtOwnCheck \ {"record"}
      <4>1. task[w].at # "record" => task'[w].at \in (AtOwnCheck \ {"record"}) \cup {"abort"}
        BY <1>1, <1>5, <2>7 DEF Local, Changes, Edge, AtOwnCheck, GuidePlaces, BeforeGuide
      <4>2. task'[w].at # "abort"
        BY <1>1, HandlerGoes
      <4>3. QED
        BY <3>1, <3>2, <4>1, <4>2 DEF AtOwnCheck
    <3>4. OwnCheck(w)'
      BY <2>7, <3>3, OwnCheckKept DEF Fresh
    <3>5. QED
      BY <3>3, <3>4 DEF Fresh, Starts, AtOwnCheck
  <2>8. task[w].at \in {"marker", "context", "target", "find", "create"} \cup AtOwnCheck
    BY <2>1 DEF Fresh, GuidePlaces, BeforeGuide, AtOwnCheck
  <2>9. QED
    BY <2>2, <2>3, <2>4, <2>5, <2>6, <2>7, <2>8
<1>6. QED
  BY <1>4, <1>5

LEMMA StepOwnCheck ==
  ASSUME TypeOK, HeadsKnown, QueueInv, HeadInv, PublicationInv, OwnCheckInv, OneGuideLoop,
         NEW w \in Loops, StepOf(w), Published => Published'
  PROVE  OwnCheckInv'
<1> SUFFICES ASSUME InOneGo' PROVE FreshRows' /\ \A v \in Loops : Fresh(v)'
  BY DEF OwnCheckInv
<1>1. /\ Types /\ Local(w) /\ Others(w) /\ Effect(w) /\ UNCHANGED phase
      /\ task[w].at # "idle"
  BY StepFacts
<1>2. InOneGo /\ Handler(w) /\ FreshRows /\ \A v \in Loops : Fresh(v)
  BY <1>1, StepFaults DEF OwnCheckInv
<1>3. Fresh(w)'
  BY <1>2, StepFresh
<1>4. ASSUME NEW v \in Loops, v # w PROVE Fresh(v)'
  <2>1. Fresh(v) /\ task'[v] = task[v]
    BY <1>1, <1>2, <1>4 DEF Others
  <2>2. /\ task[v].at \notin BeforeGuide \cup {"post", "conclude", "abort"}
        /\ ~Published => task[v].at = "idle"
    BY <1>1, <1>4, GuideAlone
  <2>3. QED
    BY <2>1, <2>2 DEF Fresh, Starts, BeforeGuide, AtOwnCheck
<1>5. FreshRows'
  <2>1. ASSUME ~Published', NEW j \in GuideJobs, phase'[j] \in {"none", "pending"}
        PROVE  row'[j].check = 0 /\ row'[j].target = 0
    <3>1. row[j].check = 0 /\ row[j].target = 0
      BY <1>1, <1>2, <2>1 DEF FreshRows
    <3>2. j # task[w].job
      BY <1>1, <2>1 DEF QueueInv, HoldsItsJob
    <3>3. QED
      BY <1>1, <3>1, <3>2, RowChanges
  <2>2. QED
    BY <2>1 DEF FreshRows
<1>6. QED
  BY <1>3, <1>4, <1>5

(* The rows keep what they remember, and a loop goes idle or takes a row.  *)
LEMMA OtherRows ==
  ASSUME TypeOK, QueueInv, OtherStep, NEW j \in GuideJobs
  PROVE  /\ row'[j].check = row[j].check /\ row'[j].target = row[j].target
         /\ \/ row'[j].earlier = row[j].earlier
            \/ /\ phase[j] = "none" /\ phase'[j] = "pending"
               /\ row'[j].earlier = {i \in GuideJobs : row[i].started /\ phase[i] # "done"}
<1>1. Types /\ row \in [GuideJobs -> Row]
  BY DEF TypeOK, Types
<1>2. CASE UNCHANGED row
  BY <1>2
<1>3. ASSUME NEW w \in Loops, NEW k \in Jobs, Lease(w, k)
      PROVE  row'[j].check = row[j].check /\ row'[j].target = row[j].target
             /\ row'[j].earlier = row[j].earlier
  BY <1>1, <1>3, LeaseMoves
<1>4. ASSUME NEW k \in GuideJobs, Submit(k)
      PROVE  /\ row'[j].check = row[j].check /\ row'[j].target = row[j].target
             /\ \/ row'[j].earlier = row[j].earlier
                \/ /\ phase[j] = "none" /\ phase'[j] = "pending"
                   /\ row'[j].earlier = {i \in GuideJobs : row[i].started /\ phase[i] # "done"}
  <2> DEFINE E == {i \in GuideJobs : row[i].started /\ phase[i] # "done"}
  <2>1. row' = [row EXCEPT ![k].earlier = E] /\ phase[k] = "none"
        /\ phase' = [phase EXCEPT ![k] = "pending"]
    BY <1>4, JobNumbers DEF Submit, Queue!Submit
  <2>2. k \in Jobs
    BY DEF Jobs
  <2> HIDE DEF E
  <2>3. row'[j] = IF j = k THEN [row[j] EXCEPT !.earlier = E] ELSE row[j]
    BY <1>1, <2>1
  <2>4. row[j] \in Row
    BY <1>1
  <2>5. j = k => row'[j].check = row[j].check /\ row'[j].target = row[j].target
                 /\ row'[j].earlier = E /\ phase[j] = "none" /\ phase'[j] = "pending"
    BY <1>1, <2>1, <2>2, <2>3, <2>4 DEF Row, Types
  <2>6. QED
    BY <2>3, <2>5 DEF E
<1>5. UNCHANGED row \/ (\E w \in Loops, k \in Jobs : Lease(w, k)) \/ \E k \in GuideJobs : Submit(k)
  <2>1. ASSUME NEW k \in StatusJobs, Submit(k) PROVE UNCHANGED row
    BY <2>1 DEF Submit
  <2>2. Environment => UNCHANGED row \/ \E k \in GuideJobs : Submit(k)
    BY <2>1, EventsSubmit
  <2>3. QED
    BY <2>2 DEF OtherStep, Settle, Crash, vars
<1>6. QED
  BY <1>2, <1>3, <1>4, <1>5

LEMMA OtherTasks ==
  ASSUME TypeOK, QueueInv, OtherStep, NEW w \in Loops
  PROVE  \/ task'[w] = task[w]
         \/ task'[w] = Idle /\ (Settle(w) \/ \E p : PodOf(w) = p /\ Crash(p))
         \/ \E j \in Jobs : Lease(w, j)
<1>1. Types
  BY DEF TypeOK
<1>2. ASSUME NEW v \in Loops, NEW j \in Jobs, Lease(v, j) PROVE v = w \/ task'[w] = task[w]
  BY <1>1, <1>2, LeaseMoves DEF Moved, Others
<1>3. ASSUME NEW v \in Loops, Settle(v)
      PROVE  task'[w] = task[w] \/ (v = w /\ task'[w] = Idle)
  BY <1>1, <1>3, SettleMoves DEF Moved, Others
<1>4. ASSUME NEW p, Crash(p)
      PROVE  task'[w] = task[w] \/ (PodOf(w) = p /\ task'[w] = Idle)
  BY <1>1, <1>4, CrashMoves
<1>5. QED
  BY <1>2, <1>3, <1>4, EventsLeave DEF OtherStep, vars

LEMMA LeaseFresh ==
  ASSUME TypeOK, QueueInv, FreshRows, NEW w \in Loops, NEW j \in Jobs, Lease(w, j), Published' = Published
  PROVE  Fresh(w)'
<1>1. Types /\ phase[j] = "pending"
  BY DEF TypeOK, Lease, Queue!Take
<1>2. task'[w].at = IF j \in GuideJobs THEN "marker" ELSE "ignore"
  BY <1>1, LeaseMoves
<1>3. CASE j \notin GuideJobs
  BY <1>2, <1>3 DEF Fresh, Starts, AtOwnCheck
<1>4. CASE j \in GuideJobs
  <2>1. ~Published => row[j].check = 0 /\ row[j].target = 0
    BY <1>1, <1>4 DEF FreshRows
  <2>2. /\ task'[w].job = j /\ task'[w].check = IF j \in GuideJobs THEN row[j].check ELSE 0
        /\ \A i \in GuideJobs : row'[i].check = row[i].check /\ row'[i].target = row[i].target
    BY <1>1, LeaseMoves
  <2>3. /\ task'[w].at = "marker" /\ task'[w].job = j /\ task'[w].check = row[j].check
        /\ row'[j].check = row[j].check /\ row'[j].target = row[j].target
    BY <1>2, <1>4, <2>2
  <2>4. QED
    BY <2>1, <2>3 DEF Fresh, Starts, AtOwnCheck
<1>5. QED
  BY <1>3, <1>4

LEMMA OtherOwnCheck ==
  ASSUME TypeOK, QueueInv, PublicationInv, OwnCheckInv, OtherStep
  PROVE  OwnCheckInv'
<1> SUFFICES ASSUME InOneGo' PROVE FreshRows' /\ \A v \in Loops : Fresh(v)'
  BY DEF OwnCheckInv
<1>1. Types
  BY DEF TypeOK
<1>2. InOneGo /\ Published' = Published /\ UNCHANGED checks
  BY OtherKeeps, OtherPublished
<1>3. FreshRows /\ \A v \in Loops : Fresh(v)
  BY <1>2 DEF OwnCheckInv
<1>4. ASSUME NEW w \in Loops PROVE Fresh(w)'
  <2>1. CASE task'[w] = task[w]
    <3>1. task[w].at \in {"context", "target", "find", "create", "record", "marker"} =>
            task[w].job \in GuideJobs
      BY <1>1, GuideLane DEF GuidePlaces, BeforeGuide
    <3>2. task[w].job \in GuideJobs => row'[task[w].job].check = row[task[w].job].check
                                       /\ row'[task[w].job].target = row[task[w].job].target
      BY OtherRows
    <3>3. Fresh(w)
      BY <1>3
    <3>4. QED
      BY <1>2, <2>1, <3>1, <3>2, <3>3 DEF Fresh, Starts, OwnCheck
  <2>2. CASE task'[w] = Idle
    BY <2>2, IdleType DEF Fresh, Starts, AtOwnCheck
  <2>3. ASSUME NEW j \in Jobs, Lease(w, j) PROVE Fresh(w)'
    BY <1>2, <1>3, <2>3, LeaseFresh
  <2>4. QED
    BY <2>1, <2>2, <2>3, OtherTasks
<1>5. FreshRows'
  <2> SUFFICES ASSUME ~Published, NEW j \in GuideJobs, phase'[j] \in {"none", "pending"}
               PROVE  row'[j].check = 0 /\ row'[j].target = 0
    BY <1>2 DEF FreshRows
  <2>1. j \in Jobs
    BY DEF Jobs
  <2>2. phase[j] \in {"none", "pending"}
    <3>1. ASSUME NEW w \in Loops, NEW k \in Jobs, Lease(w, k) PROVE phase[j] \in {"none", "pending"}
      <4>1. phase' = [phase EXCEPT ![k] = "active"]
        BY <3>1 DEF Lease, Queue!Take
      <4>2. QED
        BY <1>1, <2>1, <4>1 DEF Types
    <3>2. ASSUME NEW w \in Loops, Settle(w) PROVE phase[j] \in {"none", "pending"}
      <4>1. task[w].at = "returned"
        BY <1>3, <3>2 DEF Fresh, Settle
      <4>2. QED
        BY <2>1, <3>2, <4>1, SettleQueue
    <3>3. ASSUME NEW p, Crash(p) PROVE FALSE
      <4>1. faults'.early = faults.early + 1
        BY <1>1, <3>3 DEF Crash, Types
      <4>2. QED
        BY <1>1, <1>2, <4>1 DEF InOneGo, Types
    <3>4. CASE Environment
      BY <2>1, <3>4, EventQueue
    <3>5. CASE UNCHANGED vars
      BY <3>5 DEF vars, queueVars
    <3>6. QED
      BY <3>1, <3>2, <3>3, <3>4, <3>5 DEF OtherStep
  <2>3. QED
    BY <1>3, <2>2, OtherRows DEF FreshRows
<1>6. QED
  BY <1>4, <1>5

LEMMA InitOwnCheck == Init => OwnCheckInv
BY DEF Init, OwnCheckInv, FreshRows, Fresh, Starts, AtOwnCheck, Idle, NewRow

-----------------------------------------------------------------------------
(***************************************************************************)
(* What a reconciler has seen of the check runs is still so when it        *)
(* writes: only the holder of the lock writes once the guide is out.       *)
(***************************************************************************)
Looked(w) ==
  /\ IF task[w].check = 0 THEN OfHead(task[w].head) = {} ELSE Newest(task[w].check, task[w].head)
  /\ task[w].latest = IF task[w].check = 0 THEN NoCheck ELSE checks[task[w].check]
LookedInv ==
  \A w \in Loops : task[w].at \in {"reread", "write"} => Looked(w)

LEMMA LookStep ==
  ASSUME TypeOK, NEW w \in Loops, StepOf(w), task[w].at = "checks", task'[w].at = "reread"
  PROVE  Looked(w)'
<1>1. Types /\ Local(w) /\ Effect(w)
  BY StepFacts
<1>2. Handler(w)
  <2>1. Fails(w) => Throws(w)
    BY DEF Fails, CallFails, CreateFails, LeaveFails, Leaves, PostFails, Thrown, StandsAt, InLock
  <2>2. Throws(w) => task'[w] = [task[w] EXCEPT !.at = "leave", !.broken = TRUE]
    BY <1>1, LocalOfMove DEF Throws
  <2>3. Throws(w) => task'[w].at = "leave"
    BY <1>1, <2>2, TaskFields DEF Task
  <2>4. QED
    BY <2>1, <2>3 DEF StepOf
<1>3. ReadChecks(w) /\ UNCHANGED checks
  BY <1>1, <1>2, ActionAt, EffectKeeps DEF StandsAt
<1>4. task'[w].head = task[w].head
  BY <1>1 DEF Local, Changes
<1>5. CASE OfHead(task[w].head) = {}
  <2>0. Move(w, [task[w] EXCEPT !.at = "reread", !.check = 0, !.latest = NoCheck])
    BY <1>3, <1>5 DEF ReadChecks
  <2>1. task'[w] = [task[w] EXCEPT !.at = "reread", !.check = 0, !.latest = NoCheck]
    BY <1>1, <2>0, LocalOfMove
  <2>2. task'[w].check = 0 /\ task'[w].latest = NoCheck
    BY <1>1, <2>1, TaskFields DEF Task
  <2>3. QED
    BY <1>3, <1>4, <1>5, <2>2 DEF Looked, OfHead
<1>6. CASE OfHead(task[w].head) # {}
  <2>0. Move(w, [task[w] EXCEPT !.at = "reread", !.check = LatestOf(task[w].head),
                                !.latest = checks[LatestOf(task[w].head)]])
    BY <1>3, <1>6 DEF ReadChecks
  <2>1. task'[w] = [task[w] EXCEPT !.at = "reread", !.check = LatestOf(task[w].head),
                                   !.latest = checks[LatestOf(task[w].head)]]
    BY <1>1, <2>0, LocalOfMove
  <2>2. task'[w].check = LatestOf(task[w].head) /\ task'[w].latest = checks[LatestOf(task[w].head)]
    BY <1>1, <2>1, TaskFields DEF Task
  <2>3. Newest(LatestOf(task[w].head), task[w].head) /\ LatestOf(task[w].head) # 0
    BY <1>6, LatestIsNewest DEF Newest, OfHead, CheckIds
  <2>4. QED
    BY <1>3, <1>4, <2>2, <2>3 DEF Looked, Newest, OfHead
<1>7. QED
  BY <1>5, <1>6

LEMMA StepLooked ==
  ASSUME TypeOK, QueueInv, PublicationInv, LookedInv, OneGuideLoop, NEW w \in Loops, StepOf(w)
  PROVE  LookedInv'
<1>1. Types /\ Local(w) /\ Others(w) /\ Effect(w) /\ task[w].at # "idle"
  BY StepFacts
<1>2. ASSUME task'[w].at \in {"reread", "write"} PROVE Looked(w)'
  <2>1. CASE task'[w].at = "reread"
    BY <1>1, <2>1, CameFrom, LookStep
  <2>2. CASE task'[w].at = "write"
    <3>1. task[w].at = "reread" /\ Looked(w) /\ UNCHANGED checks
      BY <1>1, <2>2, CameFrom, EffectKeeps DEF LookedInv
    <3>2. task'[w].check = task[w].check /\ task'[w].head = task[w].head
          /\ task'[w].latest = task[w].latest
      BY <1>1, <3>1 DEF Local, Changes
    <3>3. QED
      BY <3>1, <3>2 DEF Looked, Newest, OfHead
  <2>3. QED
    BY <1>2, <2>1, <2>2
<1>3. ASSUME NEW v \in Loops, v # w, task'[v].at \in {"reread", "write"} PROVE Looked(v)'
  <2>1. task'[v] = task[v] /\ Looked(v) /\ lock = v
    BY <1>1, <1>3 DEF Others, LookedInv, TypeOK, InLock
  <2>2. task[w].at # "write"
    BY <1>3, <2>1 DEF TypeOK, InLock
  <2>3. task[w].at \notin BeforeGuide \cup {"conclude", "abort"}
    BY <1>3, <2>1, GuideAlone
  <2>4. UNCHANGED checks
    BY <1>1, <2>2, <2>3, EffectKeeps DEF BeforeGuide
  <2>5. QED
    BY <2>1, <2>4 DEF Looked, Newest, OfHead
<1>4. QED
  BY <1>2, <1>3 DEF LookedInv

LEMMA OtherLooked ==
  ASSUME TypeOK, QueueInv, LookedInv, OtherStep
  PROVE  LookedInv'
BY OtherKeeps DEF LookedInv, Looked, Newest, OfHead

LEMMA InitLooked == Init => LookedInv
BY DEF Init, LookedInv, Idle

-----------------------------------------------------------------------------
(***************************************************************************)
(* Whatever is wrong on the check of the HEAD, somebody will look again.   *)
(***************************************************************************)
Right(k) == k.status = "completed" /\ (Unresolved # {} <=> k.conclusion = "action_required")
Wrong ==
  \/ Unresolved # {} /\ \E c \in CheckIds : Newest(c, pull.head) /\ checks[c].conclusion = "success"
  \/ InOneGo /\ ~ \E c \in CheckIds : Newest(c, pull.head) /\ Right(checks[c])
Misled(w) == task[w].at \in {"checks", "reread", "write"} /\ ~(SeesOpen(w) <=> Unresolved # {})
LooksAgain(w) ==
  \/ task[w].at \in {"marker", "ignore", "turn", "lock", "pull", "publication", "threads", "threw"}
  \/ task[w].at = "leave" /\ task[w].broken
  \/ task[w].at \in {"checks", "reread"} /\ ~Misled(w)
  \/ task[w].at = "write" /\ ~Misled(w) /\ task[w].head = pull.head
  \/ task[w].at \in {"post", "conclude"} /\ task[w].head = pull.head
Danger == pull.open /\ Published /\ (Wrong \/ \E w \in Loops : Misled(w))
JobPending == \E j \in Jobs : phase[j] = "pending"
GuideJobPending == \E j \in GuideJobs : phase[j] = "pending"
PostsOutdated(w) == task[w].at \in {"post", "conclude"} /\ task[w].head # pull.head
RepairInv ==
  /\ Danger => JobPending \/ \E w \in Loops : LooksAgain(w)
  /\ \A w \in Loops : PostsOutdated(w) => GuideJobPending

LEMMA NewestIsOne ==
  ASSUME NEW h, NEW c, NEW d, Newest(c, h), Newest(d, h)
  PROVE  c = d
BY DEF Newest, OfHead, CheckIds

(* Where a failed call leads, and what the other steps of a reconciler     *)
(* have seen.                                                              *)
LEMMA FailsGoes ==
  ASSUME Types, NEW w \in Loops, Fails(w)
  PROVE  /\ task[w].at \in InLock \ {"leave"} => task'[w].at = "leave" /\ task'[w].broken
         /\ task[w].at \in {"ignore", "leave", "marker", "abort"} => task'[w].at = "threw"
         /\ task[w].at \in InTry => task'[w].at = "abort"
<1>1. CASE task[w].at \in InLock \ {"leave"}
  <2>1. Throws(w)
    BY <1>1 DEF Fails, CallFails, CreateFails, LeaveFails, Leaves, PostFails, Thrown, StandsAt, InLock
  <2>2. task'[w] = [task[w] EXCEPT !.at = "leave", !.broken = TRUE]
    BY <2>1, LocalOfMove DEF Throws
  <2>3. task'[w].at = "leave" /\ task'[w].broken
    BY <2>2, TaskFields DEF Task
  <2>4. QED
    BY <1>1, <2>3 DEF InLock, InTry
<1>2. CASE task[w].at \in {"ignore", "leave", "marker", "abort"}
  <2>1. Go(w, "threw")
    BY <1>2 DEF Fails, CallFails, CreateFails, LeaveFails, Leaves, PostFails, Thrown, StandsAt,
       InLock, BeforeTry, InTry
  <2>2. task'[w] = [task[w] EXCEPT !.at = "threw"]
    BY <2>1, LocalOfMove DEF Go
  <2>3. task'[w].at = "threw"
    BY <2>2, TaskFields DEF Task
  <2>4. QED
    BY <1>2, <2>3 DEF InLock, InTry
<1>3. CASE task[w].at \in InTry
  <2>1. Go(w, "abort")
    BY <1>3 DEF Fails, CallFails, CreateFails, LeaveFails, Leaves, PostFails, Thrown, StandsAt,
       InLock, BeforeTry, InTry
  <2>2. task'[w] = [task[w] EXCEPT !.at = "abort"]
    BY <2>1, LocalOfMove DEF Go
  <2>3. task'[w].at = "abort"
    BY <2>2, TaskFields DEF Task
  <2>4. QED
    BY <1>3, <2>3 DEF InLock, InTry
<1>4. QED
  BY <1>1, <1>2, <1>3

LEMMA GoAt ==
  ASSUME Types, NEW w \in Loops, NEW at, Go(w, at)
  PROVE  task'[w].at = at
<1>1. task'[w] = [task[w] EXCEPT !.at = at]
  BY LocalOfMove DEF Go
<1>2. QED
  BY <1>1, TaskFields DEF Task

LEMMA ThrowsAt ==
  ASSUME Types, NEW w \in Loops, Throws(w)
  PROVE  task'[w].at = "leave" /\ task'[w].broken
<1>1. task'[w] = [task[w] EXCEPT !.at = "leave", !.broken = TRUE]
  BY LocalOfMove DEF Throws
<1>2. QED
  BY <1>1, TaskFields DEF Task

LEMMA IgnoreStep ==
  ASSUME Types, NEW w \in Loops, StepOf(w), task[w].at = "ignore"
  PROVE  task'[w].at \in {"turn", "threw"} \/ ~pull.open
<1>1. CASE Handler(w)
  BY <1>1, ActionAt, GoAt DEF Ignore, StandsAt
<1>2. QED
  BY <1>1, FailsGoes DEF StepOf

LEMMA PullStep ==
  ASSUME Types, NEW w \in Loops, StepOf(w), task[w].at = "pull"
  PROVE  task'[w].at = "publication" \/ (task'[w].at = "leave" /\ (task'[w].broken \/ ~pull.open))
<1>1. CASE Handler(w)
  <2>1. Move(w, [task[w] EXCEPT !.at = IF pull.open THEN "publication" ELSE "leave", !.head = pull.head])
    BY <1>1, ActionAt DEF ReadPull, StandsAt
  <2>2. task'[w] = [task[w] EXCEPT !.at = IF pull.open THEN "publication" ELSE "leave", !.head = pull.head]
    BY <2>1, LocalOfMove
  <2>3. task'[w].at = IF pull.open THEN "publication" ELSE "leave"
    BY <2>2, TaskFields DEF Task
  <2>4. QED
    BY <2>3
<1>2. QED
  BY <1>1, FailsGoes DEF StepOf, InLock

LEMMA ThreadsStep ==
  ASSUME Types, NEW w \in Loops, StepOf(w), task[w].at = "threads"
  PROVE  \/ task'[w].at = "checks" /\ task'[w].read = thread
         \/ task'[w].at = "leave" /\ task'[w].broken
<1>1. CASE Handler(w)
  <2>1. Throws(w) \/ Move(w, [task[w] EXCEPT !.at = "checks", !.read = thread])
    BY <1>1, ActionAt DEF ReadThreads, StandsAt
  <2>2. CASE Move(w, [task[w] EXCEPT !.at = "checks", !.read = thread])
    <3>1. task'[w] = [task[w] EXCEPT !.at = "checks", !.read = thread]
      BY <2>2, LocalOfMove
    <3>2. QED
      BY <3>1, TaskFields DEF Task
  <2>3. QED
    BY <2>1, <2>2, ThrowsAt
<1>2. QED
  BY <1>1, FailsGoes DEF StepOf, InLock

LEMMA RereadStep ==
  ASSUME Types, NEW w \in Loops, StepOf(w), task[w].at = "reread"
  PROVE  \/ task'[w].at = "leave" /\ task'[w].broken
         \/ /\ task'[w].at \in {"leave", "write"}
            /\ pull.open => task[w].head = pull.head
            /\ task'[w].at = "leave" /\ pull.open => task[w].latest = Findings(w)
<1>1. CASE Handler(w)
  <2>1. Reread(w)
    BY <1>1, ActionAt DEF StandsAt
  <2>2. CASE pull.open /\ pull.head # task[w].head
    BY <2>1, <2>2, ThrowsAt DEF Reread
  <2>3. CASE ~(pull.open /\ pull.head # task[w].head)
    <3>1. Go(w, IF ~pull.open \/ task[w].latest = Findings(w) THEN "leave" ELSE "write")
      BY <2>1, <2>3 DEF Reread
    <3>2. task'[w].at = IF ~pull.open \/ task[w].latest = Findings(w) THEN "leave" ELSE "write"
      BY <3>1, GoAt
    <3>3. QED
      BY <2>3, <3>2
  <2>4. QED
    BY <2>2, <2>3
<1>2. QED
  BY <1>1, FailsGoes DEF StepOf, InLock

LEMMA WriteStep ==
  ASSUME Types, NEW w \in Loops, StepOf(w), task[w].at = "write"
  PROVE  task'[w].at = "leave" /\ (task'[w].broken \/ Writes(w))
<1>1. CASE Handler(w)
  BY <1>1, ActionAt, GoAt DEF Write, StandsAt
<1>2. QED
  BY <1>1, FailsGoes DEF StepOf, InLock

LEMMA LeaveStep ==
  ASSUME Types, NEW w \in Loops, StepOf(w), task[w].at = "leave"
  PROVE  task'[w].at = "threw" \/ (task'[w].at = "returned" /\ ~task[w].broken)
<1>1. CASE Handler(w)
  BY <1>1, ActionAt, GoAt DEF Leave, StandsAt
<1>2. QED
  BY <1>1, FailsGoes DEF StepOf, InLock

LEMMA PublishStep ==
  ASSUME Types, NEW w \in Loops, StepOf(w), task[w].at = "publish", task'[w].at = "post"
  PROVE  task'[w].head = pull.head
<1>1. Handler(w)
  BY FailsGoes DEF StepOf, InTry
<1>2. Go(w, IF Outdated(w) THEN "cancel" ELSE "post")
  BY <1>1, ActionAt DEF Current, StandsAt
<1>3. ~Outdated(w)
  BY <1>2, GoAt
<1>4. task'[w].head = task[w].head
  BY <1>1, HandlerLocal DEF Local, Changes
<1>5. QED
  BY <1>3, <1>4 DEF Outdated

LEMMA OthersLook ==
  ASSUME TypeOK, NEW w \in Loops, StepOf(w), UNCHANGED thread, NEW v \in Loops, v # w
  PROVE  (LooksAgain(v) => LooksAgain(v)') /\ (Misled(v)' => Misled(v))
<1>1. task'[v] = task[v] /\ UNCHANGED pull
  BY StepFacts DEF Others
<1>2. Misled(v)' <=> Misled(v)
  BY <1>1 DEF Misled, SeesOpen, Unresolved
<1>3. QED
  BY <1>1, <1>2 DEF LooksAgain

LEMMA SomebodyElse ==
  ASSUME TypeOK, RepairInv, NEW w \in Loops, StepOf(w), UNCHANGED thread, Danger, ~JobPending,
         ~LooksAgain(w)
  PROVE  \E v \in Loops : LooksAgain(v)'
<1>1. PICK v \in Loops : LooksAgain(v)
  BY DEF RepairInv
<1>2. LooksAgain(v)'
  BY <1>1, OthersLook
<1>3. QED
  BY <1>2

LEMMA SameWrong ==
  ASSUME UNCHANGED <<pull, thread, checks>>, InOneGo' => InOneGo, Wrong'
  PROVE  Wrong
BY DEF Wrong, Newest, OfHead, Right, Unresolved

LEMMA LockAlone ==
  ASSUME TypeOK, NEW v \in Loops, NEW w \in Loops,
         task[v].at \in {"checks", "reread", "write"}, task[w].at \in {"checks", "reread", "write"}
  PROVE  v = w
BY DEF TypeOK, InLock

(* What a reconciler that has read the threads as they are writes is right. *)
LEMMA RightFindings ==
  ASSUME Types, PublicationInv, NEW w \in Loops, task[w].at \in {"reread", "write"}, ~Misled(w)
  PROVE  LET k == Findings(w) IN Right(k) /\ (k.conclusion = "success" => Unresolved = {})
<1>1. "published" \in task[w].markers /\ (SeesOpen(w) <=> Unresolved # {})
  BY DEF PublicationInv, Stands, Misled
<1>2. QED
  BY <1>1, FindingsSay DEF Right

LEMMA NewestRight ==
  ASSUME NEW c \in CheckIds, Newest(c, pull.head), Right(checks[c]),
         checks[c].conclusion = "success" => Unresolved = {}
  PROVE  ~Wrong
BY NewestIsOne DEF Wrong

(* A reconciler that leaves without a write has found the check right.     *)
LEMMA FoundRight ==
  ASSUME TypeOK, PublicationInv, LookedInv, NEW w \in Loops, task[w].at = "reread", ~Misled(w),
         task[w].head = pull.head, task[w].latest = Findings(w)
  PROVE  ~Wrong
<1>1. Looked(w) /\ Types
  BY DEF LookedInv, TypeOK
<1>2. Findings(w).status = "completed"
  BY <1>1, FindingsSay
<1>3. task[w].check # 0
  BY <1>1, <1>2 DEF Looked, NoCheck
<1>4. Newest(task[w].check, pull.head) /\ checks[task[w].check] = Findings(w)
      /\ task[w].check \in CheckIds
  BY <1>1, <1>3 DEF Looked, Newest, OfHead
<1>5. QED
  BY <1>1, <1>4, RightFindings, NewestRight

LEMMA NewestRightAfter ==
  ASSUME NEW c \in CheckIds, Newest(c, pull.head)', Right(checks[c])',
         (checks[c].conclusion = "success" => Unresolved = {})'
  PROVE  ~Wrong'
<1>1. \A d \in CheckIds : Newest(d, pull.head)' => d = c
  BY DEF Newest, OfHead, CheckIds
<1>2. QED
  BY <1>1 DEF Wrong

LEMMA WrittenRight ==
  ASSUME TypeOK, HeadInv, HeadsKnown, PublicationInv, LookedInv, NEW w \in Loops, StepOf(w),
         task[w].at = "write", Writes(w), ~Misled(w), task[w].head = pull.head, UNCHANGED thread
  PROVE  ~Wrong'
<1>1. Types /\ Looked(w) /\ UNCHANGED pull
  BY StepFacts DEF LookedInv
<1>2. PICK c \in CheckIds : /\ Rewrites(w, c, Findings(w))
                            /\ IF task[w].check = 0 THEN Unused(c) ELSE c = task[w].check
  BY <1>1, WritesRewrites
<1>3. checks' = [checks EXCEPT ![c] = Findings(w)] /\ Findings(w).head = task[w].head
  BY <1>1, <1>2, FindingsSay DEF Rewrites
<1>4. checks'[c] = Findings(w) /\ \A d \in CheckIds : d # c => checks'[d] = checks[d]
  BY <1>1, <1>3 DEF Types
<1>5. \A d \in OfHead(pull.head) : d <= c
  BY <1>1, <1>2 DEF Looked, Newest
<1>6. Newest(c, pull.head)'
  BY <1>1, <1>3, <1>4, <1>5 DEF Newest, OfHead, CheckIds
<1>7. Right(Findings(w)) /\ (Findings(w).conclusion = "success" => Unresolved = {})
  BY <1>1, RightFindings
<1>8. UNCHANGED Unresolved
  BY DEF Unresolved
<1>9. Right(checks[c])' /\ (checks[c].conclusion = "success" => Unresolved = {})'
  BY <1>4, <1>7, <1>8 DEF Right
<1>10. QED
  BY <1>6, <1>9, NewestRightAfter

(* A write to an outdated HEAD's check leaves the HEAD's as they are.      *)
LEMMA WrittenElsewhere ==
  ASSUME TypeOK, HeadInv, HeadsKnown, LookedInv, NEW w \in Loops, StepOf(w), task[w].at = "write",
         Writes(w), task[w].head # pull.head, UNCHANGED thread, InOneGo' => InOneGo, Wrong'
  PROVE  Wrong
<1>1. Types /\ Looked(w) /\ UNCHANGED pull /\ pull.head # 0
  <2>1. Types /\ Looked(w) /\ UNCHANGED pull
    BY StepFacts DEF LookedInv
  <2>2. pull.head \in Heads
    BY <2>1 DEF Types
  <2>3. QED
    BY <2>1, <2>2 DEF Heads
<1>2. PICK c \in CheckIds : /\ Rewrites(w, c, Findings(w))
                            /\ IF task[w].check = 0 THEN Unused(c) ELSE c = task[w].check
  BY <1>1, WritesRewrites
<1>3. checks' = [checks EXCEPT ![c] = Findings(w)] /\ Findings(w).head = task[w].head
  BY <1>1, <1>2, FindingsSay DEF Rewrites
<1>4. checks'[c] = Findings(w) /\ \A d \in CheckIds : d # c => checks'[d] = checks[d]
  BY <1>1, <1>3 DEF Types
<1>5. checks[c].head # pull.head
  <2>1. CASE task[w].check = 0
    BY <1>1, <1>2, <2>1 DEF Unused, HeadInv, ChecksNumbered
  <2>2. CASE task[w].check # 0
    BY <1>1, <1>2, <2>2 DEF Looked, Newest, OfHead
  <2>3. QED
    BY <2>1, <2>2
<1>6. \A d \in CheckIds : (checks'[d].head = pull.head) <=> (checks[d].head = pull.head)
  BY <1>3, <1>4, <1>5
<1>7. \A d \in CheckIds : checks[d].head = pull.head => checks'[d] = checks[d]
  BY <1>4, <1>5
<1>8. OfHead(pull.head)' = OfHead(pull.head) /\ Unresolved' = Unresolved
  BY <1>1, <1>6 DEF OfHead, Unresolved
<1>9. \A d \in CheckIds : Newest(d, pull.head) <=> Newest(d, pull.head)'
  BY <1>8 DEF Newest
<1>10. \A d \in CheckIds : Newest(d, pull.head) => checks'[d] = checks[d]
  BY <1>7 DEF Newest, OfHead
<1>11. QED
  BY <1>8, <1>9, <1>10 DEF Wrong, Right

(* The review's own conclusion is right.                                   *)
LEMMA ConcludedRight ==
  ASSUME TypeOK, HeadInv, PlanInv, PublicationInv, OwnCheckInv, NEW w \in Loops, StepOf(w), Handler(w),
         task[w].at = "conclude", task[w].head = pull.head, UNCHANGED thread, InOneGo
  PROVE  \E c \in CheckIds : Newest(c, pull.head)' /\ Right(checks[c])'
<1>1. Types /\ UNCHANGED pull /\ pull.head # 0
  <2>1. Types /\ UNCHANGED pull
    BY StepFacts
  <2>2. QED
    BY <2>1 DEF Types, Heads
<1>2. OwnCheck(w) /\ Posted(w) /\ Planned(task[w])
  BY DEF OwnCheckInv, Fresh, AtOwnCheck, PublicationInv, Stands, PlanInv
<1>3. PICK c \in CheckIds : c = task[w].check /\ checks[c].head = pull.head
  BY <1>1, <1>2, TaskFields DEF OwnCheck
<1> DEFINE k == Report(checks[c].head, Outcome(w), <<"guide", 0, 0>>)
<1>4. checks' = [checks EXCEPT ![c] = k]
  BY <1>3, ActionAt DEF Conclude, Concludes, Updates, StandsAt, CheckIds
<1>5. k.head = pull.head /\ k.status = "completed" /\ k.conclusion = Outcome(w)
  BY <1>3 DEF Report
<1> HIDE DEF k
<1>6. checks'[c] = k /\ \A d \in CheckIds : d # c => checks'[d] = checks[d]
  BY <1>1, <1>3, <1>4 DEF Types
<1>7. Newest(c, pull.head)'
  <2>1. ASSUME NEW d \in CheckIds, checks'[d].head = pull.head PROVE d <= c
    <3>1. ASSUME d # c PROVE ~(d > c)
      <4>1. checks[d].head = pull.head
        BY <1>6, <2>1, <3>1, <1>1
      <4>2. checks[d].status # "absent"
        BY <1>1, <4>1 DEF HeadInv, ChecksNumbered
      <4>3. QED
        BY <1>2, <1>3, <4>2 DEF OwnCheck
    <3>2. QED
      BY <1>3, <3>1 DEF CheckIds
  <2>2. QED
    BY <1>1, <1>3, <1>5, <1>6, <2>1 DEF Newest, OfHead
<1>8. Unresolved # {} <=> Outcome(w) = "action_required"
  <2>1. task[w].posted = task[w].items /\ (task[w].inconclusive => task[w].items = {})
    BY <1>2 DEF Planned
  <2>2. Outcome(w) = "action_required" <=> ~task[w].inconclusive /\ ~task[w].broken /\ task[w].items # {}
    BY OutcomeSays
  <2>3. Unresolved # {} <=> ~task[w].broken /\ task[w].posted # {}
    <3>1. task[w].posted \subseteq Items
      BY <1>1, TaskFields
    <3>2. CASE task[w].broken
      BY <1>2, <3>2 DEF Posted, NoThreads, Unresolved
    <3>3. CASE ~task[w].broken
      BY <1>2, <3>1, <3>3 DEF Posted, Unresolved
    <3>4. QED
      BY <3>2, <3>3
  <2>4. QED
    BY <2>1, <2>2, <2>3
<1>9. Unresolved' = Unresolved
  BY DEF Unresolved
<1>10. QED
  BY <1>3, <1>5, <1>6, <1>7, <1>8, <1>9 DEF Right

LEMMA StepPostsOutdated ==
  ASSUME TypeOK, RepairInv, NEW w \in Loops, StepOf(w), NEW v \in Loops, PostsOutdated(v)'
  PROVE  GuideJobPending'
<1>1. /\ Types /\ Local(w) /\ Others(w) /\ UNCHANGED <<phase, pull>>
  BY StepFacts
<1>2. PostsOutdated(v)
  <2>1. CASE v # w
    BY <1>1, <2>1 DEF PostsOutdated, Others
  <2>2. CASE v = w
    <3>1. task[w].at # "publish"
      BY <1>1, <2>2, PublishStep, CameFrom DEF PostsOutdated
    <3>2. task[w].at = "post" /\ task'[w].head = task[w].head
      BY <1>1, <2>2, <3>1, CameFrom DEF PostsOutdated, Local, Changes
    <3>3. QED
      BY <1>1, <2>2, <3>2 DEF PostsOutdated
  <2>3. QED
    BY <2>1, <2>2
<1>3. GuideJobPending
  BY <1>2 DEF RepairInv
<1>4. QED
  BY <1>1, <1>3 DEF GuideJobPending

(* The guide is being posted.                                              *)
LEMMA PostRepairs ==
  ASSUME TypeOK, QueueInv, PlanInv, PublicationInv, RepairInv, OneGuideLoop, NEW w \in Loops,
         StepOf(w), task[w].at = "post", ~GuideJobPending, Danger'
  PROVE  \E v \in Loops : LooksAgain(v)'
<1>1. /\ Types /\ Local(w) /\ Others(w) /\ Effect(w) /\ UNCHANGED <<phase, checks, pull>>
      /\ task[w].at # "idle"
  BY StepFacts, EffectKeeps
<1>2. task[w].head = pull.head /\ task'[w].head = task[w].head
  BY <1>1 DEF RepairInv, PostsOutdated, Local, Changes
<1>3. CASE task'[w].at \in {"post", "conclude"}
  BY <1>1, <1>2, <1>3 DEF LooksAgain
<1>4. CASE task'[w].at = "abort"
  <2>1. ~InOneGo'
    BY <1>1, <1>4, StepFaults, HandlerGoes DEF StepOf
  <2>2. NoSuccess'
    BY <1>1 DEF PublicationInv, NoSuccess
  <2>3. ~Wrong'
    BY <2>1, <2>2 DEF Wrong, NoSuccess
  <2>4. ASSUME NEW v \in Loops PROVE ~Misled(v)'
    <3>1. v # w => task[v].at = "idle"
      BY <1>1, GuideAlone
    <3>2. QED
      BY <1>1, <1>4, <3>1 DEF Misled, Others
  <2>5. QED
    BY <2>3, <2>4 DEF Danger
<1>5. QED
  BY <1>1, <1>3, <1>4 DEF Local, Changes, Edge

(* The guide is out, and its job concludes.                                *)
LEMMA ConcludeRepairs ==
  ASSUME TypeOK, QueueInv, HeadInv, PlanInv, PublicationInv, OwnCheckInv, RepairInv, OneGuideLoop,
         NEW w \in Loops, StepOf(w), task[w].at = "conclude", ~GuideJobPending, UNCHANGED thread
  PROVE  ~Danger'
<1>1. /\ Types /\ Local(w) /\ Others(w) /\ Effect(w) /\ UNCHANGED <<phase, pull>>
      /\ task[w].at # "idle"
  BY StepFacts
<1>2. task[w].head = pull.head
  BY DEF RepairInv, PostsOutdated
<1>3. NoSuccess' \/ NoThreads'
  BY ConcludeKeeps
<1>4. InOneGo' => InOneGo /\ Handler(w)
  BY <1>1, StepFaults
<1>5. ~Wrong'
  BY <1>2, <1>3, <1>4, ConcludedRight DEF Wrong, NoSuccess, NoThreads, Unresolved
<1>6. ASSUME NEW v \in Loops PROVE ~Misled(v)'
  <2>1. v # w => task[v].at = "idle"
    BY <1>1, GuideAlone
  <2>2. task'[w].at \in {"returned", "abort"}
    BY <1>1 DEF Local, Changes, Edge
  <2>3. QED
    BY <1>1, <2>1, <2>2 DEF Misled, Others
<1>7. QED
  BY <1>5, <1>6 DEF Danger

(* A reconciler at work.                                                   *)
LEMMA ReconcileRepairs ==
  ASSUME TypeOK, HeadsKnown, QueueInv, HeadInv, PublicationInv, LookedInv, RepairInv,
         NEW w \in Loops, StepOf(w), Published, UNCHANGED thread, ~JobPending, Danger',
         task[w].at \in {"abort", "marker", "ignore", "turn"} \cup InLock
  PROVE  \E v \in Loops : LooksAgain(v)'
<1>1. /\ Types /\ Local(w) /\ Others(w) /\ Effect(w) /\ UNCHANGED <<phase, pull>>
      /\ InOneGo' => InOneGo
  BY StepFacts, StepFaults
<1>2. pull.open /\ (Wrong' \/ \E v \in Loops : Misled(v)')
  BY <1>1 DEF Danger
<1>3. ASSUME ~LooksAgain(w), Wrong \/ \E v \in Loops : Misled(v)
      PROVE  \E v \in Loops : LooksAgain(v)'
  BY <1>2, <1>3, SomebodyElse DEF Danger
<1>4. ASSUME NEW v \in Loops, v # w, Misled(v)' PROVE Misled(v)
  BY <1>4, OthersLook
<1>5. task'[w].at = "leave" /\ task'[w].broken => LooksAgain(w)'
  BY DEF LooksAgain
<1>6. CASE task[w].at \in {"abort", "marker", "ignore", "turn", "lock", "pull", "publication"}
  <2>1. LooksAgain(w)'
    <3>1. task'[w].at \in {"marker", "ignore", "turn", "lock", "pull", "publication", "threads",
                           "threw"} \/ (task'[w].at = "leave" /\ task'[w].broken)
      <4>1. task[w].at = "marker" => task'[w].at \in {"turn", "threw"}
        BY <1>1, MarkerStep DEF Local, Changes, Edge
      <4>2. task[w].at = "ignore" => task'[w].at \in {"turn", "threw"}
        BY <1>1, <1>2, IgnoreStep
      <4>3. task[w].at = "pull" =>
              task'[w].at = "publication" \/ (task'[w].at = "leave" /\ task'[w].broken)
        BY <1>1, <1>2, PullStep
      <4>4. task[w].at \in {"lock", "publication"} =>
              task'[w].at \in {"pull", "threads"} \/ (task'[w].at = "leave" /\ task'[w].broken)
        <5>1. task[w].at \in {"lock", "publication"} /\ Handler(w) => task'[w].at \in {"pull", "threads"}
          <6>1. task[w].at = "lock" /\ Handler(w) => task'[w].at = "pull"
            BY <1>1, ActionAt, GoAt DEF GetLock, StandsAt
          <6>2. ASSUME task[w].at = "publication", Handler(w) PROVE task'[w].at = "threads"
            <7>1. PICK M : Move(w, [task[w] EXCEPT !.at = "threads", !.markers = M])
              BY <6>2, ActionAt DEF ReadPublication, StandsAt
            <7>2. task'[w] = [task[w] EXCEPT !.at = "threads", !.markers = M]
              BY <1>1, <7>1, LocalOfMove
            <7>3. QED
              BY <1>1, <7>2, TaskFields DEF Task
          <6>3. QED
            BY <6>1, <6>2
        <5>2. QED
          BY <1>1, <5>1, FailsGoes DEF StepOf, InLock
      <4>5. task[w].at \in {"abort", "turn"} => task'[w].at \in {"threw", "lock"}
        BY <1>1 DEF Local, Changes, Edge
      <4>6. QED
        BY <1>6, <4>1, <4>2, <4>3, <4>4, <4>5
    <3>2. QED
      BY <3>1 DEF LooksAgain
  <2>2. QED
    BY <2>1
<1>7. CASE task[w].at = "threads"
  <2>1. CASE task'[w].at = "checks" /\ task'[w].read = thread
    <3>1. ~Misled(w)'
      BY <2>1 DEF Misled, SeesOpen, Unresolved
    <3>2. QED
      BY <2>1, <3>1 DEF LooksAgain
  <2>2. QED
    BY <1>1, <1>5, <1>7, <2>1, ThreadsStep
<1>8. CASE task[w].at = "checks"
  <2>1. task'[w].at = "reread" \/ (task'[w].at = "leave" /\ task'[w].broken)
    <3>1. task'[w].at = "leave" => task'[w].broken
      <4>1. ASSUME Handler(w), task'[w].at = "leave" PROVE FALSE
        <5>1. \E c, k : Move(w, [task[w] EXCEPT !.at = "reread", !.check = c, !.latest = k])
          BY <1>8, <4>1, ActionAt DEF ReadChecks, StandsAt
        <5>2. \E c, k : task'[w] = [task[w] EXCEPT !.at = "reread", !.check = c, !.latest = k]
          BY <1>1, <5>1, LocalOfMove
        <5>3. QED
          BY <1>1, <4>1, <5>2, TaskFields DEF Task
      <4>2. QED
        BY <1>1, <1>8, <4>1, FailsGoes DEF StepOf, InLock
    <3>2. QED
      BY <1>1, <1>8, <3>1 DEF Local, Changes, Edge
  <2>2. CASE Misled(w)
    BY <1>3, <1>8, <2>2 DEF LooksAgain
  <2>3. CASE ~Misled(w) /\ task'[w].at = "reread"
    <3>1. task'[w].read = task[w].read
      BY <1>1, <1>8 DEF Local, Changes
    <3>2. ~Misled(w)'
      BY <1>8, <2>3, <3>1 DEF Misled, SeesOpen, Unresolved
    <3>3. QED
      BY <2>3, <3>2 DEF LooksAgain
  <2>4. QED
    BY <1>5, <2>1, <2>2, <2>3
<1>9. CASE task[w].at = "reread"
  <2>1. CASE Misled(w)
    BY <1>3, <1>9, <2>1 DEF LooksAgain
  <2>2. CASE ~Misled(w) /\ task'[w].at = "write" /\ task[w].head = pull.head
    <3>1. task'[w].read = task[w].read /\ task'[w].head = task[w].head
      BY <1>1, <1>9 DEF Local, Changes
    <3>2. ~Misled(w)'
      BY <1>9, <2>2, <3>1 DEF Misled, SeesOpen, Unresolved
    <3>3. QED
      BY <1>1, <2>2, <3>1, <3>2 DEF LooksAgain
  <2>3. CASE ~Misled(w) /\ task'[w].at = "leave" /\ task[w].head = pull.head
             /\ task[w].latest = Findings(w)
    <3>1. ~Wrong
      BY <1>9, <2>3, FoundRight
    <3>2. ~Wrong'
      BY <1>1, <1>9, <3>1, SameWrong, EffectKeeps
    <3>3. PICK v \in Loops : Misled(v)'
      BY <1>2, <3>2
    <3>4. v # w
      BY <2>3, <3>3 DEF Misled
    <3>5. Misled(v)
      BY <1>4, <3>3, <3>4
    <3>6. QED
      BY <1>9, <3>4, <3>5, LockAlone DEF Misled
  <2>4. QED
    BY <1>1, <1>2, <1>5, <1>9, <2>1, <2>2, <2>3, RereadStep
<1>10. CASE task[w].at = "write"
  <2>1. CASE Misled(w)
    BY <1>3, <1>10, <2>1 DEF LooksAgain
  <2>2. CASE ~Misled(w) /\ Writes(w)
    <3>1. ASSUME NEW v \in Loops PROVE ~Misled(v)'
      <4>1. CASE v # w
        BY <1>4, <1>10, <4>1, LockAlone DEF Misled
      <4>2. CASE v = w
        BY <1>1, <1>10, <4>2 DEF Misled, Local, Changes, Edge
      <4>3. QED
        BY <4>1, <4>2
    <3>2. task[w].head # pull.head
      BY <1>2, <1>10, <2>2, <3>1, WrittenRight
    <3>3. Wrong /\ ~LooksAgain(w)
      BY <1>1, <1>2, <1>10, <2>2, <3>1, <3>2, WrittenElsewhere DEF LooksAgain
    <3>4. QED
      BY <1>3, <3>3
  <2>3. QED
    BY <1>1, <1>5, <1>10, <2>1, <2>2, WriteStep
<1>11. CASE task[w].at = "leave"
  <2>1. CASE task'[w].at = "threw"
    BY <2>1 DEF LooksAgain
  <2>2. CASE task'[w].at = "returned" /\ ~task[w].broken
    <3>1. Wrong' => Wrong
      BY <1>1, <1>11, SameWrong, EffectKeeps
    <3>2. ASSUME NEW v \in Loops, Misled(v)' PROVE Misled(v)
      <4>1. v # w
        BY <2>2, <3>2 DEF Misled
      <4>2. QED
        BY <1>4, <3>2, <4>1
    <3>3. Wrong \/ \E v \in Loops : Misled(v)
      BY <1>2, <3>1, <3>2
    <3>4. ~LooksAgain(w)
      BY <1>11, <2>2 DEF LooksAgain
    <3>5. QED
      BY <1>3, <3>3, <3>4
  <2>3. QED
    BY <1>1, <1>11, <2>1, <2>2, LeaveStep
<1>12. QED
  BY <1>6, <1>7, <1>8, <1>9, <1>10, <1>11 DEF InLock

LEMMA StepRepair ==
  ASSUME TypeOK, HeadsKnown, QueueInv, HeadInv, PlanInv, PublicationInv, OwnCheckInv, LookedInv,
         RepairInv, OneGuideLoop, NEW w \in Loops, StepOf(w)
  PROVE  RepairInv'
<1>1. Types /\ Effect(w) /\ UNCHANGED phase /\ task[w].at \notin {"idle", "returned", "threw"}
      /\ task[w].at \in Places
  BY StepFacts, TaskFields
<1>2. ASSUME Danger', ~JobPending PROVE \E v \in Loops : LooksAgain(v)'
  <2>1. ~GuideJobPending
    BY <1>2 DEF GuideJobPending, JobPending, Jobs
  <2>2. CASE task[w].at = "post"
    BY <1>2, <2>1, <2>2, PostRepairs
  <2>3. CASE task[w].at # "post"
    <3>1. Published /\ UNCHANGED thread
      BY <1>1, <1>2, <2>3, PublishedByPost DEF Danger
    <3>2. task[w].at \notin BeforeGuide
      BY <3>1 DEF PublicationInv, Stands
    <3>3. task[w].at # "conclude"
      BY <1>2, <2>1, <3>1, ConcludeRepairs
    <3>4. task[w].at \in {"abort", "marker", "ignore", "turn"} \cup InLock
      BY <1>1, <2>3, <3>2, <3>3 DEF Places, BeforeTry, InTry, BeforeGuide
    <3>5. QED
      BY <1>2, <3>1, <3>4, ReconcileRepairs
  <2>4. QED
    BY <2>2, <2>3
<1>3. JobPending' <=> JobPending
  BY <1>1 DEF JobPending
<1>4. QED
  BY <1>2, <1>3, StepPostsOutdated DEF RepairInv

(* Outside the handlers only pushes and reopenings make a check wrong, and *)
(* those submit a job; a job that leaves its loop undone is pending.       *)
LEMMA PendingStays ==
  ASSUME TypeOK, QueueInv, OtherStep, NEW j \in Jobs, phase[j] = "pending"
  PROVE  phase'[j] = "pending" \/ \E w \in Loops : Lease(w, j)
<1>1. ASSUME NEW w \in Loops, NEW k \in Jobs, Lease(w, k)
      PROVE  phase'[j] = "pending" \/ \E v \in Loops : Lease(v, j)
  <2>1. CASE j = k
    BY <1>1, <2>1
  <2>2. CASE j # k
    <3>1. phase' = [phase EXCEPT ![k] = "active"]
      BY <1>1 DEF Lease, Queue!Take
    <3>2. phase'[j] = "pending"
      BY <2>2, <3>1 DEF TypeOK, Types
    <3>3. QED
      BY <3>2
  <2>3. QED
    BY <2>1, <2>2
<1>2. ASSUME NEW w \in Loops, Settle(w) PROVE phase'[j] = "pending"
  <2>1. phase[task[w].job] = "active"
    BY <1>2, SettleQueue, JobsAreNumbers DEF QueueInv, HoldsItsJob
  <2>2. QED
    BY <1>2, <2>1, SettleQueue
<1>3. QED
  BY <1>1, <1>2, CrashQueue, EventQueue DEF OtherStep, vars, queueVars

LEMMA OtherPostsOutdated ==
  ASSUME TypeOK, QueueInv, RepairInv, OneGuideLoop, OtherStep, NEW w \in Loops, PostsOutdated(w)'
  PROVE  GuideJobPending'
<1>1. Types
  BY DEF TypeOK
<1>2. task'[w] = task[w]
  BY OtherKeeps DEF PostsOutdated
<1>3. CASE PostsOutdated(w)
  <2>1. PICK j \in GuideJobs : phase[j] = "pending"
    BY <1>3 DEF RepairInv, GuideJobPending
  <2>2. j \in Jobs
    BY DEF Jobs
  <2>3. ASSUME NEW v \in Loops, Lease(v, j) PROVE FALSE
    <3>1. LaneOf(v) = "standard" /\ task[v].at = "idle"
      BY <2>3 DEF Lease, Lane, StandsAt
    <3>2. LaneOf(w) = "standard"
      BY <1>1, <1>3, GuideLane DEF PostsOutdated, GuidePlaces
    <3>3. QED
      BY <1>3, <3>1, <3>2 DEF OneGuideLoop, PostsOutdated
  <2>4. QED
    BY <2>1, <2>2, <2>3, PendingStays DEF GuideJobPending
<1>4. CASE ~PostsOutdated(w)
  <2>1. pull'.head # pull.head
    BY <1>2, <1>4 DEF PostsOutdated
  <2>2. Environment
    BY <2>1 DEF OtherStep, Lease, Settle, Crash, github, vars
  <2>3. Push
    BY <1>1, <2>1, <2>2, EventsOnPull DEF Types, PullType
  <2>4. PICK j \in GuideJobs : Submit(j)
    BY <2>3 DEF Push, Later
  <2>5. phase'[j] = "pending"
    BY <1>1, <2>4 DEF Submit, Queue!Submit, Types, Jobs
  <2>6. QED
    BY <2>5 DEF GuideJobPending
<1>5. QED
  BY <1>3, <1>4

LEMMA OtherRepair ==
  ASSUME TypeOK, QueueInv, RepairInv, OneGuideLoop, OtherStep
  PROVE  RepairInv'
<1>1. Types
  BY DEF TypeOK
<1>2. /\ UNCHANGED checks /\ (InOneGo' => InOneGo) /\ Published' = Published
      /\ \A w \in Loops : task'[w] = task[w] \/ task'[w].at \in {"idle", "marker", "ignore"}
  BY OtherKeeps, OtherPublished
<1>3. ASSUME UNCHANGED <<pull, thread>>, Danger' PROVE Danger
  <2>1. ASSUME NEW w \in Loops, Misled(w)' PROVE Misled(w)
    BY <1>2, <1>3, <2>1 DEF Misled, SeesOpen, Unresolved
  <2>2. Wrong' => Wrong
    BY <1>2, <1>3, SameWrong
  <2>3. QED
    BY <1>2, <1>3, <2>1, <2>2 DEF Danger
<1>4. ASSUME Danger', NEW w \in Loops, NEW j \in Jobs, Lease(w, j)
      PROVE  \E v \in Loops : LooksAgain(v)'
  <2>1. task'[w].at \in {"marker", "ignore"}
    BY <1>1, <1>4, LeaseMoves
  <2>2. QED
    BY <2>1 DEF LooksAgain
<1>5. ASSUME Danger', NEW w \in Loops, Settle(w)
      PROVE  JobPending' \/ \E v \in Loops : LooksAgain(v)'
  <2>1. CASE task[w].at = "threw"
    BY <1>5, <2>1, SettleQueue DEF JobPending
  <2>2. CASE task[w].at = "returned"
    <3>1. UNCHANGED <<pull, thread>> /\ Danger
      BY <1>3, <1>5 DEF Settle, github
    <3>2. CASE JobPending
      <4>1. PICK j \in Jobs : phase[j] = "pending"
        BY <3>2 DEF JobPending
      <4>2. phase[task[w].job] = "active"
        BY <1>5, SettleQueue, JobsAreNumbers DEF QueueInv, HoldsItsJob
      <4>3. QED
        BY <1>5, <4>1, <4>2, SettleQueue DEF JobPending
    <3>3. ASSUME NEW v \in Loops, LooksAgain(v) PROVE LooksAgain(v)'
      <4>1. v # w
        BY <2>2, <3>3 DEF LooksAgain
      <4>2. task'[v] = task[v]
        BY <1>1, <1>5, <4>1, SettleMoves DEF Moved, Others
      <4>3. QED
        BY <3>1, <3>3, <4>2 DEF LooksAgain, Misled, SeesOpen, Unresolved
    <3>4. QED
      BY <3>1, <3>2, <3>3 DEF RepairInv
  <2>3. QED
    BY <1>5, <2>1, <2>2 DEF Settle
<1>6. ASSUME NEW p, Crash(p) PROVE JobPending'
  BY <1>6, CrashQueue DEF JobPending
<1>7. ASSUME Danger', Environment \/ UNCHANGED vars
      PROVE  JobPending' \/ \E v \in Loops : LooksAgain(v)'
  <2>1. CASE JobPending'
    BY <2>1
  <2>2. CASE UNCHANGED <<task, phase, thread, pull>>
    <3>1. Danger /\ (JobPending' <=> JobPending)
      BY <1>3, <1>7, <2>2 DEF JobPending
    <3>2. ASSUME NEW v \in Loops, LooksAgain(v) PROVE LooksAgain(v)'
      BY <2>2, <3>2 DEF LooksAgain, Misled, SeesOpen, Unresolved
    <3>3. QED
      BY <3>1, <3>2 DEF RepairInv
  <2>3. CASE Close
    <3>1. ~pull'.open
      BY <1>1, <2>3 DEF Close, Happens, Types
    <3>2. QED
      BY <1>7, <3>1 DEF Danger
  <2>4. CASE ConflictChanges
    <3>1. /\ UNCHANGED <<task, phase, thread, row, checks, notes, faults>>
          /\ pull'.head = pull.head /\ pull'.open = pull.open
      BY <1>1, <2>4 DEF ConflictChanges, Happens, queueVars, Types
    <3>2. ASSUME NEW v \in Loops PROVE (Misled(v)' <=> Misled(v)) /\ (LooksAgain(v) => LooksAgain(v)')
      BY <3>1 DEF LooksAgain, Misled, SeesOpen, Unresolved
    <3>3. Wrong' => Wrong
      BY <3>1 DEF Wrong, Newest, OfHead, Right, Unresolved, InOneGo
    <3>4. Danger /\ (JobPending' <=> JobPending)
      BY <1>2, <1>7, <3>1, <3>2, <3>3 DEF Danger, JobPending
    <3>5. QED
      BY <3>2, <3>4 DEF RepairInv
  <2>5. QED
    BY <1>7, <2>1, <2>2, <2>3, <2>4, EventQueue DEF vars, queueVars, JobPending
<1>8. Danger' => JobPending' \/ \E v \in Loops : LooksAgain(v)'
  BY <1>4, <1>5, <1>6, <1>7 DEF OtherStep
<1>9. QED
  BY <1>8, OtherPostsOutdated DEF RepairInv

LEMMA InitRepair == Init => RepairInv
BY DEF Init, RepairInv, Danger, Published, PostsOutdated, Idle

-----------------------------------------------------------------------------
(***************************************************************************)
(* What is shown of the HEAD, with one standard loop and no status event   *)
(* while the guide is posted.                                              *)
(***************************************************************************)
GuideInv ==
  /\ TypeOK /\ HeadsKnown /\ QueueInv /\ HeadInv /\ PlanInv
  /\ PublicationInv /\ OwnCheckInv /\ LookedInv /\ RepairInv

LEMMA GuideInvHolds ==
  ASSUME OneGuideLoop, ~StatusDuringPublish
  PROVE  Spec => []GuideInv
<1>1. Init => GuideInv
  <2>1. Init => HeadsKnown
    BY DEF Init, HeadsKnown, HeadKnown, Idle
  <2>2. QED
    BY <2>1, InitTypes, InitQueue, InitHeads, InitPlans, InitPublication, InitOwnCheck, InitLooked,
       InitRepair DEF GuideInv
<1>2. GuideInv /\ [Next]_vars => GuideInv'
  <2> SUFFICES ASSUME GuideInv, [Next]_vars PROVE GuideInv'
    OBVIOUS
  <2>1. TypeOK' /\ HeadsKnown'
    BY NextTypes DEF GuideInv
  <2>2. ASSUME NEW w \in Loops, StepOf(w) PROVE GuideInv'
    <3>0. Types /\ Local(w) /\ Others(w)
      BY <2>2, StepFacts DEF GuideInv
    <3>1. QueueInv' /\ HeadInv' /\ PlanInv'
      BY <2>2, <3>0, StepQueue, StepHeads, StepPlans DEF GuideInv
    <3>2. PublicationInv' /\ (Published => Published')
      BY <2>2, StepBefore, StepPosting, StepAfter DEF GuideInv
    <3>3. OwnCheckInv'
      BY <2>2, <3>2, StepOwnCheck DEF GuideInv
    <3>4. LookedInv' /\ RepairInv'
      BY <2>2, StepLooked, StepRepair DEF GuideInv
    <3>5. QED
      BY <2>1, <3>1, <3>2, <3>3, <3>4 DEF GuideInv
  <2>3. ASSUME OtherStep, \A w \in Loops : ~StepOf(w) PROVE GuideInv'
    <3>1. QueueInv'
      BY <2>3, LeaseQueue, SettleQueue, CrashQueue, EventQueue
         DEF GuideInv, OtherStep, QueueInv, HoldsItsJob, vars, queueVars
    <3>2. HeadInv' /\ PlanInv'
      BY <2>3, OtherHeads, OtherPlans DEF GuideInv
    <3>3. PublicationInv' /\ OwnCheckInv' /\ LookedInv' /\ RepairInv'
      BY <2>3, OtherPublication, OtherOwnCheck, OtherLooked, OtherRepair DEF GuideInv
    <3>4. QED
      BY <2>1, <3>1, <3>2, <3>3 DEF GuideInv
  <2>4. QED
    BY <2>2, <2>3, StepOrOther
<1>3. QED
  BY <1>1, <1>2, PTL DEF Spec

(* When every row is worked off, nobody looks again: nothing is wrong.     *)
LEMMA NothingWrong ==
  ASSUME GuideInv, AllJobsEnded, pull.open, Published
  PROVE  ~Wrong
<1>1. Types
  BY DEF GuideInv, TypeOK
<1>2. ASSUME NEW w \in Loops PROVE task[w].at = "idle"
  <2>1. task[w].job # 0 => task[w].job \in Jobs /\ phase[task[w].job] = "active"
    BY <1>1, TaskFields DEF GuideInv, QueueInv, HoldsItsJob
  <2>2. task[w].job = 0
    BY <2>1 DEF AllJobsEnded
  <2>3. QED
    BY <2>2 DEF GuideInv, QueueInv, HoldsItsJob
<1>3. ~JobPending /\ \A w \in Loops : ~LooksAgain(w)
  BY <1>2 DEF JobPending, AllJobsEnded, LooksAgain
<1>4. QED
  BY <1>3 DEF GuideInv, RepairInv, Danger

(* Whatever calls fail, and whichever pods crash, the check of the HEAD is *)
(* no success over an unresolved thread once the rows are worked off: who  *)
(* reads the threads wrongly, or too early, is followed by somebody who    *)
(* reads them again under the lock.                                        *)
THEOREM SuccessIsEarned ==
  ASSUME OneGuideLoop, ~StatusDuringPublish
  PROVE  Spec => []SuccessMeansResolved
<1>1. GuideInv => SuccessMeansResolved
  <2> SUFFICES ASSUME GuideInv, AllJobsEnded, pull.open, OfHead(pull.head) # {}, Unresolved # {}
               PROVE  checks[LatestOf(pull.head)].conclusion # "success"
    BY DEF SuccessMeansResolved
  <2>1. Published
    BY DEF Unresolved, Published
  <2>2. Newest(LatestOf(pull.head), pull.head) /\ LatestOf(pull.head) \in CheckIds
    BY LatestIsNewest DEF Newest, OfHead
  <2>3. QED
    BY <2>1, <2>2, NothingWrong DEF Wrong
<1>2. QED
  BY <1>1, GuideInvHolds, PTL

(* If no call fails, and no pod crashes before the guide is out, the check *)
(* of the HEAD is completed, and action_required exactly if a thread is    *)
(* unresolved: each reconciler writes what it read under the lock, or      *)
(* finds it written, and who touched a thread has submitted another one.   *)
THEOREM CheckIsRight ==
  ASSUME OneGuideLoop, ~StatusDuringPublish
  PROVE  Spec => []CheckMatchesThreads
<1>1. GuideInv => CheckMatchesThreads
  <2> SUFFICES ASSUME GuideInv, AllJobsEnded, pull.open, Published, InOneGo PROVE Matches
    BY DEF CheckMatchesThreads
  <2>1. PICK c \in CheckIds : Newest(c, pull.head) /\ Right(checks[c])
    BY NothingWrong DEF Wrong
  <2>2. OfHead(pull.head) # {}
    BY <2>1 DEF Newest
  <2>3. LatestOf(pull.head) = c
    BY <2>1, <2>2, LatestIsNewest, NewestIsOne
  <2>4. QED
    BY <2>1, <2>2, <2>3 DEF Matches, Right
<1>2. QED
  BY <1>1, GuideInvHolds, PTL

-----------------------------------------------------------------------------
(***************************************************************************)
(* No request for a review is lost: as long as no guide is out, the last   *)
(* request waits, is at work on the HEAD, or is answered.                  *)
(***************************************************************************)
LastRequest(j) == phase[j] # "none" /\ \A k \in GuideJobs : phase[k] # "none" => k <= j
Cancels(i, h) ==
  /\ row[i].check # 0
  /\ checks[row[i].check].head = h /\ checks[row[i].check].conclusion = "cancelled"
Answered(j) ==
  \/ row[j].target = 0
  \/ row[j].target \in demanded
  \/ \E i \in Answering(j) : Cancels(i, row[j].target)
TargetKnown == {"find", "create"} \cup AtOwnCheck
Remembered(w) ==
  /\ \A j \in GuideJobs : task[w].at = "returned" /\ task[w].job = j => Answered(j)
  /\ task[w].at = "insist" => task[w].head \in demanded
  /\ task[w].at = "target" => row[task[w].job].target = 0
  /\ task[w].at \in TargetKnown => row[task[w].job].target = task[w].head
  /\ task[w].at \in AtOwnCheck \ {"record"} => row[task[w].job].check = task[w].check
AtWorkOnHead(j) ==
  \/ row[j].target = pull.head
  \/ /\ phase[j] = "active"
     /\ \/ task[holder[j]].at \in {"marker", "context"}
        \/ task[holder[j]].at = "target" /\ task[holder[j]].head = pull.head
RowsInOrder ==
  /\ \A j, k \in GuideJobs : j < k /\ phase[k] # "none" => phase[j] # "none"
  /\ \A j \in GuideJobs : phase[j] = "none" => row[j].earlier = {}
  /\ (\E k \in GuideJobs : phase[k] # "none") => \E j \in GuideJobs : LastRequest(j)
AllAnswered ==
  /\ \A j \in GuideJobs : phase[j] = "done" => Answered(j)
  /\ \A w \in Loops : Remembered(w)
  /\ pull.open => \A j \in GuideJobs : LastRequest(j) => phase[j] = "pending" \/ AtWorkOnHead(j)
RequestInv ==
  /\ faults.early <= faults.crashes
  /\ RowsInOrder
  /\ InOneGo /\ ~Published => AllAnswered

(* Who answers for a request answers for those it was under way before.    *)
LEMMA AnsweringItself ==
  ASSUME NEW j \in GuideJobs
  PROVE  j \in Answering(j)
BY DEF Answering

LEMMA AnsweringEarlier ==
  ASSUME NEW j \in GuideJobs, NEW i \in row[j].earlier
  PROVE  Answering(i) \subseteq Answering(j)
BY DEF Answering, WithThoseBefore

LEMMA AnsweringGrows ==
  ASSUME \A k \in GuideJobs : row[k].earlier \subseteq row'[k].earlier, NEW j \in GuideJobs
  PROVE  Answering(j) \subseteq Answering(j)'
<1> SUFFICES ASSUME NEW i \in GuideJobs, i \in Answering(j), NEW S \in SUBSET GuideJobs, j \in S,
                    \A k \in S : row'[k].earlier \subseteq S
             PROVE  i \in S
  BY DEF Answering, WithThoseBefore
<1>1. \A k \in S : row[k].earlier \subseteq S
  OBVIOUS
<1>2. QED
  BY <1>1 DEF Answering, WithThoseBefore

LEMMA AnsweredStays ==
  ASSUME Types, NEW j \in GuideJobs, Answered(j), demanded \subseteq demanded',
         row'[j].target = row[j].target,
         \A k \in GuideJobs : /\ row[k].earlier \subseteq row'[k].earlier
                              /\ row[k].check # 0 => row'[k].check = row[k].check,
         \A c \in CheckIds : checks[c].conclusion = "cancelled" => checks'[c] = checks[c]
  PROVE  Answered(j)'
<1>1. CASE row[j].target = 0 \/ row[j].target \in demanded
  BY <1>1 DEF Answered
<1>2. ASSUME NEW i \in Answering(j), Cancels(i, row[j].target) PROVE Answered(j)'
  <2>1. i \in GuideJobs /\ row[i] \in Row
    BY <1>2 DEF Answering, Types
  <2>2. row[i].check \in CheckIds
    BY <1>2, <2>1 DEF Row, Cancels
  <2>3. row'[i].check = row[i].check /\ checks'[row[i].check] = checks[row[i].check]
    BY <1>2, <2>1, <2>2 DEF Cancels
  <2>4. i \in Answering(j)'
    BY AnsweringGrows
  <2>5. QED
    BY <1>2, <2>3, <2>4 DEF Answered, Cancels
<1>3. QED
  BY <1>1, <1>2 DEF Answered

(* A cancelled check stays cancelled as long as no guide is out.           *)
LEMMA CancelledStays ==
  ASSUME TypeOK, PublicationInv, NEW w \in Loops, StepOf(w), Fresh(w), ~Published,
         NEW c \in CheckIds, checks[c].conclusion = "cancelled"
  PROVE  checks'[c] = checks[c]
<1>1. Types /\ Effect(w)
  BY StepFacts
<1>2. ASSUME NEW d, NEW k, WritesCheck(w, d, k) PROVE d # c
  <2>1. CASE task[w].at = "create"
    <3>1. checks[d].status = "absent"
      BY <1>2, <2>1 DEF WritesCheck, Unused
    <3>2. QED
      BY <3>1 DEF TypeOK
  <2>2. CASE task[w].at \in AtOwnCheck
    BY <1>2, <2>2 DEF WritesCheck, Fresh, OwnCheck, AtOwnCheck
  <2>3. task[w].at \notin {"write", "join", "abort"}
    BY DEF PublicationInv, Stands, Fresh, InLock
  <2>4. QED
    BY <1>2, <2>1, <2>2, <2>3 DEF WritesCheck, AtOwnCheck
<1>3. ASSUME NEW d, NEW k, WritesCheck(w, d, k) PROVE checks'[c] = checks[c]
  BY <1>1, <1>2, <1>3 DEF WritesCheck, Types
<1>4. QED
  BY <1>1, <1>3, ChecksWritten

(* A review before its guide is out: what its row remembers, and what it   *)
(* returns to.                                                             *)
LEMMA ContextGoes ==
  ASSUME Types, NEW w \in Loops, Handler(w), task[w].at = "context", pull.open
  PROVE  task'[w].at = "target"
<1>1. Context(w)
  BY ActionAt DEF StandsAt
<1>2. PICK plan : Move(w, [task[w] EXCEPT !.at = "target", !.head = pull.head, !.plan = plan])
  BY <1>1 DEF Context
<1>3. task'[w] = [task[w] EXCEPT !.at = "target", !.head = pull.head, !.plan = plan]
  BY <1>2, LocalOfMove
<1>4. QED
  BY <1>3, TaskFields DEF Task

LEMMA TargetGoes ==
  ASSUME Types, NEW w \in Loops, Handler(w), task[w].at = "target", task[w].job \in GuideJobs
  PROVE  row'[task[w].job].target = task[w].head
<1>1. row' = [row EXCEPT ![task[w].job].target = task[w].head]
  BY ActionAt DEF Target, RecordsTarget, StandsAt
<1>2. row[task[w].job] \in Row
  BY DEF Types
<1>3. row'[task[w].job] = [row[task[w].job] EXCEPT !.target = task[w].head]
  BY <1>1 DEF Types
<1>4. QED
  BY <1>2, <1>3 DEF Row

LEMMA RecordGoes ==
  ASSUME Types, NEW w \in Loops, Handler(w), task[w].at = "record", task[w].job \in GuideJobs
  PROVE  row'[task[w].job].check = task[w].check
<1>1. row' = [row EXCEPT ![task[w].job].check = task[w].check]
  BY ActionAt DEF Record, RecordsCheck, StandsAt
<1>2. row[task[w].job] \in Row
  BY DEF Types
<1>3. row'[task[w].job] = [row[task[w].job] EXCEPT !.check = task[w].check]
  BY <1>1 DEF Types
<1>4. QED
  BY <1>2, <1>3 DEF Row

LEMMA RowsStay ==
  ASSUME TypeOK, HeadInv, NEW w \in Loops, StepOf(w), Fresh(w), QueueInv, NEW k \in GuideJobs
  PROVE  /\ row'[k].earlier = row[k].earlier
         /\ row[k].check # 0 => row'[k].check = row[k].check
         /\ k # task[w].job \/ task[w].at # "target" => row'[k].target = row[k].target
BY StepFacts, RowChanges DEF Fresh

(* Where a review returns before a guide is out.                           *)
LEMMA ReturnAnswered ==
  ASSUME TypeOK, HeadsKnown, QueueInv, HeadInv, PublicationInv, OneGuideLoop, FreshRows,
         AllAnswered, NEW w \in Loops, StepOf(w), Handler(w), Fresh(w), ~Published,
         ~Published', task'[w].at = "returned", NEW j \in GuideJobs, j = task[w].job
  PROVE  Answered(j)'
<1>1. /\ Types /\ Local(w) /\ Effect(w) /\ task[w].at \in Places /\ Remembered(w)
      /\ row \in [GuideJobs -> Row]
  BY StepFacts, TaskFields DEF AllAnswered, Types
<1>2. task[w].at \in {"context", "find", "insist", "cancel"}
  <2>1. task[w].at \in {"context", "find", "join", "closed", "conclude", "insist", "cancel",
                        "ignore", "leave"}
    BY <1>1 DEF Local, Changes, Edge, Places, BeforeTry, InTry, InLock
  <2>2. task[w].at \notin {"join", "closed", "ignore", "leave"}
    BY DEF Fresh, PublicationInv, Stands, InLock
  <2>3. task[w].at # "conclude"
    BY DEF PublicationInv, Stands, Published
  <2>4. QED
    BY <2>1, <2>2, <2>3
<1>3. \A k \in GuideJobs : /\ row'[k].earlier = row[k].earlier
                           /\ row[k].check # 0 => row'[k].check = row[k].check
                           /\ row'[k].target = row[k].target
  BY <1>2, RowsStay
<1>4. \A c \in CheckIds : checks[c].conclusion = "cancelled" => checks'[c] = checks[c]
  BY CancelledStays
<1>5. demanded' = demanded
  BY <1>1, <1>2, EffectKeeps
<1>6. CASE task[w].at = "context"
  BY <1>3, <1>6 DEF Fresh, Answered
<1>7. CASE task[w].at = "insist"
  BY <1>1, <1>3, <1>5, <1>7 DEF Remembered, TargetKnown, AtOwnCheck, Answered
<1>8. CASE task[w].at = "find"
  <2>1. PICK i \in GuideJobs : /\ i \in row[j].earlier /\ phase[i] = "done"
                              /\ row[i].target = task[w].head
    BY <1>1, <1>8, FindStep DEF Fresh
  <2>2. row[i].target = row[j].target /\ Answered(i)
    BY <1>1, <1>8, <2>1 DEF Remembered, TargetKnown, AllAnswered
  <2>3. Answered(j)
    BY <2>1, <2>2, AnsweringEarlier DEF Answered
  <2>4. QED
    BY <1>1, <1>3, <1>4, <1>5, <2>3, AnsweredStays
<1>9. CASE task[w].at = "cancel"
  <2>1. OwnCheck(w) /\ row[j].check = task[w].check /\ row[j].target = task[w].head
    BY <1>1, <1>9 DEF Fresh, AtOwnCheck, Remembered, TargetKnown
  <2>2. PICK c \in CheckIds : c = task[w].check /\ checks[c].head = task[w].head
    BY <1>1, <2>1, TaskFields DEF OwnCheck
  <2>3. checks' = [checks EXCEPT ![c] = Report(checks[c].head, Outcome(w), <<"guide", 0, 0>>)]
    BY <1>9, <2>2, ActionAt DEF Conclude, Concludes, Updates, StandsAt, CheckIds
  <2>4. checks'[c].head = task[w].head /\ checks'[c].conclusion = "cancelled"
    BY <1>1, <1>9, <2>2, <2>3, OutcomeSays DEF Report, Types
  <2>5. c # 0 /\ row'[j].check = c /\ row'[j].target = task[w].head
    BY <1>3, <2>1, <2>2 DEF CheckIds
  <2>6. Cancels(j, row[j].target)'
    BY <2>4, <2>5 DEF Cancels
  <2>7. (j \in Answering(j))'
    BY DEF Answering
  <2>8. QED
    BY <2>6, <2>7 DEF Answered
<1>10. QED
  BY <1>2, <1>6, <1>7, <1>8, <1>9

LEMMA StepRemembers ==
  ASSUME TypeOK, HeadsKnown, QueueInv, HeadInv, PublicationInv, OneGuideLoop, FreshRows,
         AllAnswered, NEW w \in Loops, StepOf(w), Handler(w), Fresh(w), ~Published, ~Published'
  PROVE  Remembered(w)'
<1>1. /\ Types /\ Local(w) /\ Effect(w) /\ task'[w].job = task[w].job /\ Remembered(w)
      /\ task[w].at \in Places
  BY StepFacts, TaskFields DEF AllAnswered
<1>2. ASSUME NEW j \in GuideJobs, task'[w].at = "returned", task'[w].job = j PROVE Answered(j)'
  BY <1>1, <1>2, ReturnAnswered
<1>3. ASSUME task'[w].at = "insist" PROVE task'[w].head \in demanded'
  <2>1. task[w].at = "demand" /\ task'[w].head = task[w].head
    BY <1>1, <1>3 DEF Local, Changes, Edge, Places, BeforeTry, InTry, InLock
  <2>2. QED
    BY <2>1, ActionAt DEF Demand, Demands, StandsAt
<1>4. ASSUME task'[w].at = "target" PROVE row'[task'[w].job].target = 0
  <2>1. task[w].at = "context"
    BY <1>1, <1>4 DEF Local, Changes, Edge, Places, BeforeTry, InTry, InLock
  <2>2. QED
    BY <1>1, <2>1, EffectKeeps DEF Fresh
<1>5. ASSUME task'[w].at \in TargetKnown
      PROVE  /\ row'[task'[w].job].target = task'[w].head
             /\ task'[w].at \in AtOwnCheck \ {"record"} => row'[task'[w].job].check = task'[w].check
  <2>1. task[w].at \in {"target"} \cup TargetKnown /\ task[w].at \in GuidePlaces
    BY <1>1, <1>5 DEF Local, Changes, Edge, Places, BeforeTry, InTry, InLock, TargetKnown, AtOwnCheck,
       Fresh, GuidePlaces, BeforeGuide
  <2>2. task[w].job \in GuideJobs /\ task'[w].head = task[w].head
    BY <1>1, <2>1, GuideLane DEF Local, Changes, TargetKnown, AtOwnCheck
  <2>3. row'[task[w].job].target = task[w].head
    <3>1. CASE task[w].at = "target"
      BY <1>1, <2>2, <3>1, TargetGoes
    <3>2. CASE task[w].at \in TargetKnown
      BY <1>1, <2>2, <3>2, RowsStay DEF Remembered, TargetKnown, AtOwnCheck
    <3>3. QED
      BY <2>1, <3>1, <3>2
  <2>4. ASSUME task'[w].at \in AtOwnCheck \ {"record"} PROVE row'[task[w].job].check = task'[w].check
    <3>1. task[w].at \in AtOwnCheck
      <4>1. task[w].at = "target" => task'[w].at = "find"
        BY <1>1, <2>4 DEF Local, Changes, Edge, AtOwnCheck
      <4>2. task[w].at = "create" => task'[w].at = "record"
        BY CreateStep
      <4>3. task[w].at = "find" => task'[w].at \in {"create", "returned"}
        BY FindStep DEF Fresh
      <4>4. QED
        BY <2>1, <2>4, <4>1, <4>2, <4>3 DEF TargetKnown, AtOwnCheck
    <3>2. task'[w].check = task[w].check
      BY <1>1, <3>1 DEF Local, Changes, AtOwnCheck
    <3>3. CASE task[w].at = "record"
      BY <1>1, <2>2, <3>2, <3>3, RecordGoes
    <3>4. CASE task[w].at # "record"
      BY <1>1, <2>2, <3>1, <3>2, <3>4, RowChanges DEF Remembered
    <3>5. QED
      BY <3>3, <3>4
  <2>5. QED
    BY <1>1, <2>2, <2>3, <2>4
<1>6. QED
  BY <1>2, <1>3, <1>4, <1>5 DEF Remembered, TargetKnown

LEMMA StepRequest ==
  ASSUME TypeOK, HeadsKnown, QueueInv, HeadInv, PublicationInv, OwnCheckInv, RequestInv,
         OneGuideLoop, NEW w \in Loops, StepOf(w), Published => Published'
  PROVE  RequestInv'
<1>1. /\ Types /\ Local(w) /\ Others(w) /\ Effect(w) /\ UNCHANGED <<phase, holder, pull>>
      /\ task[w].at \notin {"idle", "returned", "threw"} /\ task'[w].job = task[w].job
  BY StepFacts
<1>2. faults'.early <= faults'.crashes
  BY <1>1, StepFaults DEF RequestInv, Types
<1>3. RowsInOrder'
  BY <1>1, RowChanges DEF RequestInv, RowsInOrder, LastRequest
<1>4. ASSUME InOneGo', ~Published' PROVE AllAnswered'
  <2>1. InOneGo /\ Handler(w) /\ ~Published /\ AllAnswered /\ FreshRows /\ Fresh(w)
    BY <1>1, <1>4, StepFaults DEF RequestInv, OwnCheckInv
  <2>2. \A k \in GuideJobs : /\ row'[k].earlier = row[k].earlier
                             /\ row[k].check # 0 => row'[k].check = row[k].check
                             /\ k # task[w].job \/ task[w].at # "target" => row'[k].target = row[k].target
    BY <2>1, RowsStay
  <2>3. \A c \in CheckIds : checks[c].conclusion = "cancelled" => checks'[c] = checks[c]
    BY <2>1, CancelledStays
  <2>4. ASSUME NEW j \in GuideJobs, phase[j] = "done" PROVE Answered(j)'
    <3>1. j # task[w].job
      BY <1>1, <2>4 DEF QueueInv, HoldsItsJob
    <3>2. demanded \subseteq demanded'
      <4>1. task[w].at = "demand" => demanded' = demanded \cup {task[w].head}
        BY <2>1, ActionAt DEF Demand, Demands, StandsAt
      <4>2. QED
        BY <1>1, <4>1, EffectKeeps
    <3>3. Answered(j)
      BY <2>1, <2>4 DEF AllAnswered
    <3>4. QED
      BY <1>1, <2>2, <2>3, <3>1, <3>2, <3>3, AnsweredStays
  <2>5. ASSUME NEW v \in Loops PROVE Remembered(v)'
    <3>1. CASE v = w
      BY <1>4, <2>1, <3>1, StepRemembers
    <3>2. CASE v # w
      <4>1. task'[v].at = "idle"
        BY <1>1, <2>1, <3>2, GuideAlone DEF Others
      <4>2. QED
        BY <4>1 DEF Remembered, TargetKnown, AtOwnCheck
    <3>3. QED
      BY <3>1, <3>2
  <2>6. ASSUME pull.open, NEW j \in GuideJobs, LastRequest(j), phase[j] # "pending"
        PROVE  AtWorkOnHead(j)'
    <3>1. AtWorkOnHead(j)
      BY <2>1, <2>6 DEF AllAnswered
    <3>2. CASE row[j].target = pull.head /\ (j # task[w].job \/ task[w].at # "target")
      BY <1>1, <2>2, <3>2 DEF AtWorkOnHead
    <3>3. CASE j = task[w].job /\ task[w].at = "target"
      <4>1. holder[j] = w /\ task[w].job # 0
        BY <1>1, <3>3 DEF QueueInv, HoldsItsJob
      <4>2. row[j].target = 0 /\ pull.head # 0
        BY <1>1, <2>1, <3>3 DEF AllAnswered, Remembered, Types, Heads
      <4>3. task[w].head = pull.head
        BY <3>1, <3>3, <4>1, <4>2 DEF AtWorkOnHead
      <4>4. row'[j].target = pull.head
        BY <1>1, <2>1, <3>3, <4>3, TargetGoes
      <4>5. QED
        BY <1>1, <4>4 DEF AtWorkOnHead
    <3>4. CASE row[j].target # pull.head /\ ~(j = task[w].job /\ task[w].at = "target")
      <4>1. phase[j] = "active" /\ \/ task[holder[j]].at \in {"marker", "context"}
                                   \/ task[holder[j]].at = "target" /\ task[holder[j]].head = pull.head
        BY <3>1, <3>4 DEF AtWorkOnHead
      <4>2. holder[j] \in Loops /\ task[holder[j]].job = j /\ task[holder[j]].at # "idle"
        BY <4>1 DEF QueueInv, Jobs
      <4>3. holder[j] = w
        BY <1>1, <2>1, <4>2, GuideAlone
      <4>4. task[w].at \in {"marker", "context"}
        BY <3>4, <4>1, <4>2, <4>3
      <4>5. task[w].at = "marker" => task'[w].at = "context"
        <5>1. task[w].at = "marker" => task'[w].at \in {"turn", "context", "threw"}
          BY <1>1 DEF Local, Changes, Edge
        <5>2. task[w].at = "marker" => task'[w].at \notin {"turn", "threw"}
          BY <1>1, <2>1, MarkerStep, HandlerGoes
        <5>3. QED
          BY <5>1, <5>2
      <4>6. task[w].at = "context" => task'[w].at = "target" /\ task'[w].head = pull.head
        <5>1. task[w].at = "context" => task'[w].at = "target"
          BY <1>1, <2>1, <2>6, ContextGoes
        <5>2. QED
          BY <1>1, <5>1 DEF Local, Changes
      <4>7. QED
        BY <1>1, <4>1, <4>3, <4>4, <4>5, <4>6 DEF AtWorkOnHead
    <3>5. QED
      BY <3>2, <3>3, <3>4
  <2>7. QED
    BY <1>1, <2>4, <2>5, <2>6 DEF AllAnswered, LastRequest
<1>5. QED
  BY <1>2, <1>3, <1>4 DEF RequestInv

LEMMA OtherPhases ==
  ASSUME TypeOK, QueueInv, OtherStep
  PROVE  \/ /\ \A j \in GuideJobs : phase'[j] = "none" <=> phase[j] = "none"
            /\ pull'.open => pull.open /\ pull'.head = pull.head
         \/ \E k \in GuideJobs : /\ phase[k] = "none" /\ phase'[k] = "pending"
                                 /\ \A i \in GuideJobs : i < k => phase[i] # "none"
                                 /\ \A i \in GuideJobs : i # k => phase'[i] = phase[i]
<1>1. Types /\ \A j \in GuideJobs : j \in Jobs /\ j \notin StatusJobs
  BY JobNumbers DEF TypeOK, Jobs
<1>2. ASSUME NEW w \in Loops, NEW k \in Jobs, Lease(w, k)
      PROVE  (\A j \in GuideJobs : phase'[j] = "none" <=> phase[j] = "none") /\ UNCHANGED pull
  BY <1>1, <1>2 DEF Lease, Queue!Take, Types, github
<1>3. ASSUME NEW w \in Loops, Settle(w)
      PROVE  (\A j \in GuideJobs : phase'[j] = "none" <=> phase[j] = "none") /\ UNCHANGED pull
  <2>1. phase[task[w].job] = "active" /\ UNCHANGED pull
    BY <1>3, SettleQueue, JobsAreNumbers DEF QueueInv, HoldsItsJob, Settle, github
  <2>2. QED
    BY <1>1, <1>3, <2>1, SettleQueue
<1>4. ASSUME NEW p, Crash(p)
      PROVE  (\A j \in GuideJobs : phase'[j] = "none" <=> phase[j] = "none") /\ UNCHANGED pull
  BY <1>1, <1>4, CrashQueue DEF Crash, github
<1>5. ASSUME NEW k \in GuideJobs, Submit(k), \A i \in GuideJobs : i < k => phase[i] # "none"
      PROVE  /\ phase[k] = "none" /\ phase'[k] = "pending"
             /\ \A i \in GuideJobs : i < k => phase[i] # "none"
             /\ \A i \in GuideJobs : i # k => phase'[i] = phase[i]
  BY <1>1, <1>5 DEF Submit, Queue!Submit, Types
<1>6. ASSUME NEW s \in StatusJobs, Submit(s)
      PROVE  \A j \in GuideJobs : phase'[j] = "none" <=> phase[j] = "none"
  BY <1>1, <1>6 DEF Submit, Queue!Submit, Types
<1>7. ASSUME Environment, ~ \E k \in GuideJobs : Submit(k)
      PROVE  /\ \A j \in GuideJobs : phase'[j] = "none" <=> phase[j] = "none"
             /\ pull'.open => pull.open /\ pull'.head = pull.head
  <2>1. ~Push /\ ~Reopen
    BY <1>7 DEF Push, Reopen, Later
  <2>2. pull'.open => pull.open /\ pull'.head = pull.head
    BY <1>1, <1>7, <2>1, EventsOnPull DEF Types, PullType
  <2>3. UNCHANGED queueVars \/ \E s \in StatusJobs : Submit(s)
    BY <1>7, EventsSubmit
  <2>4. QED
    BY <1>6, <2>2, <2>3 DEF queueVars
<1>8. CASE UNCHANGED vars
  BY <1>8 DEF vars, queueVars
<1>9. ASSUME Environment, NEW k \in GuideJobs, Submit(k)
      PROVE  \A i \in GuideJobs : i < k => phase[i] # "none"
  <2>1. PICK m \in Jobs : Submit(m) /\ (m \in GuideJobs => \A i \in GuideJobs : i < m => phase[i] # "none")
    <3>1. CASE UNCHANGED <<queueVars, row>>
      BY <1>1, <1>9, <3>1 DEF queueVars, Submit, Queue!Submit, Types
    <3>2. ASSUME NEW m \in GuideJobs, Submit(m), \A i \in GuideJobs : i < m => phase[i] # "none"
          PROVE  \E n \in Jobs : Submit(n) /\ (n \in GuideJobs => \A i \in GuideJobs : i < n => phase[i] # "none")
      BY <1>1, <3>2
    <3>3. ASSUME NEW m \in StatusJobs, Submit(m)
          PROVE  \E n \in Jobs : Submit(n) /\ (n \in GuideJobs => \A i \in GuideJobs : i < n => phase[i] # "none")
      BY <1>1, <3>3 DEF Jobs
    <3>4. QED
      BY <1>9, <3>1, <3>2, <3>3, EventsSubmit
  <2>2. m = k
    BY <1>1, <1>9, <2>1 DEF Submit, Queue!Submit, Types
  <2>3. QED
    BY <2>1, <2>2
<1>10. QED
  BY <1>2, <1>3, <1>4, <1>5, <1>7, <1>8, <1>9 DEF OtherStep

LEMMA OtherOrder ==
  ASSUME TypeOK, QueueInv, RowsInOrder, OtherStep
  PROVE  /\ RowsInOrder'
         /\ \A k \in GuideJobs : row[k].earlier \subseteq row'[k].earlier
         /\ \A j \in GuideJobs : LastRequest(j)' =>
              phase'[j] = "pending"
              \/ (LastRequest(j) /\ (pull'.open => pull.open /\ pull'.head = pull.head))
<1>1. Types /\ \A j \in GuideJobs : j \in Nat
  BY JobNumbers DEF TypeOK
<1>2. \A k \in GuideJobs : row[k].earlier \subseteq row'[k].earlier
  BY OtherRows DEF RowsInOrder
<1>3. \A j \in GuideJobs : phase'[j] = "none" => phase[j] = "none" /\ row'[j].earlier = {}
  <2>1. \A j \in GuideJobs : phase'[j] = "none" => phase[j] = "none"
    BY OtherPhases
  <2>2. QED
    BY <2>1, OtherRows DEF RowsInOrder
<1>4. CASE /\ \A j \in GuideJobs : phase'[j] = "none" <=> phase[j] = "none"
           /\ pull'.open => pull.open /\ pull'.head = pull.head
  <2>1. \A j \in GuideJobs : LastRequest(j)' <=> LastRequest(j)
    BY <1>4 DEF LastRequest
  <2>2. QED
    BY <1>2, <1>3, <1>4, <2>1 DEF RowsInOrder
<1>5. ASSUME NEW k \in GuideJobs, phase[k] = "none", phase'[k] = "pending",
             \A i \in GuideJobs : i < k => phase[i] # "none",
             \A i \in GuideJobs : i # k => phase'[i] = phase[i]
      PROVE  /\ RowsInOrder'
             /\ \A j \in GuideJobs : LastRequest(j)' => phase'[j] = "pending"
  <2>1. ASSUME NEW m \in GuideJobs, phase[m] # "none" PROVE m < k
    <3>1. ~(k < m) /\ m # k
      BY <1>5, <2>1 DEF RowsInOrder
    <3>2. QED
      BY <1>1, <3>1
  <2>2. LastRequest(k)'
    BY <1>1, <1>5, <2>1 DEF LastRequest
  <2>3. \A j \in GuideJobs : LastRequest(j)' => j = k
    BY <1>1, <2>2 DEF LastRequest
  <2>4. \A j, m \in GuideJobs : j < m /\ phase'[m] # "none" => phase'[j] # "none"
    BY <1>1, <1>5, <2>1
  <2>5. QED
    BY <1>3, <1>5, <2>2, <2>3, <2>4 DEF RowsInOrder
<1>6. QED
  BY <1>2, <1>4, <1>5, OtherPhases

LEMMA ActiveStays ==
  ASSUME TypeOK, QueueInv, OtherStep, ~ \E p : Crash(p), NEW j \in Jobs, phase[j] = "active",
         task[holder[j]].at \notin {"returned", "threw"}
  PROVE  phase'[j] = "active" /\ holder'[j] = holder[j] /\ task'[holder[j]] = task[holder[j]]
<1>1. Types /\ holder[j] \in Loops /\ task[holder[j]].job = j /\ j # 0
  BY JobsAreNumbers DEF TypeOK, QueueInv
<1>2. task[holder[j]].at # "idle"
  BY <1>1 DEF QueueInv, HoldsItsJob
<1>3. ASSUME NEW w \in Loops, NEW k \in Jobs, Lease(w, k)
      PROVE  phase'[j] = "active" /\ holder'[j] = holder[j] /\ task'[holder[j]] = task[holder[j]]
  <2>1. w # holder[j] /\ k # j
    BY <1>2, <1>3 DEF Lease, StandsAt, Queue!Take
  <2>2. QED
    BY ZenonT(30), <1>1, <1>3, <2>1, LeaseMoves DEF Moved, Others, Lease, Queue!Take, Types
<1>4. ASSUME NEW w \in Loops, Settle(w)
      PROVE  phase'[j] = "active" /\ holder'[j] = holder[j] /\ task'[holder[j]] = task[holder[j]]
  <2>1. w # holder[j]
    BY <1>4 DEF Settle
  <2>2. task[w].job # j
    <3>1. holder[task[w].job] = w
      BY <1>4, SettleQueue, JobsAreNumbers DEF QueueInv, HoldsItsJob
    <3>2. QED
      BY <2>1, <3>1
  <2>3. holder'[j] = holder[j]
    BY <1>4, <2>2 DEF Settle, Queue!Release
  <2>4. QED
    BY <1>1, <1>4, <2>1, <2>2, <2>3, SettleQueue, SettleMoves DEF Moved, Others
<1>5. CASE Environment
  <2>1. UNCHANGED holder
    BY <1>5, EventsSubmit DEF queueVars, Submit, Queue!Submit
  <2>2. QED
    BY <1>5, <2>1, EventQueue, EventsLeave
<1>6. QED
  BY <1>3, <1>4, <1>5 DEF OtherStep, vars, queueVars

LEMMA OtherRequest ==
  ASSUME TypeOK, QueueInv, PublicationInv, OwnCheckInv, RequestInv, OtherStep
  PROVE  RequestInv'
<1>1. Types
  BY DEF TypeOK
<1>2. faults'.early <= faults'.crashes
  <2>1. ASSUME NEW p, Crash(p) PROVE faults'.early <= faults'.crashes
    <3>1. faults' = [faults EXCEPT !.crashes = @ + 1,
                                   !.early = IF Published THEN @ ELSE @ + 1]
      BY <2>1 DEF Crash
    <3>2. faults'.crashes = faults.crashes + 1 /\ faults'.early \in {faults.early, faults.early + 1}
      BY <1>1, <3>1 DEF Types
    <3>3. QED
      BY <1>1, <3>2 DEF RequestInv, Types
  <2>2. UNCHANGED faults \/ \E p : Crash(p)
    BY EventsLeave DEF OtherStep, Lease, Settle, vars
  <2>3. QED
    BY <2>1, <2>2 DEF RequestInv
<1>3. /\ RowsInOrder'
      /\ \A k \in GuideJobs : row[k].earlier \subseteq row'[k].earlier
      /\ \A j \in GuideJobs : LastRequest(j)' =>
           phase'[j] = "pending"
           \/ (LastRequest(j) /\ (pull'.open => pull.open /\ pull'.head = pull.head))
  BY OtherOrder DEF RequestInv
<1>4. ASSUME InOneGo', ~Published' PROVE AllAnswered'
  <2>1. /\ InOneGo /\ ~Published /\ UNCHANGED <<checks, demanded>>
        /\ \A w \in Loops : task'[w] = task[w] \/ task'[w].at \in {"idle", "marker", "ignore"}
    BY <1>4, OtherKeeps, OtherPublished
  <2>2. AllAnswered /\ \A w \in Loops : Fresh(w)
    BY <2>1 DEF RequestInv, OwnCheckInv
  <2>3. ~ \E p : Crash(p)
    <3>1. ASSUME NEW p, Crash(p) PROVE faults'.early = faults.early + 1
      BY <1>1, <2>1, <3>1 DEF Crash, Types
    <3>2. QED
      BY <1>1, <1>4, <2>1, <3>1 DEF InOneGo, Types
  <2>4. ASSUME NEW j \in GuideJobs, Answered(j) PROVE Answered(j)'
    <3>1. /\ row'[j].target = row[j].target
          /\ \A k \in GuideJobs : row[k].check # 0 => row'[k].check = row[k].check
      BY OtherRows
    <3>2. QED
      BY <1>1, <1>3, <2>1, <2>4, <3>1, AnsweredStays
  <2>5. ASSUME NEW j \in GuideJobs, phase'[j] = "done" PROVE Answered(j)'
    <3>1. CASE phase[j] = "done"
      BY <2>2, <2>4, <3>1 DEF AllAnswered
    <3>2. CASE phase[j] # "done"
      <4>1. PICK w \in Loops : Settle(w) /\ j = task[w].job
        <5>1. j \in Jobs
          BY DEF Jobs
        <5>2. ASSUME NEW w \in Loops, NEW k \in Jobs, Lease(w, k) PROVE FALSE
          BY <1>1, <2>5, <3>2, <5>1, <5>2 DEF Lease, Queue!Take, Types
        <5>3. ASSUME NEW w \in Loops, Settle(w), j # task[w].job PROVE FALSE
          BY <2>5, <3>2, <5>1, <5>3, SettleQueue
        <5>4. Environment => FALSE
          BY <2>5, <3>2, <5>1, EventQueue
        <5>5. UNCHANGED vars => FALSE
          BY <2>5, <3>2 DEF vars, queueVars
        <5>6. QED
          BY <2>3, <5>2, <5>3, <5>4, <5>5 DEF OtherStep
      <4>2. task[w].at = "returned"
        BY <2>1, <2>2, <4>1 DEF Fresh, Settle
      <4>3. Answered(j)
        BY <2>2, <4>1, <4>2 DEF AllAnswered, Remembered
      <4>4. QED
        BY <2>4, <4>3
    <3>3. QED
      BY <3>1, <3>2
  <2>6. ASSUME NEW w \in Loops PROVE Remembered(w)'
    <3>1. CASE task'[w].at \in {"idle", "marker", "ignore"}
      BY <3>1 DEF Remembered, TargetKnown, AtOwnCheck
    <3>2. CASE task'[w] = task[w]
      <4>1. task[w].at \in {"target"} \cup TargetKnown => task[w].job \in GuideJobs
        BY <1>1, GuideLane DEF TargetKnown, AtOwnCheck, GuidePlaces, BeforeGuide
      <4>2. task[w].job \in GuideJobs => row'[task[w].job].target = row[task[w].job].target
                                         /\ row'[task[w].job].check = row[task[w].job].check
        BY OtherRows
      <4>3. Remembered(w)
        BY <2>2 DEF AllAnswered
      <4>4. QED
        BY <2>1, <2>4, <3>2, <4>1, <4>2, <4>3 DEF Remembered, TargetKnown
    <3>3. QED
      BY <2>1, <3>1, <3>2
  <2>7. ASSUME pull'.open, NEW j \in GuideJobs, LastRequest(j)', phase'[j] # "pending"
        PROVE  AtWorkOnHead(j)'
    <3>1. LastRequest(j) /\ pull.open /\ pull'.head = pull.head /\ j \in Jobs
      BY <1>3, <2>7 DEF Jobs
    <3>2. CASE phase[j] = "pending"
      <4>1. PICK w \in Loops : Lease(w, j)
        BY <2>7, <3>1, <3>2, PendingStays
      <4>2. phase'[j] = "active" /\ holder'[j] = w
        BY <1>1, <3>1, <4>1 DEF Lease, Queue!Take, Types
      <4>3. task'[w].at = "marker"
        BY <1>1, <3>1, <4>1, LeaseMoves
      <4>4. QED
        BY <4>2, <4>3 DEF AtWorkOnHead
    <3>3. CASE row[j].target = pull.head
      BY <3>1, <3>3, OtherRows DEF AtWorkOnHead
    <3>4. CASE phase[j] # "pending" /\ row[j].target # pull.head
      <4>1. phase[j] = "active" /\ \/ task[holder[j]].at \in {"marker", "context"}
                                   \/ task[holder[j]].at = "target" /\ task[holder[j]].head = pull.head
        BY <2>2, <3>1, <3>4 DEF AllAnswered, AtWorkOnHead
      <4>2. phase'[j] = "active" /\ holder'[j] = holder[j] /\ task'[holder[j]] = task[holder[j]]
        BY <2>3, <3>1, <4>1, ActiveStays
      <4>3. QED
        BY <3>1, <4>1, <4>2 DEF AtWorkOnHead
    <3>5. QED
      BY <3>2, <3>3, <3>4
  <2>8. QED
    BY <2>5, <2>6, <2>7 DEF AllAnswered
<1>5. QED
  BY <1>2, <1>3, <1>4 DEF RequestInv

LEMMA InitRequest == Init => RequestInv
<1> SUFFICES ASSUME Init PROVE RequestInv
  OBVIOUS
<1>1. /\ \A j \in GuideJobs : phase[j] = "none" /\ row[j].earlier = {}
      /\ \A w \in Loops : task[w].at = "idle"
      /\ faults.early = 0 /\ faults.crashes = 0
  BY DEF Init, Queue!Init, Jobs, NewRow, Idle
<1>2. QED
  BY <1>1 DEF RequestInv, RowsInOrder, AllAnswered, LastRequest, Remembered, TargetKnown, AtOwnCheck

LEMMA RequestInvHolds ==
  ASSUME OneGuideLoop, ~StatusDuringPublish
  PROVE  Spec => []RequestInv
<1>1. RequestInv /\ GuideInv /\ [Next]_vars => RequestInv'
  <2> SUFFICES ASSUME RequestInv, GuideInv, [Next]_vars PROVE RequestInv'
    OBVIOUS
  <2>1. ASSUME NEW w \in Loops, StepOf(w) PROVE RequestInv'
    <3>1. Published => Published'
      BY <2>1, StepPosting, StepAfter DEF GuideInv
    <3>2. QED
      BY <2>1, <3>1, StepRequest DEF GuideInv
  <2>2. OtherStep => RequestInv'
    BY OtherRequest DEF GuideInv
  <2>3. QED
    BY <2>1, <2>2, StepOrOther
<1>2. QED
  BY <1>1, InitRequest, GuideInvHolds, PTL DEF Spec

(* Once the rows are worked off, and no pod crashed and no call failed, an *)
(* open pull request has its guide, its HEAD was told of a conflict, or    *)
(* the last request is answered by a cancelled check of the HEAD. A review *)
(* that finds an older one of its HEAD returns; what it then leaves to the *)
(* older one, that one has answered.                                       *)
THEOREM GuideIsKept ==
  ASSUME OneGuideLoop, ~StatusDuringPublish
  PROVE  Spec => []GuideIsNotLost
<1>1. GuideInv /\ RequestInv => GuideIsNotLost
  <2> SUFFICES ASSUME GuideInv, RequestInv, AllJobsEnded, pull.open,
                      faults.crashes + faults.errors = 0, \E j \in GuideJobs : phase[j] = "done",
                      ~Published
               PROVE  pull.head \in demanded \/ CancelledByOneOf(Answering(LastJob))
    BY DEF GuideIsNotLost
  <2>1. Types /\ \A j \in GuideJobs : j \in Nat
    BY JobNumbers DEF GuideInv, TypeOK
  <2>2. InOneGo
    BY <2>1 DEF RequestInv, InOneGo, Types
  <2>3. AllAnswered
    BY <2>2 DEF RequestInv
  <2>4. \E j \in GuideJobs : LastRequest(j)
    BY DEF RequestInv, RowsInOrder
  <2>5. LastJob \in GuideJobs /\ LastRequest(LastJob)
    BY <2>4 DEF LastJob, LastRequest
  <2>6. PICK j \in GuideJobs : j = LastJob /\ LastRequest(j)
    BY <2>5
  <2>7. phase[j] = "done"
    BY <2>6 DEF LastRequest, AllJobsEnded, Jobs
  <2>8. row[j].target = pull.head /\ Answered(j) /\ pull.head # 0
    BY <2>1, <2>3, <2>6, <2>7 DEF AllAnswered, AtWorkOnHead, Types, Heads
  <2>9. CASE row[j].target \in demanded
    BY <2>8, <2>9
  <2>10. ASSUME NEW i \in Answering(j), Cancels(i, row[j].target)
         PROVE  CancelledByOneOf(Answering(LastJob))
    BY <2>6, <2>8, <2>10 DEF CancelledByOneOf, Cancels
  <2>11. QED
    BY <2>8, <2>9, <2>10 DEF Answered
<1>2. QED
  BY <1>1, GuideInvHolds, RequestInvHolds, PTL
=============================================================================
