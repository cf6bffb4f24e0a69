---------------------------- MODULE DurableJobs ----------------------------
(***************************************************************************)
(* What the durable queue promises to the rest of the bot, with no rows,   *)
(* leases, attempts or pods: a submitted job waits until one worker takes  *)
(* it, is held by at most one worker at a time, may be given back any      *)
(* number of times, and is never taken again once it is done.              *)
(***************************************************************************)
CONSTANTS
  Jobs,      \* identities of the jobs that may ever be submitted
  Workers,   \* the loops that may take them
  NoWorker   \* holder of a job nobody is working on, not one of Workers

VARIABLES
  phase,     \* [Jobs -> {"none", "pending", "active", "done"}]
  holder     \* [Jobs -> Workers \cup {NoWorker}]

jobVars == <<phase, holder>>

Init ==
  /\ phase = [j \in Jobs |-> "none"]
  /\ holder = [j \in Jobs |-> NoWorker]

Submit(j) ==
  /\ phase[j] = "none"
  /\ phase' = [phase EXCEPT ![j] = "pending"]
  /\ UNCHANGED holder

Take(j, w) ==
  /\ phase[j] = "pending"
  /\ phase' = [phase EXCEPT ![j] = "active"]
  /\ holder' = [holder EXCEPT ![j] = w]

(***************************************************************************)
(* A job leaves its holder done or pending. Several jobs leave together    *)
(* when a pod dies with all of its loops.                                  *)
(***************************************************************************)
Release(S) ==
  /\ S # {}
  /\ \A j \in S : phase[j] = "active"
  /\ holder' = [j \in Jobs |-> IF j \in S THEN NoWorker ELSE holder[j]]
  /\ \E done \in SUBSET S :
       phase' = [j \in Jobs |-> IF j \notin S THEN phase[j]
                                ELSE IF j \in done THEN "done" ELSE "pending"]

Next ==
  \/ \E j \in Jobs : Submit(j)
  \/ \E j \in Jobs, w \in Workers : Take(j, w)
  \/ \E S \in SUBSET Jobs : Release(S)

Spec == Init /\ [][Next]_jobVars
=============================================================================
