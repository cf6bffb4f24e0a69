---------------------------- MODULE MCReviewJobs ----------------------------
(* Small instances of ReviewJobs for TLC. *)
EXTENDS ReviewJobs, TLC

CONSTANTS r1, r2          \* the deliveries of an instance
CONSTANT Kinds            \* the kinds their jobs may have: <<of r1, of r2>>

MCJobKind == [r \in Requests |-> IF r = r1 THEN Kinds[1] ELSE Kinds[2]]

(* An automatic review and a command differ in source; two reviews do not.  *)
MCAsk == MCJobKind
MCKeys == Requests \cup RecheckKeys

ReviewAlone == <<"review", "review">>
ReviewAndCommand == <<"review", "command">>
ReviewOrAgent == <<"review", "agent">>

(* Pods are interchangeable, and so are the findings of a PR.               *)
Symmetry == Permutations(Pods) \cup Permutations(Findings)

(* The age of a row is read when its job has failed and at no other time,  *)
(* and no property speaks of it: the row may as well age there.            *)
AgesWhenRead ==
  \A i \in Ids : rows[i].young /\ ~rows'[i].young =>
    \E w \in Worker : Holds(w, i) /\ StandsAt(w, "threw")
=============================================================================
