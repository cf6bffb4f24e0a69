-------------------------- MODULE MCFindingLedger --------------------------
(* Small instances of FindingLedger for TLC. *)
EXTENDS FindingLedger, TLC

CONSTANTS v1, v2          \* handlers

TwoFindings == 1..2

(* Handlers are interchangeable. *)
Symmetry == Permutations(Reviewers)
=============================================================================
