------------------------- MODULE MCAcceptanceGuide -------------------------
(* Small instances of AcceptanceGuide for TLC. *)
EXTENDS AcceptanceGuide

CONSTANTS p1, p2          \* two pods

(* One pod, or the old and the new one during a rollout. The other pod's   *)
(* standard loop is busy with another pull request.                        *)
OnePod == {<<p1, "standard">>, <<p1, "status">>}
TwoStatusLoops == OnePod \cup {<<p2, "status">>}
=============================================================================
