---------------------------- MODULE MCStaleMonitor ----------------------------
(* Statuses for TLC: one thing at a time keeps a PR from being merged. *)
EXTENDS StaleMonitor

MCStatuses ==
  {Calm, [ci |-> "failing", conflict |-> FALSE], [ci |-> "pending", conflict |-> TRUE]}
===============================================================================
