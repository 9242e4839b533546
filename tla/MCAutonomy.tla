----------------------------- MODULE MCAutonomy -----------------------------
(* Small instances of Autonomy: one schedule, two competing hosts.         *)
EXTENDS Autonomy

\* A trigger that runs a turn, and a reminder that fires once.
SmallKinds == {[wake |-> "source", does |-> "turn"],
               [wake |-> "once", does |-> "reminder"]}
=============================================================================
