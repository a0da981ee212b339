---- MODULE MCCloudSwitch ----
(* Bounds of the cloud run. *)
EXTENDS CloudSwitch, TLC

CONSTANTS c1
MCRuns == 1 .. 2
MCBound == [b \in Bounded |-> IF b \in {"run", "exclude"} THEN 2 ELSE 1]
====
