------------------------------- MODULE MCBURun -------------------------------
(* Bounds and lists of the bu run. *)
EXTENDS BURun, TLC

CONSTANTS f1, f2
MCRuns == 1 .. 2
MCLists == {[black |-> {f1}, hasWhite |-> FALSE, white |-> {}],
            [black |-> {}, hasWhite |-> TRUE, white |-> {f1, f2}]}
MCWeight == [b \in Bounded |-> IF b \in {"stuck", "lost", "herod"} THEN 2
                               ELSE IF b = "slow" THEN 1 ELSE 3]
=============================================================================
