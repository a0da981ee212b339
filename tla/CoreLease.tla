------------------------------ MODULE CoreLease ------------------------------
(***************************************************************************)
(* What the resource management of a filter unit promises to the runs:     *)
(* cores are leased to a run for its processes.  A core is leased once at  *)
(* a time, nothing is leased to a run that is ending, and a run is over    *)
(* only when it has given everything back.                                 *)
(***************************************************************************)
EXTENDS Naturals

CONSTANTS Cores, Runs
VARIABLES stage,  \* stage[r]: how far run r has come
          lent    \* lent[r]: the cores on which run r has a process
leaseVars == <<stage, lent>>

Stages == {"new", "running", "ending", "over"}
LeaseTypeOK == stage \in [Runs -> Stages] /\ lent \in [Runs -> SUBSET Cores]
Free == Cores \ UNION {lent[r] : r \in Runs}

LeaseInit == stage = [r \in Runs |-> "new"] /\ lent = [r \in Runs |-> {}]

Advance(r, from, to) == stage[r] = from /\ stage' = [stage EXCEPT ![r] = to]

\* A run begins with what is free; cores that come free later may be added.
Begin(r) ==
  /\ Advance(r, "new", "running")
  /\ \E S \in SUBSET Free : lent' = [lent EXCEPT ![r] = S]
Lend(r) ==
  /\ stage[r] = "running"
  /\ \E S \in SUBSET Free : lent' = [lent EXCEPT ![r] = @ \union S]
  /\ UNCHANGED stage
GiveBack(r) ==
  /\ \E S \in SUBSET lent[r] : lent' = [lent EXCEPT ![r] = @ \ S]
  /\ UNCHANGED stage
End(r) == Advance(r, "running", "ending") /\ UNCHANGED lent
Over(r) == lent[r] = {} /\ Advance(r, "ending", "over") /\ UNCHANGED lent

LeaseNext == \E r \in Runs : Begin(r) \/ Lend(r) \/ GiveBack(r) \/ End(r) \/ Over(r)
LeaseSpec == LeaseInit /\ [][LeaseNext]_leaseVars

\* The promise of progress: a run that is ending gets over.
EndingGetsOver == \A r \in Runs : stage[r] = "ending" ~> stage[r] = "over"
=============================================================================
