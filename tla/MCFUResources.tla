---------------------------- MODULE MCFUResources ----------------------------
(* Values of the constants of FUResources for TLC. *)
EXTENDS FUResources, TLC

\* Bound: the watchdog of a resource object that the run has dropped is over
\* before the run makes another object for the same group of cores.
OneObjectPerGroup ==
  \A x \in Res : rr.pc = "acquire" /\ rr'.pc = "start" /\ rr'.res = x /\ x[2] \notin run[x[1]].online
                => NoWatchdog(x)

\* Bound: a run gets a second WaitForEnd thread only after the first is over.
OneWaitForEnd ==
  cr.pc = "endsleep" /\ cr'.pc = "wait" => we[cr.run].pc \in {"none", "done"}

Symmetry == Permutations(Cores) \union Permutations(Runs)
=============================================================================
