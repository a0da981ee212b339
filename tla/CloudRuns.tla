------------------------------ MODULE CloudRuns ------------------------------
(***************************************************************************)
(* The threads that end runs, WaitForEnd and Shutdown of Run.py.  The one  *)
(* that ends the last run while the machine enters cloud mode gives the    *)
(* cores to the cloud and then, without the lock, ignites it.              *)
(***************************************************************************)
EXTENDS CloudState

\* The last locked section of both: left are the runs that remain in the list.
\* Mutant of LastGone: other runs are not looked for.
BugLastGone(left) == flags.cloud
LastGone(left) == flags.cloud /\ left = {}
ToCloud(left) == LastGone(left) /\ ~flags.abort
\* Mutant of Entered: the flag stays.
BugEntered == flags
Entered == [flags EXCEPT !.entering = FALSE]
LastSection(left) ==
  /\ flags' = IF ~LastGone(left) THEN flags
              ELSE IF ToCloud(left) THEN Entered
              ELSE [flags EXCEPT !.entering = FALSE, !.abort = FALSE, !.cloud = FALSE]
  /\ IF ToCloud(left) THEN CoresToCloud ELSE UNCHANGED <<where, events>>

-----------------------------------------------------------------------------
(* WaitForEnd *)

\* The processes have ended; the cores are given back, those in quarantine too.
EndClear(r) ==
  /\ run[r].we = "wait" /\ run[r].proc # "up"
  /\ MoveTo(run[r].on \ In("cloud"), "idle")
  /\ run' = [run EXCEPT ![r].we = "tail", ![r].on = {}, ![r].endfile = FALSE]
  /\ UNCHANGED <<flags, cmds, cr, listed, shut, vm, boot, spent>>

\* The join takes more than five minutes while the cloud switch is to be aborted.
EndTimeout(r) ==
  /\ run[r].we = "wait" /\ run[r].proc = "up" /\ flags.cloud /\ flags.abort
  /\ flags' = [flags EXCEPT !.abort = FALSE, !.masked = TRUE, !.cloud = FALSE]
  /\ UNCHANGED <<where, events, cmds, cr, run, listed, shut, vm, boot, spent>>

EndRemove(r) ==
  /\ run[r].we = "tail"
  /\ listed' = listed \ {r}
  /\ LastSection(listed')
  /\ run' = [run EXCEPT ![r].we = IF ToCloud(listed') THEN "ignite" ELSE "done"]
  /\ UNCHANGED <<cmds, cr, shut, vm, boot, spent>>

EndIgnite(r) ==
  /\ run[r].we = "ignite" /\ Ignite
  /\ run' = [run EXCEPT ![r].we = "done"]
  /\ UNCHANGED <<flags, where, events, cmds, cr, listed, shut, boot>>

-----------------------------------------------------------------------------
(* Shutdown, in thread t *)

Of(t) == IF t = Fg THEN cr.cur ELSE t
\* Mutant of StartShutdown: the threads of other runs are lost.
BugStartShutdown(S) == shut' = [t \in S |-> "kill"]
StartShutdown(S) ==
  shut' = [t \in Threads |-> IF t \in S /\ shut[t] = "none" THEN "kill" ELSE shut[t]]

ShutKill(t) ==
  /\ shut[t] = "kill"
  /\ run' = [run EXCEPT ![Of(t)].pending = FALSE, ![Of(t)].ongoing = FALSE,
                        ![Of(t)].proc = IF @ = "up" THEN "over" ELSE @]
  /\ shut' = [shut EXCEPT ![t] = "clear"]
  /\ UNCHANGED <<flags, where, events, cmds, cr, listed, vm, boot, spent>>

\* Cores in quarantine stay there, unless the configuration or the exit codes say
\* that they are restored.
ShutClear(t) ==
  /\ shut[t] = "clear" /\ run[Of(t)].proc # "up"
  /\ \E restored \in {{}, In("quarantined")} :
       MoveTo(run[Of(t)].on \cap (In("online") \union restored), "idle")
  /\ run' = [run EXCEPT ![Of(t)].on = {}]
  /\ shut' = [shut EXCEPT ![t] = "remove"]
  /\ UNCHANGED <<flags, cmds, cr, listed, vm, boot, spent>>

\* WaitForEnd is joined first, if it was started.
\* Mutant of EndJoined: it is joined in any case.
BugEndJoined(r) == run[r].we = "done"
EndJoined(r) == run[r].we \in {"no", "done"}
ShutRemove(t) ==
  /\ shut[t] = "remove" /\ EndJoined(Of(t))
  /\ listed' = listed \ {Of(t)}
  /\ shut' = [shut EXCEPT ![t] = "check"]
  /\ run' = [run EXCEPT ![Of(t)].endfile = FALSE]
  /\ UNCHANGED <<flags, where, events, cmds, cr, vm, boot, spent>>

ShutCheck(t) ==
  /\ shut[t] = "check"
  /\ LastSection(listed)
  /\ shut' = [shut EXCEPT ![t] = IF ToCloud(listed) THEN "ignite" ELSE "none"]
  /\ UNCHANGED <<cmds, cr, run, listed, vm, boot, spent>>

ShutIgnite(t) ==
  /\ shut[t] = "ignite" /\ Ignite
  /\ shut' = [shut EXCEPT ![t] = "none"]
  /\ UNCHANGED <<flags, where, events, cmds, cr, run, listed, boot>>

\* An ignition has been decided by a thread that does not hold the lock any more.
IgnitionDue == (\E r \in Runs : run[r].we = "ignite") \/ (\E t \in Threads : shut[t] = "ignite")

WaitForEnd(r) == EndClear(r) \/ EndTimeout(r) \/ EndRemove(r) \/ EndIgnite(r)
Shutdown(t) == ShutKill(t) \/ ShutClear(t) \/ ShutRemove(t) \/ ShutCheck(t) \/ ShutIgnite(t)
=============================================================================
