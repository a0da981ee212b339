----------------------------- MODULE FUWatchdog -----------------------------
(***************************************************************************)
(* ProcessWatchdog.run (Resource.py:388-565): what the thread that waits   *)
(* for one process does once the process has ended.  From then on it holds *)
(* loc_res_lk of its resource until it returns; each of the moves that     *)
(* needs resource_lock waits for it with loc_res_lk held.                  *)
(***************************************************************************)
EXTENDS FUState

Cpu(x) == x[2]
\* Mutant of Used: the watchdog has no cores to move.
BugUsed(x) == {}
Used(x) == Cpu(x) \cap In("online")   \* a rename of another file raises, and is logged
Deactivated(x) == res[x].flags \cap {"remove", "mask"} # {}
\* Mutant of ReleasePc: the cores to remove are forgotten.
BugReleasePc(x) == IF "remove" \in res[x].flags THEN "delist"
                   ELSE IF "move_q" \in res[x].flags THEN "relQuar" ELSE "relIdle"
ReleasePc(x) == IF "remove" \in res[x].flags THEN "delete"
                ELSE IF "move_q" \in res[x].flags THEN "relQuar" ELSE "relIdle"

\* The process may be restarted. Mutant: once too often.
BugMayRetry(tries) == tries <= RetryLimit
MayRetry(tries) == tries < RetryLimit

\* communicate() has returned: the process this thread waits for has ended.
Ended(x) ==
  /\ res[x].wd = "watch"
  /\ IF res[x].stray = "no" THEN res[x].proc # "alive" ELSE res[x].stray = "ended"

\* process.returncode is read from the object self.process refers to by now:
\* None for a newer process, an AttributeError when it was reset to None.
ReturnCode(x) == IF res[x].stray = "no" THEN res[x].proc ELSE "none"
StateAfter(x) == IF res[x].stray = "no" THEN "ended" ELSE "none"

WatchdogLost(x) ==
  /\ Ended(x) /\ ~res[x].obj
  /\ res' = [res EXCEPT ![x].wd = "dead", ![x].stray = "no"]
  /\ UNCHANGED <<where, events, cmds, lock, rr, cr, runs, run, we, sh, qlist, cpuchg>>

\* The aborted marker is looked at once, before the return code.
WatchdogAborted(x) ==
  /\ Ended(x) /\ res[x].obj /\ run[x[1]].marker = "aborted"
  /\ res' = [res EXCEPT ![x].pstate = StateAfter(x), ![x].stray = "no",
                        ![x].wd = IF Deactivated(x) THEN ReleasePc(x) ELSE "toIdle"]
  /\ UNCHANGED <<where, events, cmds, lock, rr, cr, runs, run, we, sh, qlist, cpuchg>>

\* A non-zero code: release the cores if that was asked for, else retry or
\* quarantine; the codes 127, 90 and 73 use up all the retries at once.
WatchdogError(x) ==
  /\ Ended(x) /\ res[x].obj /\ run[x[1]].marker # "aborted"
  /\ ReturnCode(x) \in {"crash", "quit"}
  /\ LET tries == IF ReturnCode(x) = "quit" /\ ~Deactivated(x) THEN RetryLimit
                  ELSE res[x].retries
     IN res' = [res EXCEPT ![x].pstate = "ended", ![x].retries = tries,
                  ![x].wd = IF Deactivated(x) THEN ReleasePc(x)
                            ELSE IF MayRetry(tries) THEN "sleep" ELSE "toQuar"]
  /\ UNCHANGED <<where, events, cmds, lock, rr, cr, runs, run, we, sh, qlist, cpuchg>>

\* Code 0 or None: the first one writes the end file of the run.
WatchdogSuccess(x) ==
  /\ Ended(x) /\ res[x].obj /\ run[x[1]].marker # "aborted"
  /\ ReturnCode(x) \in {"ok", "none"}
  /\ res' = [res EXCEPT ![x].pstate = StateAfter(x), ![x].stray = "no",
                        ![x].wd = IF Deactivated(x) THEN ReleasePc(x) ELSE "stopwait"]
  /\ IF Deactivated(x) \/ run[x[1]].endfile
     THEN UNCHANGED <<cmds, run>>
     ELSE Send("end", x[1]) /\ run' = [run EXCEPT ![x[1]].endfile = TRUE]
  /\ UNCHANGED <<where, events, lock, rr, cr, runs, we, sh, qlist, cpuchg>>

\* Wait until the request to end has been handled.
WatchdogStopSeen(x) ==
  /\ res[x].wd = "stopwait"
  /\ run[x[1]].marker \in {"stopping", "complete", "aborted", "abortcomplete", "gone"}
  /\ res' = [res EXCEPT ![x].wd = "toIdle"]
  /\ UNCHANGED <<where, events, cmds, lock, rr, cr, runs, run, we, sh, qlist, cpuchg>>

WatchdogToIdle(x) ==
  /\ res[x].wd = "toIdle" /\ lock = "free"
  /\ MoveTo(Used(x), "idle")
  /\ res' = [res EXCEPT ![x].wd = "dead"]
  /\ UNCHANGED <<cmds, lock, rr, cr, runs, run, we, sh, qlist, cpuchg>>

\* After the retry delay: drop the process, move the cores to except.
WatchdogToBroken(x) ==
  /\ res[x].wd = "sleep" /\ lock = "free"
  /\ MoveTo(Used(x), "except")
  /\ res' = [res EXCEPT ![x].wd = "dead", ![x].obj = FALSE, ![x].retries = @ + 1]
  /\ UNCHANGED <<cmds, lock, rr, cr, runs, run, we, sh, qlist, cpuchg>>

WatchdogToQuarantined(x) ==
  /\ res[x].wd = "toQuar" /\ lock = "free"
  /\ MoveTo(Used(x), "quarantined")
  /\ res' = [res EXCEPT ![x].wd = "rmMark", ![x].quar = @ \union Used(x)]
  /\ UNCHANGED <<cmds, lock, rr, cr, runs, run, we, sh, qlist, cpuchg>>

\* The marker for the RunRanger: remove the old file, create it, and only then
\* note in the watchdog that it has quarantined its cores.
WatchdogRemoveMark(x) ==
  /\ res[x].wd = "rmMark"
  /\ run' = [run EXCEPT ![x[1]].qfile = FALSE]
  /\ res' = [res EXCEPT ![x].wd = "mark"]
  /\ UNCHANGED <<where, events, cmds, lock, rr, cr, runs, we, sh, qlist, cpuchg>>

WatchdogMark(x) ==
  /\ res[x].wd = "mark"
  /\ IF run[x[1]].qfile THEN UNCHANGED <<cmds, run>>
     ELSE Send("quarantined", x[1]) /\ run' = [run EXCEPT ![x[1]].qfile = TRUE]
  /\ res' = [res EXCEPT ![x].wd = "flag"]
  /\ UNCHANGED <<where, events, lock, rr, cr, runs, we, sh, qlist, cpuchg>>

WatchdogFlag(x) ==
  /\ res[x].wd = "flag"
  /\ res' = [res EXCEPT ![x].wd = "dead", ![x].wdq = TRUE]
  /\ UNCHANGED <<where, events, cmds, lock, rr, cr, runs, run, we, sh, qlist, cpuchg>>

\* maybeReleaseResources: only the deletion takes resource_lock.
WatchdogDelete(x) ==
  /\ res[x].wd = "delete" /\ lock = "free"
  /\ MoveTo(Used(x), "gone")
  /\ res' = [res EXCEPT ![x].wd = "delist"]
  /\ UNCHANGED <<cmds, lock, rr, cr, runs, run, we, sh, qlist, cpuchg>>

WatchdogRelease(x) ==
  /\ res[x].wd \in {"relIdle", "relQuar"}
  /\ MoveTo(Used(x), IF res[x].wd = "relIdle" THEN "idle" ELSE "quarantined")
  /\ res' = [res EXCEPT ![x].wd = "delist"]
  /\ UNCHANGED <<cmds, lock, rr, cr, runs, run, we, sh, qlist, cpuchg>>

\* ReleaseResource; removing an object that is not listed raises, at the end of run().
WatchdogDelist(x) ==
  /\ res[x].wd = "delist"
  /\ run' = [run EXCEPT ![x[1]].online = @ \ {Cpu(x)}]
  /\ res' = [res EXCEPT ![x].wd = "dead"]
  /\ UNCHANGED <<where, events, cmds, lock, rr, cr, runs, we, sh, qlist, cpuchg>>

WatchdogNext(x) ==
  \/ WatchdogLost(x) \/ WatchdogAborted(x) \/ WatchdogError(x) \/ WatchdogSuccess(x)
  \/ WatchdogStopSeen(x) \/ WatchdogToIdle(x) \/ WatchdogToBroken(x)
  \/ WatchdogToQuarantined(x) \/ WatchdogRemoveMark(x) \/ WatchdogMark(x) \/ WatchdogFlag(x)
  \/ WatchdogDelete(x) \/ WatchdogRelease(x) \/ WatchdogDelist(x)
=============================================================================
