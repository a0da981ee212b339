----------------------------- MODULE FURunRanger -----------------------------
(***************************************************************************)
(* RunRanger.process_IN_CREATE on a filter unit outside cloud mode: the    *)
(* commands run, end, quarantined, herod and resourceupdate.  The thread   *)
(* handles one command file at a time, in the order they were created.     *)
(***************************************************************************)
EXTENDS FUState

CONSTANT SettleDelay  \* the .1 s sleep of endRunCmd outlasts a start in progress
ASSUME SettleAssumption == SettleDelay \in BOOLEAN

RunnerIdle == [pc |-> "wait", run |-> NoRun, todo |-> {}, cur |-> NoRun,
               visit |-> {}, stopped |-> {}, left |-> 0]
Command1(op) == cr.pc = "wait" /\ cmds # <<>> /\ Head(cmds).op = op /\ cmds' = Tail(cmds)
CmdRun == Head(cmds).run

\* startShutdown of every run of S that is not being shut down already.
StartShutdown(S) ==
  sh' = [r \in Runs |-> IF r \in S /\ sh[r].pc = "none" THEN [sh[r] EXCEPT !.pc = "begin"] ELSE sh[r]]

-----------------------------------------------------------------------------
(* run: shut the quarantined runs down, apply a pending change of the number *)
(* of CPUs when no run is active, then acquire and start under the lock.     *)

NewRunCmd ==
  /\ Command1("run")
  /\ StartShutdown({r \in ActiveRuns : run[r].pending})
  /\ cr' = IF InList(CmdRun) THEN RunnerIdle  \* duplicate run
           ELSE [RunnerIdle EXCEPT !.pc = "newrun", !.run = CmdRun]
  /\ UNCHANGED <<where, events, lock, rr, runs, run, we, res, qlist, cpuchg>>

\* updateIdles(delta, checkLast=False): remove idle or quarantined cores, or add
\* missing ones by way of quarantined; what could not be removed is left over.
Shrink(n) ==
  \E S \in SUBSET (In("idle") \union In("quarantined")) :
    /\ Cardinality(S) <= n
    /\ Cardinality(S) < n => S = In("idle") \union In("quarantined")
    /\ MoveTo(S, "gone")
    /\ cpuchg' = Cardinality(S) - n
Grow(n) ==
  \E S \in SUBSET In("gone") : Cardinality(S) = n /\ MoveTo(S, "idle") /\ cpuchg' = 0

\* The change is taken here and what is left of it is written back by NewRunResize:
\* a change that refreshCPURange adds in between is overwritten.
NewRunTakeChange ==
  /\ cr.pc = "newrun"
  /\ IF ActiveRuns # {} \/ cpuchg = 0 THEN cr' = [cr EXCEPT !.pc = "acquire"] /\ UNCHANGED cpuchg
     ELSE cr' = [cr EXCEPT !.pc = "resize", !.left = cpuchg] /\ cpuchg' = 0
  /\ UNCHANGED <<where, events, cmds, lock, rr, runs, run, we, sh, res, qlist>>

NewRunResize ==
  /\ cr.pc = "resize" /\ lock = "free"
  /\ IF cr.left < 0 THEN Shrink(-cr.left) ELSE Grow(cr.left)
  /\ cr' = [cr EXCEPT !.pc = "acquire"]
  /\ UNCHANGED <<cmds, lock, rr, runs, run, we, sh, res, qlist>>

\* AcquireResources groups the idle cores in the order they are listed; Run.Start
\* starts a process on each group.  No watchdog exists yet, so the lock is kept.
\* Mutant of Partitions: the cores in except and quarantined are taken, too.
BugPartitions == {P \in SUBSET {g \in Groups : g \subseteq Cores \ In("gone")} :
                    \A g, h \in P : g # h => g \cap h = {}}
Partitions == {P \in SUBSET {g \in Groups : g \subseteq In("idle")} :
                 /\ \A g, h \in P : g # h => g \cap h = {}
                 /\ Cardinality(In("idle") \ UNION P) < NStreams}

NewRunStart ==
  /\ cr.pc = "acquire" /\ lock = "free"
  /\ \E P \in Partitions :
       /\ MoveTo(UNION P, "online")
       /\ run' = [run EXCEPT ![cr.run] = [@ EXCEPT !.ongoing = TRUE, !.online = P,
                                                   !.joinl = P, !.marker = "active"]]
       /\ res' = [x \in Res |-> IF x[1] = cr.run /\ x[2] \in P THEN Watch(Forked(NewRes)) ELSE res[x]]
  /\ runs' = Append(runs, cr.run)
  /\ cr' = RunnerIdle
  /\ UNCHANGED <<cmds, lock, rr, we, sh, qlist, cpuchg>>

-----------------------------------------------------------------------------
(* end: the run stops being ongoing without the lock, then WaitForEnd starts *)

EndRunCmd ==
  /\ Command1("end")
  /\ IF InList(CmdRun)
     THEN /\ run' = [run EXCEPT ![CmdRun] = NotOngoing(@)]
          /\ cr' = [RunnerIdle EXCEPT !.pc = "endsleep", !.run = CmdRun]
     ELSE /\ run' = [run EXCEPT ![CmdRun].endfile = FALSE]
          /\ cr' = RunnerIdle
  /\ UNCHANGED <<where, events, lock, rr, runs, we, sh, res, qlist, cpuchg>>

\* Mutant of StartInProgress: the sleep is left out.
BugStartInProgress(r) == FALSE
StartInProgress(r) == rr.pc \in {"acquire", "start", "rejoin"} /\ rr.run = r

\* StartWaitForEnd; writing the marker fails when the run directory is gone.
EndRunStart ==
  /\ cr.pc = "endsleep"
  /\ SettleDelay => ~StartInProgress(cr.run)
  /\ IF run[cr.run].marker = "gone" THEN UNCHANGED <<run, we>>
     ELSE /\ run' = [run EXCEPT ![cr.run].marker = "stopping"]
          /\ we' = [we EXCEPT ![cr.run] = [NoEnd EXCEPT !.pc = "join"]]
  /\ cr' = RunnerIdle
  /\ UNCHANGED <<where, events, cmds, lock, rr, runs, sh, res, qlist, cpuchg>>

-----------------------------------------------------------------------------
(* quarantined: a run with every resource quarantined is shut down, at once  *)
(* unless it is the latest run                                               *)

QuarantinedCmd ==
  /\ Command1("quarantined")
  /\ LET hit == InList(CmdRun) /\ QuarantinedLimit(CmdRun)
         latest == hit /\ IsLatestRun(CmdRun)
     IN /\ run' = [run EXCEPT ![CmdRun].qfile = FALSE, ![CmdRun].pending = @ \/ latest]
        /\ StartShutdown(IF hit /\ ~latest THEN {CmdRun} ELSE {})
  /\ UNCHANGED <<where, events, lock, rr, cr, runs, we, res, qlist, cpuchg>>

-----------------------------------------------------------------------------
(* herod: shut down all runs, or one run and those at the quarantine limit   *)

HerodCmd ==
  /\ Command1("herod")
  /\ run' = IF CmdRun # NoRun THEN run
            ELSE [r \in Runs |-> IF InList(r) THEN NotOngoing(run[r]) ELSE run[r]]
  /\ cr' = [RunnerIdle EXCEPT !.pc = "herod", !.run = CmdRun, !.todo = ActiveRuns]
  /\ UNCHANGED <<where, events, lock, rr, runs, we, sh, res, qlist, cpuchg>>

\* Shutdown runs in this thread; when the run is already being shut down by
\* another thread, this one's Shutdown is taken to end with it.
HerodRun(r) ==
  /\ cr.pc = "herod" /\ r \in cr.todo
  /\ IF cr.run \in {NoRun, r} \/ QuarantinedLimit(r)
     THEN StartShutdown({r}) /\ cr' = [cr EXCEPT !.pc = "shutdown", !.todo = @ \ {r}, !.cur = r]
     ELSE UNCHANGED sh /\ cr' = [cr EXCEPT !.todo = @ \ {r}]
  /\ UNCHANGED <<where, events, cmds, lock, rr, runs, run, we, res, qlist, cpuchg>>

HerodShutdownReturns ==
  /\ cr.pc = "shutdown" /\ sh[cr.cur].pc = "done"
  /\ cr' = [cr EXCEPT !.pc = "herod"]
  /\ UNCHANGED <<where, events, cmds, lock, rr, runs, run, we, sh, res, qlist, cpuchg>>

\* The quarantined cores that Shutdown did not restore are cleared, unlocked.
HerodClear ==
  /\ cr.pc = "herod" /\ cr.todo = {}
  /\ MoveTo(qlist \cap In("quarantined"), "idle")
  /\ qlist' = {}
  /\ cr' = RunnerIdle
  /\ UNCHANGED <<cmds, lock, rr, runs, run, we, sh, res, cpuchg>>

-----------------------------------------------------------------------------
(* resourceupdate: the number of CPUs of the machine has changed             *)

\* Cores that are not used are removed first; if more must go and a run is ongoing,
\* its resources are stopped with resource_lock held.
UpdateShrink(S) ==
  LET n == -cpuchg - Cardinality(S) IN
    /\ n >= 0
    /\ n > 0 => S = In("idle") \union In("quarantined")
    /\ MoveTo(S, "gone")
    /\ IF n = 0 \/ LastOngoingRun = NoRun
       THEN cr' = RunnerIdle /\ cpuchg' = -n /\ lock' = lock
       ELSE /\ cr' = [RunnerIdle EXCEPT !.pc = "update", !.run = LastOngoingRun,
                         !.visit = run[LastOngoingRun].online, !.left = n]
            /\ cpuchg' = 0 /\ lock' = "runner"

UpdateCmd ==
  /\ Command1("update") /\ lock = "free"
  /\ \/ /\ cpuchg = 0 /\ cr' = RunnerIdle
        /\ UNCHANGED <<where, events, lock, cpuchg>>
     \/ /\ cpuchg > 0 /\ Grow(cpuchg) /\ cr' = RunnerIdle
        /\ UNCHANGED lock
     \/ /\ cpuchg < 0
        /\ \E S \in SUBSET (In("idle") \union In("quarantined")) : UpdateShrink(S)
  /\ UNCHANGED <<rr, runs, run, we, sh, res, qlist>>

\* Stop(delete_resources=True) waits for loc_res_lk of the resource.
UpdateStop(g) ==
  LET x == <<cr.run, g>> IN
  /\ cr.pc = "update" /\ cr.left > 0 /\ g \in cr.visit /\ CanStop(x)
  /\ StopWith(x, {"remove", "mask"})
  /\ cr' = [cr EXCEPT !.visit = @ \ {g},
                      !.left = IF Running(x) THEN @ - NStreams ELSE @,
                      !.stopped = IF Running(x) THEN @ \union {g} ELSE @]
  /\ UNCHANGED <<where, events, cmds, lock, rr, runs, run, we, sh, qlist, cpuchg>>

UpdateUnlock ==
  /\ cr.pc = "update" /\ (cr.left <= 0 \/ cr.visit = {})
  /\ lock' = "free" /\ cr' = [cr EXCEPT !.pc = "ujoin"]
  /\ UNCHANGED <<where, events, cmds, rr, runs, run, we, sh, res, qlist, cpuchg>>

UpdateJoined ==
  /\ cr.pc = "ujoin" /\ \A g \in cr.stopped : NoWatchdog(<<cr.run, g>>)
  /\ cr' = [cr EXCEPT !.pc = "ulock"]
  /\ UNCHANGED <<where, events, cmds, lock, rr, runs, run, we, sh, res, qlist, cpuchg>>

\* The join times out: terminate, then kill, and go on in any case.
UpdateJoinTimeout ==
  /\ cr.pc = "ujoin" /\ \E g \in cr.stopped : ~NoWatchdog(<<cr.run, g>>)
  /\ res' = [x \in Res |->
       IF x[1] = cr.run /\ x[2] \in cr.stopped /\ ~NoWatchdog(x) /\ res[x].obj /\ res[x].proc = "alive"
       THEN [res[x] EXCEPT !.proc = "crash"] ELSE res[x]]
  /\ cr' = [cr EXCEPT !.pc = "ulock"]
  /\ UNCHANGED <<where, events, cmds, lock, rr, runs, run, we, sh, qlist, cpuchg>>

\* A process had more cores than were to be removed: add the difference back.
UpdateEnd ==
  /\ cr.pc = "ulock" /\ lock = "free"
  /\ IF cr.left < 0 THEN Grow(-cr.left) ELSE UNCHANGED <<where, events, cpuchg>>
  /\ cr' = RunnerIdle
  /\ UNCHANGED <<cmds, lock, rr, runs, run, we, sh, res, qlist>>

RunnerNext ==
  \/ NewRunCmd \/ NewRunTakeChange \/ NewRunResize \/ NewRunStart
  \/ EndRunCmd \/ EndRunStart \/ QuarantinedCmd
  \/ HerodCmd \/ (\E r \in Runs : HerodRun(r)) \/ HerodShutdownReturns \/ HerodClear
  \/ UpdateCmd \/ (\E g \in Groups : UpdateStop(g)) \/ UpdateUnlock
  \/ UpdateJoined \/ UpdateEnd
=============================================================================
