-------------------------- MODULE FUResourceRanger --------------------------
(***************************************************************************)
(* ResourceRanger.process_IN_MOVED_TO on a filter unit outside cloud mode  *)
(* (ResourceRanger.py:50-254) with the calls it makes.  The thread takes   *)
(* one event, keeps resource_lock while it handles it, and gives the lock  *)
(* up only to join a watchdog.                                             *)
(***************************************************************************)
EXTENDS FUState

\* stopResourceMaybe: running resources that hold the core, of the first run of
\* the list that has one; an ending current run is skipped.
OwnersIn(core, cur, r) ==
  IF r = cur /\ ~run[r].ongoing THEN {}
  ELSE {<<r, g>> : g \in {h \in run[r].online : core \in h /\ res[<<r, h>>].pstate = "running"}}
Owners(core, cur) ==
  LET first == {i \in DOMAIN runs : \A j \in 1 .. (i - 1) : OwnersIn(core, cur, runs[j]) = {}}
  IN UNION {OwnersIn(core, cur, runs[i]) : i \in first}

RangerIdle == [pc |-> "wait", core |-> NoCore, dir |-> "idle", run |-> NoRun, res |-> NoRes]
Handle(pc) == rr' = [rr EXCEPT !.pc = pc]
\* Mutant of RangerDone: the lock is not released.
BugRangerDone == rr' = RangerIdle /\ lock' = lock
\* The end of the handler, also by an exception: the finally clause unlocks.
RangerDone == rr' = RangerIdle /\ lock' = "free"

Taken(pc, x) ==
  /\ rr' = [pc |-> pc, core |-> Head(events).core, dir |-> Head(events).dir,
            run |-> LastOngoingRun, res |-> x]
  /\ lock' = "ranger"

\* The event is taken, the lock too, and the last ongoing run is read.
RangerTake ==
  /\ rr.pc = "wait" /\ events # <<>> /\ lock = "free"
  /\ events' = Tail(events)
  /\ LET e == Head(events)
         own == IF where[e.core] = e.dir THEN Owners(e.core, LastOngoingRun) ELSE {}
     IN \/ own # {} /\ LastOngoingRun # NoRun /\ \E x \in own : Taken("stop", x)
        \* current_run.runnumber of None raises: the handler ends here
        \/ own # {} /\ LastOngoingRun = NoRun /\ UNCHANGED <<rr, lock>>
        \/ own = {} /\ e.dir = "quarantined" /\ UNCHANGED <<rr, lock>>
        \/ own = {} /\ e.dir # "quarantined" /\ Taken("acquire", NoRes)
  /\ UNCHANGED <<where, cmds, cr, runs, run, we, sh, res, qlist, cpuchg>>

\* Stop the owner, waiting for its loc_res_lk with resource_lock held; then
\* release resource_lock for the join.
RangerStop ==
  /\ rr.pc = "stop" /\ CanStop(rr.res)
  /\ LET move == rr.dir = "quarantined"
         eorAllow == rr.run # rr.res[1] /\ ~move
     IN StopWith(rr.res, (IF eorAllow THEN {} ELSE {"mask"}) \union (IF move THEN {"move_q"} ELSE {}))
  /\ lock' = "free" /\ Handle("join")
  /\ UNCHANGED <<where, events, cmds, cr, runs, run, we, sh, qlist, cpuchg>>

RangerJoinReturns ==
  /\ rr.pc = "join" /\ lock = "free"
  /\ IF rr.dir = "quarantined" THEN RangerDone ELSE Handle("acquire") /\ lock' = "ranger"
  /\ UNCHANGED <<where, events, cmds, cr, runs, run, we, sh, res, qlist, cpuchg>>

RangerJoined == rr.pc = "join" /\ NoWatchdog(rr.res) /\ RangerJoinReturns
\* After 120 s the join gives up.  The log line that precedes terminate() adds an
\* int to a string, so it raises and the process is neither terminated nor killed.
RangerJoinTimeout == rr.pc = "join" /\ ~NoWatchdog(rr.res) /\ RangerJoinReturns

\* MatchResource among the files of the directory, else any NStreams of them.
Matched(r, free) == {g \in run[r].online : rr.core \in g /\ g \subseteq free}
Startable(r, free) ==
  IF Matched(r, free) # {} THEN Matched(r, free)
  ELSE {g \in Groups : rr.core \in g /\ g \subseteq free}

RangerAcquire ==
  /\ rr.pc = "acquire" /\ rr.run # NoRun
  /\ \E g \in Startable(rr.run, In(rr.dir)) :
       /\ AcquireResource(rr.run, g)
       /\ rr' = [rr EXCEPT !.pc = "start", !.res = <<rr.run, g>>]
  /\ UNCHANGED <<cmds, lock, cr, runs, sh, qlist, cpuchg>>

\* The file was moved earlier, or there are not enough cores for a process.
RangerSkip ==
  /\ rr.pc = "acquire"
  /\ IF rr.run = NoRun THEN rr.dir = "idle" ELSE TRUE
  /\ rr.run # NoRun => Startable(rr.run, In(rr.dir)) = {}
  /\ RangerDone
  /\ UNCHANGED <<where, events, cmds, cr, runs, run, we, sh, res, qlist, cpuchg>>

\* Mutant of RangerUnbreak: broken cores wait for the next run where they are.
BugRangerUnbreak ==
  /\ rr.pc = "acquire" /\ rr.run = NoRun /\ rr.dir = "except"
  /\ RangerDone
  /\ UNCHANGED <<where, events, cmds, cr, runs, run, we, sh, res, qlist, cpuchg>>
\* No ongoing run: broken cores go back to idle, NStreams at a time.
RangerUnbreak ==
  /\ rr.pc = "acquire" /\ rr.run = NoRun /\ rr.dir = "except"
  /\ LET free == {g \in Groups : rr.core \in g /\ g \subseteq In("except")}
     IN IF free = {} THEN UNCHANGED <<where, events>>
        ELSE \E g \in free : MoveTo(g, "idle")
  /\ RangerDone
  /\ UNCHANGED <<cmds, cr, runs, run, we, sh, res, qlist, cpuchg>>

\* StartOnResource looks the resource up in the list of the run: WaitForEnd or
\* Shutdown may have emptied that list.
RangerStartFails ==
  /\ rr.pc = "start" /\ rr.res[2] \notin run[rr.run].online
  /\ RangerDone
  /\ UNCHANGED <<where, events, cmds, cr, runs, run, we, sh, res, qlist, cpuchg>>

\* StartNewProcess: with an old watchdog the lock is released to join it.
RangerStart ==
  /\ rr.pc = "start" /\ rr.res[2] \in run[rr.run].online
  /\ lock' = "free"
  /\ IF res[rr.res].wd = "none"
     THEN rr' = RangerIdle /\ res' = [res EXCEPT ![rr.res] = Watch(Forked(@))]
     ELSE Handle("rejoin") /\ res' = [res EXCEPT ![rr.res] = Forked(@)]
  /\ UNCHANGED <<where, events, cmds, cr, runs, run, we, sh, qlist, cpuchg>>

\* Without a process object the new watchdog is not created (Resource.py:244).
RangerRestarted ==
  /\ rr.pc = "rejoin" /\ NoWatchdog(rr.res) /\ lock = "free"
  /\ res' = [res EXCEPT ![rr.res] =
               IF @.obj THEN Watch(@) ELSE [@ EXCEPT !.pstate = "running", !.wd = "none"]]
  /\ rr' = RangerIdle
  /\ UNCHANGED <<where, events, cmds, lock, cr, runs, run, we, sh, qlist, cpuchg>>

RangerNext ==
  \/ RangerTake \/ RangerStop \/ RangerJoined
  \/ RangerAcquire \/ RangerSkip \/ RangerUnbreak
  \/ RangerStartFails \/ RangerStart \/ RangerRestarted
=============================================================================
