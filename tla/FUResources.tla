----------------------------- MODULE FUResources -----------------------------
(***************************************************************************)
(* The resource management of hltd on a filter unit: the ResourceRanger,   *)
(* the RunRanger, the watchdogs, WaitForEnd and Shutdown together, with    *)
(* the processes they start, the BU that announces and ends runs, and the  *)
(* people who move core files or order a cleanup.                          *)
(***************************************************************************)
EXTENDS FUWatchdog, FUResourceRanger, FURunEnd, FURunRanger

CONSTANTS MaxCrash,   \* bound: processes that exit with a non-zero code
          MaxMove,    \* bound: core files moved by hand
          MaxTimeout, \* bound: joins that give up
          MaxHerod,   \* bound: herod commands
          MaxCpu      \* bound: changes of the number of CPUs

VARIABLE spent        \* how much of each bound has been used
vars == <<fuVars, spent>>

Bounds == [crash |-> MaxCrash, move |-> MaxMove, timeout |-> MaxTimeout,
           herod |-> MaxHerod, cpu |-> MaxCpu]
ASSUME BoundsAssumption == Bounds \in [DOMAIN Bounds -> Nat]
Spend(k) == spent[k] < Bounds[k] /\ spent' = [spent EXCEPT ![k] = @ + 1]

-----------------------------------------------------------------------------
(* Processes and the outside world *)

\* A process ends by itself at the end of the run's data, or when told to stop.
ProcessEnds(x) ==
  /\ res[x].proc = "alive"
  /\ res' = [res EXCEPT ![x].proc = "ok"]
  /\ UNCHANGED <<where, events, cmds, lock, rr, cr, runs, run, we, sh, qlist, cpuchg, spent>>

StrayEnds(x) ==
  /\ res[x].stray = "alive"
  /\ res' = [res EXCEPT ![x].stray = "ended"]
  /\ UNCHANGED <<where, events, cmds, lock, rr, cr, runs, run, we, sh, qlist, cpuchg, spent>>

ProcessCrashes(x) ==
  /\ res[x].proc = "alive" /\ Spend("crash")
  /\ \E code \in {"crash", "quit"} : res' = [res EXCEPT ![x].proc = code]
  /\ UNCHANGED <<where, events, cmds, lock, rr, cr, runs, run, we, sh, qlist, cpuchg>>

\* The BU notifies a new run: its directory appears.
NotifyNewRun(r) ==
  /\ run[r].marker = "none"
  /\ run' = [run EXCEPT ![r].marker = "new"]
  /\ Send("run", r)
  /\ UNCHANGED <<where, events, lock, rr, cr, runs, we, sh, res, qlist, cpuchg, spent>>

\* The BU notifies the end of a run: its end file appears.
NotifyEnd(r) ==
  /\ run[r].marker = "active" /\ ~run[r].endfile
  /\ run' = [run EXCEPT ![r].endfile = TRUE]
  /\ Send("end", r)
  /\ UNCHANGED <<where, events, lock, rr, cr, runs, we, sh, res, qlist, cpuchg, spent>>

Herod(r) ==
  /\ Spend("herod") /\ Send("herod", r)
  /\ UNCHANGED <<where, events, lock, rr, cr, runs, run, we, sh, res, qlist, cpuchg>>

\* The change that has not been applied to the core files yet.
Pending == cpuchg + IF cr.pc = "resize" THEN cr.left ELSE 0
\* refreshCPURange: CPUs were taken from the machine, or came back.
CpuChange(d) ==
  /\ Spend("cpu")
  /\ Cardinality(In("gone")) - Pending - d \in 0 .. Cardinality(Cores)
  /\ cr.pc \notin {"update", "ujoin", "ulock"}  \* state.lock
  /\ cpuchg' = cpuchg + d
  /\ IF \E i \in DOMAIN cmds : cmds[i].op = "update"
     THEN UNCHANGED cmds  \* opening a file that exists is no event
     ELSE Send("update", NoRun)
  /\ UNCHANGED <<where, events, lock, rr, cr, runs, run, we, sh, res, qlist>>

\* Somebody moves a core file by hand.
MoveByHand(c, dir) ==
  /\ Spend("move") /\ where[c] # dir /\ where[c] # "gone"
  /\ MoveTo({c}, dir)
  /\ UNCHANGED <<cmds, lock, rr, cr, runs, run, we, sh, res, qlist, cpuchg>>

-----------------------------------------------------------------------------
Init ==
  /\ where = [c \in Cores |-> "idle"]
  /\ events = <<>> /\ cmds = <<>> /\ runs = <<>> /\ qlist = {} /\ cpuchg = 0
  /\ lock = "free"
  /\ rr = RangerIdle
  /\ cr = RunnerIdle
  /\ run = [r \in Runs |-> [ongoing |-> FALSE, pending |-> FALSE, marker |-> "none",
                            endfile |-> FALSE, qfile |-> FALSE, online |-> {}, joinl |-> {}]]
  /\ we = [r \in Runs |-> NoEnd]
  /\ sh = [r \in Runs |-> [pc |-> "none", term |-> {}]]
  /\ res = [x \in Res |-> NewRes]
  /\ spent = [k \in DOMAIN Bounds |-> 0]

Timeouts == (RangerJoinTimeout \/ UpdateJoinTimeout) /\ Spend("timeout")
Threads ==
  \/ \E x \in Res : WatchdogNext(x)
  \/ RangerNext \/ RunnerNext
  \/ \E r \in Runs : WaitForEndNext(r) \/ ShutdownNext(r)
Next ==
  \/ Threads /\ UNCHANGED spent
  \/ Timeouts
  \/ \E x \in Res : ProcessEnds(x) \/ StrayEnds(x) \/ ProcessCrashes(x)
  \/ \E r \in Runs : NotifyNewRun(r) \/ NotifyEnd(r) \/ Herod(r)
  \/ Herod(NoRun)
  \/ \E d \in {-1, 1} : CpuChange(d)
  \/ \E c \in Cores, dir \in {"idle", "quarantined"} : MoveByHand(c, dir)

Spec == Init /\ [][Next]_vars

\* The threads are scheduled; a process ends once its input has ended.
Fairness ==
  /\ WF_vars(RangerNext /\ UNCHANGED spent)
  /\ WF_vars(RunnerNext /\ UNCHANGED spent)
  /\ \A x \in Res : WF_vars(WatchdogNext(x) /\ UNCHANGED spent)
                    /\ WF_vars(ProcessEnds(x)) /\ WF_vars(StrayEnds(x))
  /\ \A r \in Runs : WF_vars((WaitForEndNext(r) \/ ShutdownNext(r)) /\ UNCHANGED spent)
FairSpec == Spec /\ Fairness

-----------------------------------------------------------------------------
(* Safety *)

TypeOK == StateTypeOK /\ spent \in [DOMAIN Bounds -> Nat]

Alive(x) == res[x].proc = "alive"
Starting(x) == rr.pc \in {"start", "rejoin"} /\ rr.res = x
Queued(op, r) == \E i \in DOMAIN cmds : cmds[i] = [op |-> op, run |-> r]

\* resource_lock is held across steps by exactly the handler that is inside its
\* locked section, however that section was entered and left (the join that
\* releases it, StartNewProcess, returns in the middle, exceptions).
LockOwned ==
  /\ (lock = "ranger") = (rr.pc \in {"stop", "acquire", "start"})
  /\ (lock = "runner") = (cr.pc = "update")

\* Two processes never compute on the same core: neither those of two resources
\* that share a core file, nor a process and the one that replaced it.
OneProcessPerCore ==
  /\ \A x, y \in Res : x # y /\ Alive(x) /\ Alive(y) => Cpu(x) \cap Cpu(y) = {}
  /\ \A x \in Res : ~(Alive(x) /\ res[x].stray = "alive")

\* Every process has a watchdog that waits for it, or is being given one: nobody
\* else would notice its end and move its cores on.
ProcessWatched == \A x \in Res : Alive(x) => res[x].wd = "watch" \/ Starting(x)

\* A core file in online is not forgotten there: a thread has yet to move it.
CoreAccounted ==
  \A c \in In("online") : \E x \in Res :
     /\ c \in Cpu(x)
     /\ \/ res[x].wd \in {"watch", "sleep", "stopwait", "toIdle", "toQuar",
                          "delete", "relIdle", "relQuar"}
        \/ Starting(x)

\* The end or the shutdown of a run finds every process of the run, and nobody
\* else takes the process's cores: its run is in the RunList, its resource in
\* the run's lists and its core files in online.
ProcessReachable ==
  \A x \in Res : Alive(x) => /\ InList(x[1])
                             /\ Cpu(x) \in run[x[1]].online \cap run[x[1]].joinl
                             /\ Cpu(x) \subseteq In("online")

\* A run outside the RunList is never the one that resources are started for.
OngoingListed == \A r \in Runs : run[r].ongoing => InList(r)

\* The end of a run is heard, and heard once, although the BU and every watchdog may
\* write the end file and two threads remove it: while the file exists its command is
\* still to be handled, or a thread is at work that has yet to remove the file; and
\* no end command reaches a run whose WaitForEnd has begun, to start a second one.
EndAsked(r) == Queued("end", r) \/ (cr.pc = "endsleep" /\ cr.run = r)
EndNotLost ==
  \A r \in Runs :
    /\ run[r].endfile =>
         EndAsked(r) \/ we[r].pc \in {"join", "clear"} \/ sh[r].pc \notin {"none", "done"}
    /\ EndAsked(r) => we[r].pc = "none"

\* The restarts of a process are counted for as long as the run goes on: the
\* cores come back from except to the resource that counts them.
RetriesKept ==
  [][\A x \in Res : run[x[1]].ongoing /\ run'[x[1]].ongoing
                      => res'[x].retries >= res[x].retries]_vars

\* What a watchdog has quarantined stays there until the run is no longer ongoing.
QuarantineKept ==
  [][\A x \in Res : run'[x[1]].ongoing =>
       \A c \in res[x].quar : where[c] = "quarantined" => where'[c] \in {"quarantined", "gone"}]_vars

\* The code's own claim (RunRanger.py:340-341) that an end cannot be overtaken by a
\* restart: no process of the run starts once its end has begun to wait for them.
EndedRunStaysEnded ==
  [][\A x \in Res : ~Alive(x) /\ res'[x].proc = "alive" => we[x[1]].pc = "none"]_vars

\* The course of a run that the threads rely on without a lock: a run is announced
\* once, nobody touches it before it was started, and from the moment its end or
\* its shutdown has begun it is no longer ongoing.
Started(r) == run[r].marker \notin {"none", "new"}
CommandsInOrder ==
  /\ \A r \in Runs : /\ Queued("run", r) => run[r].marker = "new"
                     /\ Queued("end", r) \/ Queued("quarantined", r) => Started(r)
  /\ \A i, j \in DOMAIN cmds : cmds[i].op = "run" /\ cmds[i] = cmds[j] => i = j
RunnerInOrder ==
  /\ cr.pc \in {"newrun", "resize", "acquire"} =>
       cr.run \in Runs /\ run[cr.run].marker = "new" /\ ~Queued("run", cr.run)
  /\ cr.pc = "endsleep" => cr.run \in Runs /\ Started(cr.run) /\ ~run[cr.run].ongoing
  /\ \A r \in cr.todo : Started(r)
ThreadsInOrder ==
  /\ \A r \in Runs : InList(r) \/ we[r].pc # "none" \/ sh[r].pc # "none" => Started(r)
  /\ \A x \in Res : res[x].wd # "none" => Started(x[1])
  /\ rr.run \in Runs => Started(rr.run)
  /\ rr.res \in Res => Started(rr.res[1])
EndingInOrder ==
  \A r \in Runs :
    /\ we[r].pc # "none" \/ sh[r].pc \notin {"none", "begin"} => ~run[r].ongoing
    /\ run[r].marker = "gone" => we[r].pc # "none" \/ sh[r].pc # "none"
RunsInOrder == CommandsInOrder /\ RunnerInOrder /\ ThreadsInOrder /\ EndingInOrder

-----------------------------------------------------------------------------
(* The threads together keep the promise of CoreLease *)

LeaseStage(r) == IF ~InList(r) THEN IF run[r].marker \in {"none", "new"} THEN "new" ELSE "over"
                 ELSE IF we[r].pc = "none" /\ sh[r].pc = "none" THEN "running" ELSE "ending"
Lent(r) == UNION {Cpu(x) : x \in {y \in Res : y[1] = r /\ Alive(y)}}
Lease == INSTANCE CoreLease WITH stage <- [r \in Runs |-> LeaseStage(r)],
                                 lent <- [r \in Runs |-> Lent(r)]

\* A run gets cores only while it is running, only cores nobody else has, and
\* leaves the RunList only after its last process has ended.
ImplementsLease == Lease!LeaseSpec

-----------------------------------------------------------------------------
(* Liveness *)

\* A run that is ending leaves the RunList.
EndingRunLeaves == Lease!EndingGetsOver

\* Each handler comes to an end: neither of the two threads hangs in one.
HandlersReturn == /\ (rr.pc # "wait") ~> (rr.pc = "wait")
                  /\ (cr.pc # "wait") ~> (cr.pc = "wait")

\* A core whose process crashed is taken out of except again (to restart the
\* process, or to idle once no run is ongoing) if it fills a process by itself.
BrokenCoreTaken == \A c \in Cores : (where[c] = "except") ~> (where[c] # "except")

\* A run whose resources are all quarantined is shut down or ends.
QuarantinedRunLeaves ==
  \A r \in Runs : (InList(r) /\ run[r].online # {} /\ QuarantinedLimit(r)) ~> (run[r].pending \/ ~run[r].ongoing)
=============================================================================
