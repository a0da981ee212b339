------------------------------- MODULE FUState -------------------------------
(***************************************************************************)
(* The state of hltd on a filter unit (FU) that its threads share: the     *)
(* core files, the command files, the list of runs and the OnlineResource  *)
(* objects, with the operations on them that several threads call.         *)
(*                                                                         *)
(* A CPU core is a file in one of the directories idle, online, except and *)
(* quarantined; whoever renames the file decides what the core does next.  *)
(* An OnlineResource is identified by its run and its group of cores.      *)
(* resource_lock is the variable lock; loc_res_lk of a resource is not a   *)
(* variable, because a watchdog holds it exactly while its pc is in        *)
(* Finishing and every other holder takes and releases it in one step.     *)
(***************************************************************************)
EXTENDS Integers, Sequences, FiniteSets

CONSTANTS Cores,      \* the core files the machine can have
          Runs,       \* the run numbers the BU may announce
          NStreams,   \* cores per process (resInfo.nstreams)
          RetryLimit, \* conf.process_restart_limit
          NoRun, NoRes, NoCore

Groups == {g \in SUBSET Cores : Cardinality(g) = NStreams}
Res == Runs \X Groups

ASSUME StateAssumption ==
  /\ IsFiniteSet(Cores)
  /\ NStreams \in Nat \ {0}
  /\ RetryLimit \in Nat
  /\ NoRun \notin Runs
  /\ NoRes \notin Res
  /\ NoCore \notin Cores

VARIABLES
  where,   \* directory of each core file, "gone" when it does not exist
  events,  \* IN_MOVED_TO events the ResourceRanger has not taken yet
  cmds,    \* IN_CREATE events the RunRanger has not taken yet
  lock,    \* who holds resource_lock across steps
  rr,      \* the ResourceRanger's handler: pc, its event, the run it read
  cr,      \* the RunRanger's handler: pc, its run, what is left to visit
  runs,    \* RunList.runs
  run,     \* per run: flags, marker files, resource lists
  we,      \* per run: the WaitForEnd thread
  sh,      \* per run: Shutdown
  res,     \* per OnlineResource: process, watchdog thread, Stop flags
  qlist,   \* ResInfo.q_list
  cpuchg   \* StateInfo.os_cpuconfig_change

fuVars == <<where, events, cmds, lock, rr, cr, runs, run, we, sh, res, qlist, cpuchg>>

-----------------------------------------------------------------------------
(* Types *)

Watched == {"idle", "except", "quarantined"}
Dirs == Watched \union {"online", "gone"}
Event == [core : Cores, dir : Watched]
Command == [op : {"run", "end", "quarantined", "herod"}, run : Runs]
           \union [op : {"herod", "update"}, run : {NoRun}]
Marker == {"none", "new", "active", "stopping", "complete",
           "aborted", "abortcomplete", "gone"}
RunState == [ongoing : BOOLEAN, pending : BOOLEAN, marker : Marker,
             endfile : BOOLEAN, qfile : BOOLEAN,
             online : SUBSET Groups, joinl : SUBSET Groups]
RangerState == [pc : {"wait", "stop", "join", "acquire", "start", "rejoin"},
                core : Cores \union {NoCore}, dir : Watched, run : Runs \union {NoRun},
                res : Res \union {NoRes}]
RunnerState == [pc : {"wait", "newrun", "resize", "acquire", "endsleep", "herod",
                      "shutdown", "update", "ujoin", "ulock"},
                run : Runs \union {NoRun}, todo : SUBSET Runs, cur : Runs \union {NoRun},
                visit : SUBSET Groups, stopped : SUBSET Groups, left : Int]
EndState == [pc : {"none", "join", "clear", "tail", "remove", "done"},
             seen : SUBSET SUBSET Cores, cur : SUBSET Cores,
             cut : BOOLEAN, old : SUBSET Groups]
ShutState == [pc : {"none", "begin", "kill", "join", "clear", "reset",
                    "wait", "rmdir", "done"},
              term : SUBSET Groups]

\* Watchdog pcs in which the thread has taken loc_res_lk (Resource.py:392).
Finishing == {"sleep", "toIdle", "toQuar", "rmMark", "mark", "flag",
              "stopwait", "delete", "relIdle", "relQuar", "delist"}
ResState ==
  [obj : BOOLEAN,                                   \* self.process is not None
   proc : {"none", "alive", "ok", "crash", "quit"}, \* the latest Popen
   stray : {"no", "alive", "ended"},  \* the process the watchdog waits for, when
                                      \* a newer Popen has superseded it
   pstate : {"none", "running", "ended"},           \* processstate
   wd : Finishing \union {"none", "watch", "dead"}, \* the watchdog thread
   wdq : BOOLEAN,                                   \* watchdog.quarantined
   stop : BOOLEAN,                                  \* CMSSW_STOP_pid file written
   flags : SUBSET {"remove", "mask", "move_q"},
   retries : 0 .. RetryLimit,
   quar : SUBSET Cores]

NoEnd == [pc |-> "none", seen |-> {}, cur |-> {}, cut |-> FALSE, old |-> {}]
NewRes == [obj |-> FALSE, proc |-> "none", stray |-> "no", pstate |-> "none",
           wd |-> "none", wdq |-> FALSE, stop |-> FALSE, flags |-> {},
           retries |-> 0, quar |-> {}]

StateTypeOK ==
  /\ where \in [Cores -> Dirs]
  /\ events \in Seq(Event)
  /\ cmds \in Seq(Command)
  /\ lock \in {"free", "ranger", "runner"}
  /\ rr \in RangerState
  /\ cr \in RunnerState
  /\ runs \in Seq(Runs)
  /\ run \in [Runs -> RunState]
  /\ we \in [Runs -> EndState]
  /\ sh \in [Runs -> ShutState]
  /\ res \in [Res -> ResState]
  /\ qlist \in SUBSET Cores
  /\ cpuchg \in Int

-----------------------------------------------------------------------------
(* Operations shared by the threads *)

In(dir) == {c \in Cores : where[c] = dir}

\* Every order in which the files of S can be renamed.
Orders(S) == {f \in [1 .. Cardinality(S) -> S] : \A i, j \in DOMAIN f : f[i] = f[j] => i = j}

\* ResInfo.resmove of each file of S; the watched directories report each one.
MoveTo(S, dir) ==
  /\ where' = [c \in Cores |-> IF c \in S THEN dir ELSE where[c]]
  /\ IF dir \in Watched
     THEN \E f \in Orders(S) :
            events' = events \o [i \in 1 .. Cardinality(S) |-> [core |-> f[i], dir |-> dir]]
     ELSE events' = events

Send(op, r) == cmds' = Append(cmds, [op |-> op, run |-> r])

InList(r) == \E i \in DOMAIN runs : runs[i] = r
ActiveRuns == {r \in Runs : InList(r)}
IsLatestRun(r) == runs # <<>> /\ runs[Len(runs)] = r
Without(i) == SubSeq(runs, 1, i - 1) \o SubSeq(runs, i + 1, Len(runs))
RemoveRun(r) ==
  IF InList(r) THEN \E i \in DOMAIN runs : runs[i] = r /\ runs' = Without(i)
  ELSE UNCHANGED runs
\* Mutant of LastOngoingRun: the last run, ongoing or not.
BugLastOngoingRun == IF runs = <<>> THEN NoRun ELSE runs[Len(runs)]
LastOngoingRun ==
  LET last == {i \in DOMAIN runs : /\ run[runs[i]].ongoing
                                   /\ \A j \in (i + 1) .. Len(runs) : ~run[runs[j]].ongoing}
  IN IF last = {} THEN NoRun ELSE runs[CHOOSE i \in last : TRUE]

\* is_ongoing_run of a run is reset when it ends, is cleaned up or shut down.
\* Mutant: the reset is missing.
BugNotOngoing(s) == s
NotOngoing(s) == [s EXCEPT !.ongoing = FALSE]

\* Mutant of ChangeMarker: the marker is not replaced.
BugChangeMarker(old, new) == old
\* changeMarkerMaybe: nothing can be listed or written once the directory is gone.
ChangeMarker(old, new) == IF old = "gone" THEN old ELSE new

\* checkQuarantinedLimit: vacuously true for a run without resources.
QuarantinedLimit(r) ==
  \A g \in run[r].online : res[<<r, g>>].wdq /\ res[<<r, g>>].pstate # "running"

\* Mutant of NoWatchdog: a thread that has ended is still waited for.
BugNoWatchdog(x) == res[x].wd = "none"
\* A watchdog is over, or there is none to join.
NoWatchdog(x) == res[x].wd \in {"none", "dead"}

\* OnlineResource.Stop, with loc_res_lk held: it cannot be while the watchdog has it.
CanStop(x) == res[x].wd \notin Finishing
Running(x) == res[x].pstate = "running" /\ res[x].obj
StopWith(x, fl) ==
  res' = [res EXCEPT ![x].flags = @ \union fl,
                     ![x].stop = @ \/ Running(x)]

\* Mutant of AcquireResource: the resource the run has for g is not reused.
BugAcquireResource(r, g) ==
  /\ MoveTo(g, "online")
  /\ run' = [run EXCEPT ![r].online = @ \union {g}, ![r].joinl = @ \union {g}]
  /\ res' = [res EXCEPT ![<<r, g>>] = NewRes]
  /\ we' = [we EXCEPT ![r].seen = @ \ {g}]
\* Run.AcquireResource: take the files of group g, reuse or create the resource.
AcquireResource(r, g) ==
  /\ MoveTo(g, "online")
  /\ run' = [run EXCEPT ![r].online = @ \union {g}, ![r].joinl = @ \union {g}]
  /\ IF g \in run[r].online THEN UNCHANGED <<res, we>>
     ELSE /\ res' = [res EXCEPT ![<<r, g>>] = NewRes]
          /\ we' = [we EXCEPT ![r].seen = @ \ {g}]

\* Popen in StartNewProcess: the process is replaced, the watchdog is not yet.
Forked(old) ==
  [old EXCEPT !.obj = TRUE, !.proc = "alive", !.flags = {}, !.stop = FALSE,
              !.stray = IF old.wd # "watch" THEN "no"
                        ELSE IF old.proc = "alive" THEN "alive" ELSE "ended"]
\* processstate = 100 and a fresh ProcessWatchdog.
Watch(old) == [old EXCEPT !.pstate = "running", !.wd = "watch", !.wdq = FALSE]
=============================================================================
