------------------------------ MODULE CloudState ------------------------------
(***************************************************************************)
(* The state of hltd on a filter unit that the change between runs (HLT    *)
(* mode) and virtual machines (cloud mode) goes through: the flags of      *)
(* StateInfo, the core files, the runs and the external cloud script.      *)
(* A run is seen from outside here: its processes compute, have ended or   *)
(* are all quarantined (FUResources has them one by one).                  *)
(***************************************************************************)
EXTENDS Integers, Sequences, FiniteSets, Functions

CONSTANTS Cores,        \* the core files of the machine
          Runs,         \* 1 .. n, in the order in which the BU announces them
          Bound,        \* bounds on what happens from outside
          MaxTotal,     \* bound on all of it together
          PromptIgnite, \* no include command overtakes an ignition already decided
          NoRun, Fg

Bounded == {"run", "end", "stop", "exclude", "include", "byhand", "quarantine", "anelastic",
            "script", "unwritable", "crash"}
ASSUME CloudAssumption ==
  /\ IsFiniteSet(Cores)
  /\ IsFiniteSet(Runs) /\ Runs = 1 .. Cardinality(Runs)
  /\ Bound \in [Bounded -> Nat] /\ MaxTotal \in Nat
  /\ PromptIgnite \in BOOLEAN
  /\ NoRun \notin Runs /\ Fg \notin Runs

VARIABLES
  flags,  \* StateInfo
  where,  \* directory of each core file
  events, \* core files whose IN_MOVED_TO the ResourceRanger has not seen
  cmds,   \* command files that the RunRanger has not handled
  cr,     \* the RunRanger
  run,    \* the runs
  listed, \* RunList.runs
  shut,   \* Shutdown: a thread of each run, and the RunRanger's own calls (Fg)
  vm,     \* virtual machines, of which the cloud script tells
  boot,   \* the main thread, which starts hltd
  spent   \* how much of each bound has been used
cloudVars == <<flags, where, events, cmds, cr, run, listed, shut, vm, boot, spent>>

-----------------------------------------------------------------------------
(* Types *)

Dirs == {"idle", "online", "quarantined", "cloud"}
Flags == [cloud : BOOLEAN, entering : BOOLEAN, exiting : BOOLEAN, abort : BOOLEAN,
          disabled : BOOLEAN, masked : BOOLEAN]
Event == [core : Cores, dir : {"idle", "cloud"}]
Command == [op : {"run", "end", "quarantined"}, run : Runs]
           \union [op : {"stop", "exclude", "include"}, run : {NoRun}]
RunState == [proc : {"none", "up", "over", "quar"}, \* its processes
             ongoing : BOOLEAN, pending : BOOLEAN,  \* is_ongoing_run, pending_shutdown
             on : SUBSET Cores,                     \* cores of online_resource_list
             asked : BOOLEAN,                       \* CMSSW_STOP is there
             endfile : BOOLEAN,
             we : {"no", "wait", "tail", "ignite", "done"}] \* WaitForEnd
RunnerState == [pc : {"idle", "start", "stmask", "stop", "exset", "exquar", "exruns", "exignite",
                      "inlock", "instop", "inpoll", "inend"},
                cur : Runs \union {NoRun}, \* the run being started or shut down
                q : SUBSET Runs, todo : SUBSET Runs,
                requested : BOOLEAN, retried : BOOLEAN]
Threads == Runs \union {Fg}

Off == [cloud |-> FALSE, entering |-> FALSE, exiting |-> FALSE, abort |-> FALSE,
        disabled |-> FALSE, masked |-> FALSE]
Unannounced == [proc |-> "none", ongoing |-> FALSE, pending |-> FALSE, on |-> {},
                asked |-> FALSE, endfile |-> FALSE, we |-> "no"]
RunnerIdle == [pc |-> "idle", cur |-> NoRun, q |-> {}, todo |-> {},
               requested |-> FALSE, retried |-> FALSE]

CloudTypeOK ==
  /\ flags \in Flags
  /\ where \in [Cores -> Dirs]
  /\ events \in SUBSET Event
  /\ cmds \in Seq(Command)
  /\ cr \in RunnerState
  /\ run \in [Runs -> RunState]
  /\ listed \in SUBSET Runs
  /\ shut \in [Threads -> {"none", "kill", "clear", "remove", "check", "ignite"}]
  /\ vm \in {"off", "on", "stopping"}
  /\ boot \in {"check1", "check2", "mount", "recheck1", "recheck2", "up"}
  /\ spent \in [Bounded -> Nat]

-----------------------------------------------------------------------------
(* Operations *)

Spend(b) == /\ spent[b] < Bound[b]
            /\ FoldFunction(+, 0, spent) < MaxTotal
            /\ spent' = [spent EXCEPT ![b] = @ + 1]
Up == boot = "up"
In(dir) == {c \in Cores : where[c] = dir}

\* The ResourceRanger watches idle and cloud; it runs when hltd has started.
MoveTo(S, dir) ==
  /\ where' = [c \in Cores |-> IF c \in S THEN dir ELSE where[c]]
  /\ events' = IF Up THEN events \union {[core |-> c, dir |-> dir] : c \in S \ In(dir)}
               ELSE events
\* move_resources_to_cloud and cleanup_resources
CoresToCloud == MoveTo(Cores, "cloud")
\* Mutant of CoresToIdle: the cloud directory is forgotten.
BugCoresToIdle == MoveTo(In("online"), "idle")
CoresToIdle == MoveTo(Cores, "idle")

Cmd(op, r) == [op |-> op, run |-> r]
Ongoing == {r \in listed : run[r].ongoing}
Quarantined == {r \in listed : run[r].pending}
IsLatest(r) == \A q \in listed : q <= r
\* checkQuarantinedLimit, which a run without resources passes
QuarantinedLimit(r) == run[r].on = {} \/ run[r].proc = "quar"

\* ignite_cloud and extinguish_cloud: the script does what it is asked or fails, and
\* no caller looks at the difference.
Stopping == IF vm = "on" THEN "stopping" ELSE vm
Ignite == \/ vm' = "on" /\ UNCHANGED spent
          \/ Spend("script") /\ UNCHANGED vm
Extinguish == \/ vm' = Stopping /\ UNCHANGED spent
              \/ Spend("script") /\ UNCHANGED vm
=============================================================================
