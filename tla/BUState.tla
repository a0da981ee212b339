------------------------------- MODULE BUState -------------------------------
(***************************************************************************)
(* The state of hltd on a builder unit (BU), which announces runs to its   *)
(* filter units (FUs) and watches them by the box files they write, and as *)
(* much of the filter units as it can see: the runs they have been given,  *)
(* the runs they work on, and whether they answer.                         *)
(***************************************************************************)
EXTENDS Integers, Sequences, FiniteSets

CONSTANTS FUs,       \* the filter units
          Faulty,    \* those that hang, crash, move to the cloud or have no box at first
          Runs,      \* 1 .. n, in the order in which they are taken
          Lists,     \* blacklists and whitelists a run may come with
          Attempts,  \* attempts of NotifyNewRun
          Weight,    \* how much of MaxTotal each event from outside uses
          MaxTotal,
          NoRun, NoFU, Herod

Bounded == {"stuck", "crash", "drop", "lost", "herod", "cloud", "remove", "torn", "slow", "run"}
FUList == [black : SUBSET FUs, hasWhite : BOOLEAN, white : SUBSET FUs]
ASSUME BUAssumption ==
  /\ IsFiniteSet(FUs) /\ Faulty \subseteq FUs
  /\ IsFiniteSet(Runs) /\ Runs = 1 .. Cardinality(Runs)
  /\ Lists \subseteq FUList
  /\ Attempts \in Nat \ {0}
  /\ Weight \in [Bounded -> Nat \ {0}] /\ MaxTotal \in Nat
  /\ NoRun \notin Runs /\ NoFU \notin FUs /\ Herod \notin Runs

VARIABLES
  dir,     \* the run directories in the ramdisk
  cmds,    \* command files that the RunRanger has not handled
  ru,      \* the RunRanger
  lists,   \* BoxInfo.machine_blacklist, has_whitelist, machine_whitelist
  listed,  \* RunList.runs, in the order of their numbers
  run,     \* the runs and their threads
  calls,   \* calls of NotifyNewRun in progress
  rr,      \* the ResourceRanger
  created, \* FUs whose new box file it has not seen
  map,     \* BoxInfo.FUMap
  box,     \* FUs that have a box file
  fu,      \* the filter units
  flight,  \* requests that a filter unit which hangs has accepted
  known,   \* history: what is said about runs that are complete, and repeated starts
  spent    \* how much of MaxTotal has been used
buVars == <<dir, cmds, ru, lists, listed, run, calls, rr, created, map, box, fu,
            flight, known, spent>>

-----------------------------------------------------------------------------
(* Types *)

RunnerState == [pc : {"idle", "start", "herod", "join"}, cur : Runs \union {NoRun},
                todo : SUBSET Runs]
RunState == [joined : SUBSET FUs,    \* online_resource_list
             pending : SUBSET FUs,   \* pending_contact
             async : {"none", "wait", "contact", "over"}, \* AsyncContact
             todo : SUBSET FUs,      \* the copy of the list that it goes through
             checker : {"none", "eor", "stop", "poll", "remove", "over"}]
Call == [by : {"start", "async", "box"}, run : Runs, to : FUs, left : 1 .. Attempts]
RangerState == [pc : {"idle", "lock", "call"}, to : FUs \union {NoFU},
                override : BOOLEAN, late : BOOLEAN]
Report == [known : BOOLEAN, ok : BOOLEAN, old : BOOLEAN, runs : SUBSET Runs, cloud : BOOLEAN]
UnitState == [st : {"up", "stuck", "down"}, cloud : BOOLEAN,
              work : SUBSET Runs]                    \* its RunList

RunnerIdle == [pc |-> "idle", cur |-> NoRun, todo |-> {}]
RangerIdle == [pc |-> "idle", to |-> NoFU, override |-> FALSE, late |-> FALSE]
NewRun == [joined |-> {}, pending |-> {}, async |-> "none", todo |-> {},
           checker |-> "none"]
NoReport == [known |-> FALSE, ok |-> FALSE, old |-> FALSE, runs |-> {}, cloud |-> FALSE]

BUTypeOK ==
  /\ dir \in [Runs -> {"none", "open", "eor", "gone"}]
  /\ cmds \in Seq(Runs \union {Herod})
  /\ ru \in RunnerState
  /\ lists \in FUList
  /\ listed \in SUBSET Runs
  /\ run \in [Runs -> RunState]
  /\ calls \in SUBSET Call
  /\ rr \in RangerState
  /\ created \in SUBSET FUs
  /\ map \in [FUs -> Report]
  /\ box \in SUBSET FUs
  /\ fu \in [FUs -> UnitState]
  /\ flight \in SUBSET (FUs \X Runs)
  /\ known \in [complete : SUBSET Runs, excused : SUBSET (FUs \X Runs),
                unlisted : SUBSET Runs, ran : SUBSET (FUs \X Runs), again : SUBSET (FUs \X Runs)]
  /\ spent \in 0 .. MaxTotal

-----------------------------------------------------------------------------
(* Operations *)

Spend(b) == spent + Weight[b] <= MaxTotal /\ spent' = spent + Weight[b]
Up(f) == fu[f].st = "up"
\* Whether f is to take no part in runs of this BU.
Barred(l, f) == f \in l.black \/ (l.hasWhite /\ f \notin l.white)

\* resource_lock is held across steps only while a run is started.
LockFree == ru.pc # "start"
\* getLastRun; runs are added in their order.
IsLastRun(r) == r \in listed /\ \A q \in listed : q <= r
Over(r) == dir[r] \in {"eor", "gone"}

\* start_cgi creates the run directory unless it is there, and the RunRanger of the unit,
\* which takes its commands in their order, starts the run; in cloud mode, or without the
\* directory on the BU, the run is given up.
WithStart(f, r) == IF fu[f].cloud \/ dir[r] = "gone" THEN fu
                   ELSE [fu EXCEPT ![f].work = @ \union {r}]
\* The history, with the runs that units have now.
Noted(k) == [k EXCEPT !.ran = @ \union {p \in FUs \X Runs : p[2] \in fu'[p[1]].work}]
=============================================================================
