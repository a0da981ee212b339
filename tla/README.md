# Formal models of hltd

hltd is the daemon that runs on every machine of the CMS high-level trigger. On a
*filter unit* (FU) it starts one `cmsRun` process per group of CPU cores when a
run is announced, restarts processes that crash, takes cores out of use, ends
runs and cleans up. On a *builder unit* (BU) it announces runs to its filter
units and watches them. This directory holds TLA+ models of that program, the
TLC configurations that check them, and proofs checked by TLAPS. All source
references are to `src/` of the repository; the code is Python 3. Four parts are
modelled, each by a group of modules of its own: the processes and cores of a filter
unit (`FUResources`), its switch between runs and virtual machines (`CloudSwitch`), the
script that counts events per lumisection (`LumiSections`), and the builder unit with
its filter units (`BURun`).

## 1. The system

### 1.1 Inventory

| Part | Source | State it keeps | Operations | Talks to |
|---|---|---|---|---|
| `ResInfo` | `python/hltd.py:53-229` | directories `idle`, `online`, `except`, `quarantined`, `cloud` with one file per core; `q_list`; core counts | `resmove`, `addResources`, `updateIdles`, `move_resources_to_cloud` | everything below; each rename into a watched directory is an event for the ResourceRanger |
| `StateInfo` | `python/hltd.py:231-327` | cloud flags, `os_cpuconfig_change`, `disabled_resource_allocation` | `ignite_cloud`, `extinguish_cloud`, `cloud_status` | RunRanger, Run, SystemMonitor |
| `ResourceRanger` | `python/ResourceRanger.py` | event queue; on a BU the box information | `process_IN_MOVED_TO` (a core became available, broke or was quarantined), box files | RunList, Run, OnlineResource; lock `resource_lock` |
| `RunRanger` | `python/RunRanger.py` | event queue of command files | `run`, `end`, `herod`/`tsunami`/`brutus`, `quarantined`, `resourceupdate`, `stop`, `exclude`, `include`, `suspend`, `harakiri`, `restart`, BU variants | Run, ResInfo, MountManager, other hosts |
| `RunList`, `Run` | `python/Run.py` | list of runs; per run `is_ongoing_run`, `pending_shutdown`, `online_resource_list`, `online_resource_list_join`, marker file | `AcquireResource(s)`, `Start`, `StartWaitForEnd`, `WaitForEnd`, `Shutdown`, `AsyncContact`, `runCompletedChecker` | one thread per ending run, one per shutdown |
| `OnlineResource`, `ProcessWatchdog` | `python/Resource.py` | process, `processstate`, `retry_attempts`, Stop flags, quarantined cores, `loc_res_lk` | `StartNewProcess`, `Stop`, `run` of the watchdog, `NotifyNewRun` | one thread per process; `resource_lock` and `loc_res_lk` |
| `SystemMonitor` | `python/SystemMonitor.py` | number of CPUs, box file | `refreshCPURange`, `getCloudState`, reports | command file `resourceupdate` |
| `MountManager` | `python/MountManager.py` | mount points | `cleanup_mountpoints` | suspend command |
| `anelastic.py` | `python/anelastic.py`, `aUtils.py` | per lumisection: open streams, EoLS, event counts | `process`, `processStreamFile`, `processCRASHFile`, `checkClosure`, merging of DQM histograms | separate program per run, started by Run |
| CGI scripts | `cgi/` | none | create command files and run directories | RunRanger |
| Elasticsearch, logs, setup | `elastic*.py`, `mappings.py`, `logcollector.py`, `setupmachine.py`, ... | documents, log positions | reporting, one-shot set-up | databases |

### 1.2 What is hard

The threads of one FU are the ResourceRanger, the RunRanger, one watchdog per
process, one `WaitForEnd` per ending run and one `Shutdown` per run that is
cleaned up. They share the core files, the run list and the resource objects.
Two locks exist. `resource_lock` protects the core files and the list, but a
handler gives it up while it joins a watchdog, and several writers ignore it.
`loc_res_lk` of a resource is held by its watchdog from the end of the process to
the end of the thread, including sleeps and waits for files. Everything else is
ordering: events queue up while the state they report changes, a run can end while
a process of it is being restarted, a crashed process competes with the end of its
run, and a cleanup can come at any moment.

The cloud adds flags that four parties set (`stop`, `exclude`, `include`, the end of the
last run): each decides under the lock and acts after giving it up, core files moved by
hand or left from before a crash become commands of their own, and the virtual machines
come and go on their own time.

On a BU one thread per filter unit calls it when a run starts, another goes on calling
those that did not answer, the ResourceRanger attaches units whose box file appears
later, a checker decides from box files alone that a run has been processed, and a herod
command ends everything. Units hang, execute a request after the caller has given it up,
crash, and go to the cloud.

anelastic.py is one program with two threads, but its input is a race: several `cmsRun`
processes write index, stream and EoLS files, hltd writes crash files, and the order of
their events is the order of writing and not of meaning.

What makes the components correct:

* cores: no two processes on one core; no core file forgotten in `online`; broken
  and quarantined cores are taken up again;
* processes: each is watched, found by the end and the shutdown of its run, and
  restarted a bounded number of times;
* runs: announced, started and ended once and in this order; the end is never
  lost; an ending run leaves the list;
* locks: always released, on every path out of a handler, and no circular wait;
* cloud: a machine computes runs or runs virtual machines, never both; the mode it
  reports is true; every switch ends;
* lumisections: for each stream one entry, once, that accounts for every event as
  processed or lost; nothing stays open;
* BU: a run is called complete when no unit works on it; units on the blacklist stay
  out; no unit starts a run twice unless it was asked twice; units that did not answer
  are called again; herod reaches everyone in the end;
* numbers (planned): the core files agree with the number of CPUs after any
  sequence of updates.

## 2. Modules

| Module | Models | Lines |
|---|---|---|
| `FUState` | shared state of a filter unit, operations that several threads call | `hltd.py`, `Run.py`, `Resource.py` |
| `FUWatchdog` | `ProcessWatchdog.run` | `Resource.py:388-565` |
| `FUResourceRanger` | `process_IN_MOVED_TO` and `StartNewProcess` | `ResourceRanger.py:50-254`, `Resource.py:151-254` |
| `FURunEnd` | `WaitForEnd` and `Shutdown` | `Run.py:725-863, 946-1077` |
| `FURunRanger` | commands `run`, `end`, `quarantined`, `herod`, `resourceupdate` | `RunRanger.py`, `Run.py:441-630` |
| `FUResources` | the composition, the processes, BU and operators; the properties | `hltd.py:388-680`, `cgi/` |
| `CoreLease` | abstract specification: cores are leased to runs | (promise of the above) |
| `MCFUResources` | constants, symmetry and two bounds for TLC | |
| `MachineMode` | abstract specification: runs or virtual machines | (promise of the next four) |
| `CloudState` | flags, core files and runs of a FU seen from the cloud switch | `hltd.py:94-327` |
| `CloudRuns` | the ends of runs as far as they decide about the cloud | `Run.py:725-1054` |
| `CloudCommands` | `stop`, `exclude`, `include`, and what `run`, `end` do to the flags | `RunRanger.py:229-848` |
| `CloudSwitch` | start of hltd, the ResourceRanger's cloud branches, crash, environment; properties | `hltd.py:388-536`, `ResourceRanger.py:110-243` |
| `MCCloudSwitch` | bounds | |
| `LumiLedger` | abstract specification: one entry per stream, all events accounted | (promise of the next three) |
| `LumiState` | files, events and variables of the script | `anelastic.py`, `aUtils.py` |
| `LumiHandler` | `LumiSectionHandler` and the DQM merger | `anelastic.py:560-1155` |
| `LumiSectionRanger` | the main loop | `anelastic.py:80-560` |
| `LumiSections` | the composition with processes, BU and hltd; properties | |
| `MCLumiSections` | bounds, symmetry | |
| `BUState` | state of a BU and its units | `Run.py`, `hltd.py:44-51` |
| `BUContact` | `NotifyNewRun`, `AsyncContact`, box files, late boxes | `Resource.py:70-116`, `Run.py:632-670, 901-943`, `ResourceRanger.py:256-369` |
| `BURun` | new runs, herod, completion checker, the filter units; properties | `RunRanger.py:294-310, 420-483`, `Run.py:441-619, 877-899, 1126-1168` |
| `MCBURun` | bounds and lists | |
| `FUResources_proofs` | type correctness, lock ownership, and the course of a run | |
| `FULease_proofs` | cores, processes, the lease and the end of runs, as long as what breaks them has not happened | |
| `BURun_proofs` | types on the BU; complete runs, lists and single starts | |
| `CloudSwitch_proofs` | types of the switch and the cores of runs | |
| `LumiCourse_proofs` | types of the script, the order of its events, the list of waiting EoLS files | |
| `LumiSections_proofs` | the account of the events of a lumisection | |
| `LumiErrors_proofs` | the files of each process, and what is in the error stream | |
| `LumiEvents_proofs` | which events are processed and which are lost; that every lumisection is closed | |

### 2.1 State of FUResources

`where[c]` is the directory of core file `c`; `"gone"` means that the CPU is not
part of the machine now. `events` and `cmds` are the inotify queues of the two
rangers. `rr` and `cr` are their handlers: a program counter and the local
variables that live across a step. `runs` is `RunList.runs`; `run[r]` has the
flags, the marker file of the run directory, the end and quarantined files and the
two resource lists of the run; `we[r]` and `sh[r]` are the threads `WaitForEnd` and
`Shutdown`. An `OnlineResource` is named by its run and its group of cores;
`res[x]` has the process, `processstate` (`pstate`), the watchdog thread (`wd`),
the flags of `Stop`, `retry_attempts` and the quarantined cores. `lock` is the
holder of `resource_lock` across steps. `loc_res_lk` is not a variable: the
watchdog holds it exactly while `wd` is in `Finishing`, all others take and
release it within one step, so `CanStop` is its guard.

### 2.2 Steps of FUResources

An action is what a thread does between two points where another thread can come
in: taking a lock, waiting, sleeping, joining, or touching a file or field that
others use without a lock. A block under `resource_lock` with no such point is one
action guarded by `lock = "free"`; a block that gives the lock up or waits inside
is split, and `lock` names its holder meanwhile. Names of actions begin with the
thread (`Watchdog...`, `Ranger...`, `WaitForEnd...`, `Shutdown...`) or are the name
of the command (`NewRunCmd`, `EndRunCmd`, ...).

Particulars that matter for the races and are in the model:

* The order of files in an event queue is any order in which a group can be moved.
* `StartNewProcess` replaces the process before it joins the old watchdog. The
  process the old watchdog waits for is then `stray`, and the return code it reads
  is that of the object `self.process` refers to by then (`ReturnCode`).
* `WaitForEnd` iterates over the list object it began with, which `Shutdown`
  replaces (`JoinList`, field `cut`).
* `clearQuarantined` stops at the first core it cannot move (`Restorable`).
* `checkQuarantinedLimit` is true for a run without resources.
* `newRunCmd` takes `os_cpuconfig_change` and writes the rest back in two steps
  (`NewRunTakeChange`, `NewRunResize`), so a change of CPUs in between is overwritten.
* When the run directory is gone, markers can be neither listed nor written; the
  exception ends the thread that tried.
* `RangerJoinTimeout` does not kill: the log line before `terminate()` raises
  (`ResourceRanger.py:90`). `UpdateJoinTimeout` does kill.

### 2.3 Abstractions of FUResources

* Cloud mode is off; the role is FU; `dynamic_resources` is on; DQM mode is off;
  run directories are deleted; `resource_use_fraction` is 1.
* `anelastic.py` and `elastic.py`, which the end of a run waits for, end.
* Statistics (`n_used`, `num_errors`), logging and the box file are left out.
* The return code is 0, one of the codes that exclude a restart, or another.
  Which exit codes clear quarantined cores automatically is a free choice
  (`restore` in `ShutdownClear`).
* `ShutdownKill` goes through the resources in one step. `NewRunStart` is one step
  because the lock is held from the acquisition to the last `Popen` and no watchdog
  exists that could make it wait.
* A run number is announced once and its end is notified once from outside
  (`start_cgi.py` refuses a directory that exists; `NotifyEnd` needs the end file to
  be absent). Watchdogs may write the end file again when it has disappeared.
* A run has one `WaitForEnd` and one `Shutdown` thread. If two threads shut down the same run, the
  second is taken to wait for the first. The `Shutdown` that `anelasticWatchdog` calls when the
  script has died (`Run.py:1087-1098`) is only in `CloudSwitch` (`AnelasticDies`).
* The input directory of a run that is announced exists: `NewRunCmd` leaves out that the run directory
  is removed and the command dropped when it does not (`RunRanger.py:288-292`).
* The watchdog forgets its process and counts the restart (`Resource.py:495-496`) in the step in which it
  then takes the lock and moves the cores; between the two it does nothing that others wait for.
* A `join` may give up at any time before the watchdog is over.
* A watchdog that is `None` counts as joined. In the code the attempt raises, and
  `waitResourceOnLocked` then continues without the lock (listed as a hazard).
* `SettleDelay` says whether the .1 s sleep in `endRunCmd` outlasts a start that is
  in progress. Runs that ask other questions assume it does; `byhand` and
  `end_race` do not.

### 2.4 CloudSwitch

`flags` is `StateInfo` (`cloud_mode`, `entering_cloud_mode`, `exiting_cloud_mode`,
`abort_cloud_mode`, `disabled_resource_allocation`, `masked_resources`), `where[c]` the
core files, `run[r]` a run with its processes taken together and its `WaitForEnd`
(`we`), `vm` the virtual machines, and the RunRanger, the ResourceRanger and each
`Shutdown` thread have a program counter. The commands are split where they give the
lock up, wait or call the cloud script; `move_resources_to_cloud` and `cleanup_resources`
take whatever is in `online` by then.

Abstractions: a run is seen from outside (its processes compute, end, are quarantined);
the watchdogs give all cores of a run back at `EndClear`; `idle` stands for `except` too;
the events of the ResourceRanger are taken in any order; `excludenow` and `stopnow` are
`exclude` and `stop`, since runs may end at any moment; `stop<run>` is left out. What asks a run to stop is a file in its directory.
If it cannot be written the exception ends `stop` (`StopFail`), while `exclude` resets the two
flags it had set and has moved no core (`ExcludeFail`). `stop` disables the allocation of cores with the
lock held, and without it sets `masked_resources` and makes all runs no longer ongoing (`StopCmd`,
`StopMask`). A crash
ends hltd and the processes, with the core files where they are. `VmByHand` happens only
while the BU disks are mounted, which is what the second check of `cloud_check2_maybe` is
for. `PromptIgnite` says that a thread that has decided to ignite does so before the next
command is handled; see 3.2 for what happens otherwise.

### 2.5 LumiSections

`queue` is the event queue of the script, `queued` and `seen` the lists of EoLS numbers,
`main` the loop with its buffer and countdown, `lumi[l]` a `LumiSectionHandler` with an
account per process (`pid`) and per stream (`out`), `ledger[l][s]` the stream JSON with
which a stream was closed, `errors[l]` the error stream, `dqm` the merging
thread. `proc[p]`, `grab`, `valid`, `torn` are the processes and what their files say.
The handling of one event is one step: only one thread does it, and the merging thread
shares a queue with it.

Abstractions: the processes and the BU are external and written from what the script
expects of their files; an index file is written with the file lock held, so it comes
with the reading of the raw file; one raw file holds one event; INI files are there
before; two EoLS events of one number are told apart at the moment of creation, as
`checkNewLumi` does; `flushBuffer` puts the buffer back at the head of the queue; a
restarted process is a new pid. "processing" is announced with the first index or never.
The contents of data files, their copying and checksums, and documents for Elasticsearch
are left out.

What may fail when a stream is closed:

* The histograms of some processes may be missing when they are to be merged. `mergeDQM` then loses
  the events of these and keeps the others (`aUtils.py:905-923`), and all are lost if the merging itself
  fails or there is nothing to merge. It reads the counts before it calls `fastHadd` and sets them
  when that is over: `DqmTake` chooses which inputs are kept, `DqmDone` sets the counts.
* Any other stream is lost as a whole (`fail` in `CheckClosure`): the checksum differs
  (`anelastic.py:1065-1078`), merging the data fails (1113-1123), or the JSON cannot be moved (1125-1128).
  In the last case the output directory has no JSON of the stream; the account is only in the copy
  for the monitoring (`esCopy`), which is made in any case. `ledger` has it.
* That a data file could not be moved is not noticed unless it has a checksum: the status in line 1061 is
  used for nothing else, and the JSON goes on saying that the events were processed. So the
  properties are about what the account says, and it says nothing of whether the data arrived.

### 2.6 BURun

`dir[r]` is the run directory in the ramdisk with its EoR file, `cmds` and `ru` the
RunRanger, `lists` the blacklist and whitelist in `BoxInfo`, `listed` the RunList, `run[r]`
a run with `online_resource_list` (`joined`), `pending_contact`, the `AsyncContact` thread
(`async`, with the copy it goes through in `todo`) and the completion checker. `calls` are
the calls of `NotifyNewRun` in progress with the attempts left; their results go where the
caller puts them (`Finished`). `rr` and `created` are the ResourceRanger and its events,
`map` is `BoxInfo.FUMap`, `box` the box files. `resource_lock` is held across steps
only from `NewRunCmd` to `Started`; `LockFree` is the guard of the others.

A filter unit is what the BU sees of it: `up`, `stuck` (accepts requests and executes them
when it recovers, `flight`) or `down`, in the cloud or not, with a list of runs. Its
RunRanger takes its commands in their order, so a request takes effect when it is
executed. An attempt that gets no answer may have been executed or not. The contents of
a box file are read when the ResourceRanger takes the event. `known` is history: runs that
were called complete, units that were asked more than once, and the exceptions below.

`Settled` is an assumption on time: between two polls of the checker, which are five
seconds apart, units that are up have written their boxes and the ResourceRanger has read
them, unless it waits for `resource_lock`. Without it a run could be called complete
before a unit that has just been called shows it.

Left out: `NotifyRemoveBox`, the cached IP address, `detectedStaleHandle` (a unit whose
file system hangs counts as stuck), lists that change while a run goes on, a herod for
one run, DQM runs, elasticbu, a restart of the BU.

### 2.7 Bounds

`FUResources`: `MaxCrash`, `MaxMove`, `MaxTimeout`, `MaxHerod` and `MaxCpu` bound what comes
from outside; `spent` counts. `CloudSwitch`: `Bound` per kind of event and `MaxTotal`.
`LumiSections`: `Max` per kind of fault and for raw files and the queue; besides crashes
one kind of fault in a run. `BURun`: each event from outside has a `Weight` and
`MaxTotal` limits their sum; `Faulty` are the units that faults happen to. All of them are guards of the
environment's actions only: no thread is ever held back by them.
`MCbyhand.cfg` and `MCowner.cfg` have two further action constraints,
both defined in `MCFUResources`: `OneObjectPerGroup` (a new resource object for a
run and group appears only after the watchdog of a dropped one is over, because an
object is named by run and group) and `OneWaitForEnd` (a second `WaitForEnd` thread of
a run starts only after the first, because a run has one such thread in the model).
No other run reaches the situations they exclude.

## 3. Runs

The first five and the four violations are about `FUResources`, then one run for each of the other
systems.

| Run | Instance | Checks | States |
|---|---|---|---|
| `retry` | 2 cores, 2 runs, 1 crash, symmetric | `TypeOK`, `OneProcessPerCore`, `ProcessWatched`, `CoreAccounted`, `ProcessReachable`, `RetriesKept`, `ImplementsLease` | 258 000 |
| `quarantine` | 2 cores, 1 run, 2 crashes, fair | `OngoingListed`, `QuarantineKept`, `EndingRunLeaves`, `HandlersReturn`, `BrokenCoreTaken` | 14 000 |
| `update` | 4 cores, 2 per process, 1 crash, 1 timeout, 1 change of CPUs | `ProcessReachable`, `CoreAccounted` | 35 000 |
| `cleanup` | 2 cores, 1 run, 1 crash, 1 herod, fair | `OneProcessPerCore`, `EndNotLost`, `EndingRunLeaves`, `HandlersReturn` | 221 000 |
| `byhand` | 2 cores, 1 run, 1 crash, 2 moves by hand, 1 timeout, no settle delay | `LockOwned`, `RunsInOrder` | 639 000 |
| `cloud` | 1 core, 2 runs, 4 events from outside, of each kind at most 1 (runs and excludes 2), fair | `CloudTypeOK`, `CoresOfRuns`, `CoresWithMode`, `ImplementsMode`, `EnteringEnds`, `ExitingEnds`, `StoppingEnds` | 244 000 |
| `lumis` | 2 lumisections, 2 processes, 2 streams, one of histograms, 2 raw files, queue of 2, 1 crash and 1 other fault, symmetric | `LumiTypeOK`, `EventsAccounted`, `ErrorStreamCovered`, `QueueCounted`, `QuietMeansClosed`, `ImplementsLedger` | 1 057 000 |
| `bu` | 2 filter units, 2 attempts per call; 2 of {hang, lost answer, herod}, or one of {second run, crash, cloud, early end, torn box, removed directory} with a long start; fair | `BUTypeOK`, `CompletionTrue`, `ListsRespected`, `StartedOnce`, `RunLeavesList`, `PendingContacted`, `HerodEnds` | 128 000 |
| `end_race` | as `quarantine`, 1 crash, no settle delay | `EndedRunStaysEnded`: violated | |
| `owner` | 3 cores, 2 per process, 2 runs, 1 crash | `OneProcessPerCore`: violated | |
| `update_deadlock` | 1 core, 1 crash, 1 change of CPUs, fair | `HandlersReturn`: violated | |
| `quarantine_lost` | as `quarantine` | `QuarantinedRunLeaves`: violated | |

Why these sizes are enough for what they ask: two cores give one process that
crashes beside one that does not, two owners of one core over time, and a group
that is partly available when `NStreams` is 2. Two runs give a successor that takes
over cores. With `RetryLimit` 1 a process is restarted after its first crash and
quarantined after its second, or after its first with a code that excludes a
restart. Four cores in `update` are two processes of two cores, so taking one CPU
stops a process and gives a core back.

`cloud` has one core because the cores move together there, and two runs because the
flags are decided by the last of them; four events are enough for exclude, include,
exclude with a run that ends in between. Its safety properties also held in an
exploration with three more kinds of events (1.6 million states). `lumis` has two
lumisections because the script makes up EoLS files for earlier ones, two processes
because one dies beside one that goes on, and a stream of histograms beside a plain one
because they are closed by different threads. `bu` has one unit that fails beside one that
does not; a unit without a box at first is one that appears late. Two events are a lost
answer and a herod that is lost too, or a second run whose start takes long, and so on. Its safety properties also held
with any two of all events (2.8 million states).

Deadlock is not checked in any run: a system whose runs are over and whose bounds are
spent stops.

Every property has a mutant, an operator `Bug...` beside the definition it changes:
a missing reset, a dropped guard, an off-by-one, a forgotten branch.

### 3.1 What the violations show

* `end_race`: the run is ongoing when the ResourceRanger reads it; `endRunCmd` resets
  the flag without `resource_lock`; the process starts while `WaitForEnd` already
  waits for the run's resources. The comment at `RunRanger.py:340-341` speaks of a lock. With a
  sleep that outlasts the start this does not happen (theorem `EndedStaysEnded`).
* `owner`: all resources of the latest run are quarantined, so it is marked
  `pending_shutdown`; then it ends normally. When the next run arrives it is shut down,
  and `Shutdown` moves cores of its resources that the new run already uses from
  `online` to `idle`, where they are taken again.
* `update_deadlock`: a watchdog in its retry sleep holds `loc_res_lk` and will need
  `resource_lock`; `resourceUpdateCmd` holds `resource_lock` and calls `Stop`, which needs
  `loc_res_lk`. With a core moved by hand, `stopResourceMaybe` (`ResourceRanger.py:72`)
  closes the same cycle.
* `quarantine_lost`: the watchdog creates the file `quarantined<run>` before it sets the
  flag that the file announces. A RunRanger that is fast finds the limit not reached.

### 3.2 What does not hold beyond the bounds of a passing run

The bounds of the passing runs are also the limits of what they claim. With moves by
hand, `OneProcessPerCore`, `ProcessWatched`, `CoreAccounted` and `ProcessReachable` fail
(a core whose owner could not be stopped is given away). `EndNotLost` fails too, without the settle delay: a process that
starts late writes the end file again after `WaitForEnd` has removed it, the second end of the run finds
the directory gone, and the end file that stays is never heard. With two changes of CPUs,
`CoreAccounted` and `ProcessReachable` fail, because `maybeReleaseResources` takes the
resource off the list after it has moved the cores. With a herod command during a
restart, `ProcessWatched`, `ProcessReachable` and `ImplementsLease` fail: the process
starts in a run that is shut down at that moment. With two runs and enough crashes to
reach the quarantine limit, `OneProcessPerCore` fails as in `owner`. `retry` therefore has
one crash, which keeps its runs below that limit.

`ImplementsMode` needs `PromptIgnite`. Without it TLC shows a run that ends and decides to
ignite the cloud, an include that is handled before it does, and virtual machines that
start on a machine that is back in HLT mode (`Run.py:1034-1054`). `EnteringEnds`
excepts the latest run at its quarantine limit, which is only marked
(`RunRanger.py:523-525`) and keeps the machine entering cloud mode for ever. Also seen
and not excluded: an abort leaves `entering_cloud_mode` set (`Run.py:980`); an event of a
core moved earlier starts an include or exclude nobody asked for; exclude and the end of
the last run both move the cores; `extinguish_cloud(repeat=True)` returns False when the
second attempt succeeds (`hltd.py:286`).

`CoresWithMode` and `ImplementsMode` also need the bound of `cloud` on commands: with two excludes
and two includes TLC shows virtual machines on cores of a machine in HLT mode. A timeout of
the entering machine clears `abort_cloud_mode` and `cloud_mode` (`Run.py:978-982`) but not
`entering_cloud_mode`; the include that follows sets the abort again
(`RunRanger.py:781-783`), the next exclude finds it and keeps it, and a second timeout clears
`cloud_mode` while that exclude moves the cores without looking at either flag
(`RunRanger.py:750-757`).

`EventsAccounted` and `QuietMeansClosed` except lumisections in which events were counted twice. An
empty stream file counts the events of its process as lost, and if the process then crashes they are
counted again: the account passes the number of events and the lumisection never closes
(`anelastic.py:715`; the comment at 904 sees the case). With a third process, beyond the bounds of
`lumis`, it can also reach that number before another process has delivered: the stream is closed
with the right total, and the events that come then are dropped. `QuietMeansClosed` has another
exception: if the merging thread cannot be started the histograms wait until the countdown at the
end (`anelastic.py:598`).

`CompletionTrue` excepts units that the boxes do not tell of, and for each exception TLC shows
an execution when it is taken out: a unit that hangs or is down (its box is old and skipped),
one that the lists of a later run exclude (`ResourceRanger.py:297` drops its entry), one
that is being called or has accepted a request it has not executed, one whose late box is
attached while the checker, which has just called the run complete, waits for
`resource_lock` (`Run.py:638` asks itself about EoR), and all of them when a start has held
`resource_lock` for 20 s. `ListsRespected` excepts a run without units, because
`maybeNotifyNewRun` looks at the lists only inside its loop over units (`Run.py:644`).
`StartedOnce` excepts requests that were repeated. `PendingContacted` is about units called
by `Start`: one whose late box was attached and whose attempts fail is never tried again.

### 3.3 Fairness

`FairSpec` has weak fairness for each thread (they are Python threads that are always
scheduled) and for the end of each process (the data of a run are finite; `cmsRun` ends
at the end of its input). Weak fairness is enough for a step that waits for
`resource_lock` within the bounds, because the lock is contended only finitely often.
Nothing is assumed of crashes, joins that give up, notifications or people.

In `CloudSwitch` the threads of hltd are fair, the cloud script ends (it is called with a
timeout and its caller polls), and the processes of a run end when they were asked to or
the run waits for them. In `BURun` the threads are fair, and each attempt of a call ends
because the connection has a timeout of ten seconds; units that are up write their box
files, end a run whose data have ended and execute what they accepted, and a box that is not
written gets old. Nothing is assumed of recovery: `PendingContacted` has as a premise that
the units are up again and again. For `LumiSections` only safety is checked.

## 4. Proofs

`FUResources_proofs` proves for every set of cores and runs, every process size, retry
limit and bound:

* `TypeCorrect`: `Spec => []TypeOK`. `TypeOK` alone is not inductive. `retries` is
  incremented by a watchdog in its retry sleep, so the invariant says that such a watchdog
  has a retry left (`RetriesLeft`), and a RunRanger beyond its first step must have a run to work on
  (`RunnerHasRun`).
* `LockCorrect`: `Spec => []LockOwned`. It is inductive together with the types: each
  handler's action changes `lock` and the program counter together, the others change
  neither, and actions that need the lock require it to be free.

On top of these types it proves one inductive invariant
`RunInv == RunsInOrder /\ OngoingListed /\ EndUnderway`, and from it

* `RunsCorrect` (`RunsInOrder`) and `OngoingRunsListed` (`OngoingListed`).

`EndUnderway` is the part of `EndNotLost` that nothing breaks: an end that was asked for and whose command was
handled has at least begun. `RunsInOrder` is what makes the other two inductive. A run leaves the list only by
`WaitForEnd` or `Shutdown`; that it is not ongoing then follows because these threads
exist only after the flag was reset (`EndingInOrder`), and it cannot become ongoing
again because only `NewRunStart` sets the flag, for a run whose marker is still
`new` (`RunnerInOrder`), while every run that ends has been started (`ThreadsInOrder`).
An end file whose command has been handled belongs to a run that was not in the list;
it is removed at once. There is one lemma per action or group of actions; what an
action must not touch is stated once (`QuietStep`, `SameCommands`, `SameRunner`) and cited.

The proofs assume `StateAssumption` (a finite set of cores, a positive process size, and
three null values), `SettleAssumption` and `BoundsAssumption`; TLC evaluates them in every run.

`FULease_proofs` is about cores and the processes they are given to. These properties are not theorems of
`Spec`: section 3.2 lists what breaks them. Each is proved under a condition on what has happened so
far, for every set of cores and runs, process size, retry limit, and any number of all other events.

* `Undisturbed`: nobody has moved a core file by hand, and no run has been shut down (no herod command that
  finds a run, no run given up at its quarantine limit). Processes may crash, joins may give up and the number of
  CPUs may change any number of times.
* `Uncut`: besides, the number of CPUs has not changed.
* `SettleDelay`, except for the first theorem. Run `end_race` shows what happens without it: a process starts in a run
  that ends. `ProcessWatched`, `ProcessReachable`, `CoreAccounted`, `EndNotLost` and `ImplementsLease` fail then, too. For
  `RetriesKept` and `QuarantineKept` TLC has found no counterexample; their proofs rest on the same invariants.

| Theorem | States |
|---|---|
| `OneProcessPerCoreHolds` | `Spec => [](Undisturbed => OneProcessPerCore)` |
| `ProcessWatchedHolds` | `Spec => [](Undisturbed => ProcessWatched)` |
| `EndedStaysEnded` | `Spec /\ []Undisturbed => EndedRunStaysEnded` |
| `LeaseKept` | `Spec /\ []Undisturbed => ImplementsLease` |
| `EndsNotLost` | `Spec => [](Undisturbed => EndNotLost)` |
| `CoreAccountedHolds`, `ProcessReachableHolds` | `Spec => [](Uncut => CoreAccounted)`, the same for `ProcessReachable` |
| `RetriesAreKept`, `QuarantineIsKept` | `Spec /\ []Uncut => RetriesKept`, the same for `QuarantineKept` |

Both conditions are about the past (`spent` only grows and a `Shutdown` thread leaves its mark in `sh`), so once
false they stay false (`UndisturbedBefore`, `UncutBefore`): `[](Undisturbed => P)` says that `P` holds up to the
first disturbance. TLC refutes each property when the condition is dropped: with moves by hand all of them
fail; `EndedRunStaysEnded` and `RetriesKept` also fail after the shutdown of a run at its quarantine limit, and
`RetriesKept` after two changes of CPUs, because the resource is dropped and made anew. Only for `QuarantineKept` has
TLC found nothing that breaks it except moves by hand; its proof needs `Uncut` for the invariant it rests on.

The invariants were checked by TLC on two cores before they were proved:

* `HeldInv`: a resource whose watchdog has yet to move its cores, whose process is alive or that is being started
  holds its cores: they are all in `online`, and no two such resources share one (`OneHolder`). That a
  watchdog moves only what is still in `online` is needed here, and that no process is replaced while its
  watchdog waits for it (`MovesInOrder`).
* `WatchInv`: resources are only started for a run that is listed and has no `WaitForEnd` (`StartsInOrder`), a live
  process has its watchdog or is about to get it, and a watchdog that is not over belongs to a listed run and to its
  list of resources to join (`WatchInOrder`). `WaitForEnd` has joined what it has passed, so when it resets the
  lists no watchdog is left (`JoinsInOrder`, lemma `EndFindsAll`). A start that began before the end of its run is over
  before `WaitForEnd` begins: this is the settle delay.
* `GoneInv`: a run is listed once, and until its directory is gone. `runList.remove` takes the first entry only, so a run
  listed twice would never leave (`RemovedOnce`). With it every step is a step of `CoreLease` or stutters; `GetsCores` and
  `GivesBack` are the two ways in which what is lent to a run changes.
* `EndInv`: the end file, its command and `WaitForEnd` come in turn. The file exists exactly while its command waits
  or is being handled, or `WaitForEnd` has yet to remove it; the command is queued once, and `WaitForEnd` has not
  begun while it is (`OneEndCommand`, `EndInTurn`). A watchdog that is not over belongs to a listed run that `WaitForEnd` has not
  passed (`WatchInv`), so it cannot write the file after it was removed, and writes nothing while it exists;
  the run of a waiting command is listed, because it has not been cleaned up (`GoneInv`, lemma `AskedListed`).
* `CoreInv`: without a change of CPUs no watchdog is asked for its cores and no resource is taken off a list
  (`NoUpdate`), so whoever moves a core out of `online` is its holder (`CoreAccounted`). Cores are quarantined by one
  resource only, so what `WaitForEnd` gives back is its own (`Quar`, `ClearsOwn`); a resource its run does not list
  has not been restarted yet (`Fresh`).

For each thread a lemma says once what its steps do to cores and resources (`WatchdogEffect`, `AcquireEffect`,
`StartEffect`, `RunnerEffect`, `BeginEffect`, `ClearEffect`, ...); the invariants are proved from these effects.
Within `Undisturbed` a resource that a change of CPUs has dropped may get a new object while the watchdog of the old one has
steps left. In `Spec` the new object replaces the old one (the bound `OneObjectPerGroup` of section 2 keeps TLC from
there); the theorems hold for that too, but say nothing of the last steps of the old watchdog.

Only model-checked: liveness (`EndingRunLeaves`, `HandlersReturn`, `BrokenCoreTaken`), which the prover does not
handle, and that `CoreAccounted` and `ProcessReachable` survive one change of CPUs (run `update`).

`BURun_proofs` proves for every set of filter units, every number
of runs, all blacklists and whitelists and every number of attempts, from `BUAssumption`:

* `BUTypeCorrect` (`BUTypeOK`). It needs that the ResourceRanger which waits for the lock has
  been given a unit (`RangerHasUnit`), and that an attempt which is not the last leaves one.
* `BUCompletionTrue` (`CompletionTrue`), `BUListsRespected` (`ListsRespected`) and
  `BUStartedOnce` (`StartedOnce`, an action property), from one inductive invariant
  `BUInv == TypeInv /\ CourseInv /\ CallInv /\ CompleteInv /\ ListsRespected`:
  * `CourseInv`: runs are taken in the order in which their directories appear, and nothing
    is kept of a run before (`InOrder`, `TakenFirst`), so the run started last is the
    greatest, as `ListsRespected` says, and `NewRunCmd` meets a run nobody was called about.
  * `CallInv`: only units that take part are called (`CallsInPlace`); a unit not asked once
    more than needed is in a call, in the list of the contact thread or in
    `pending_contact`, never in two of them, and has not had the run (`AskedOnce`).
    That AsyncContact makes one call after the other is needed here.
  * `CompleteInv`: a checker that polls has joined AsyncContact, hence whoever is called about
    a complete run, or holds a request for it, was so at the last poll or has been attached
    since, and is excused. This is the join in `stopAsyncContact` (`Run.py:933-941`).

  `Steps` sorts the actions by who takes them; what a step must not touch is stated once
  for each part (`KeepsCourse`, `KeepsCalls`, `KeepsComplete`) with the lemma that such
  a step keeps it. TLC checked every part of the invariant as an invariant of the instance
  of run `bu`, and with two events of any kind.

`CloudSwitch_proofs` proves for every set of cores and runs, every number of events of each
kind, and with `PromptIgnite` or without:

* `CloudTyped` (`CloudTypeOK`), with the facts on the RunRanger's own variables that
  type correctness needs (`SwitchInv`).
* `CoresStayWithRuns` (`CoresOfRuns`). That no handler gives cores away behind the back of a run
  is not inductive: `exclude`, `stop` and the last `WaitForEnd` move whatever is in `online`. The
  invariant is `CloudInv == SwitchInv /\ RunsOver /\ CoresHeld /\ RunCommandsFresh`. `SwitchInv`
  also says that no run is listed once the switch to the cloud is through or the cloud is
  being left (`CloudEmpty`), and that `excludeCmd` leaves no run which it neither asked to stop nor
  shut down (`NoneForgotten`); a run that is not listed, or that a thread has cleared, has neither
  cores nor a process (`RunsOver`); the cores of a run are online or quarantined and no two runs
  share one (`CoresHeld`); a run is announced once (`RunCommandsFresh`).

`CoresWithMode`, `ImplementsMode` and the liveness properties of `CloudSwitch` stay with TLC. The
first two are not theorems: see 3.2.

`LumiCourse_proofs` proves for every number of lumisections, all finite sets of processes and
streams and all bounds, from `LumiAssumption`:

* `LumiTyped` (`LumiTypeOK`) and `LumisQueued` (`QueueCounted`), from the inductive invariant
  `Course`. It is about the events that wait, those in `initBuffer` followed by those in the queue
  (`Pend`): each is well formed, an EoLS event waits once and its lumisection is in
  `queued`, a file of a lumisection that has ended comes after all its index files
  (`MayPrecede`, `AfterEnd`), before the first EoLS event nothing has been taken (`NotStarted`).
  Every action takes at most the first event and adds others at the end (`Shifted`), so most of a
  step's proof is one lemma on such shifts (`ShiftedEvents`).

`LumiSections_proofs` proves `LedgerKept`: `Spec => ImplementsLedger`, the refinement of
`LumiLedger`. With `Course` the inductive invariant is `Books`: for each lumisection, what
the handler has counted for a process plus the index files of that process that still wait is what
the process has read (`Account`); a stream is open exactly while the ledger has no entry for it
(`Entered`); and an entry exists only if the lumisection is over, no index file of it waits, and it
accounts for all events that were read (`Book`). Counting index files in a queue is the cardinality of a
set of positions (`Hits`), which a step changes by at most one (`HitsShift`).

`LumiErrors_proofs` proves `ErrorsCovered` (`ErrorStreamCovered`). Which events get into the error
stream depends on the order in which the files of a process come and go, so there are two more
invariants:

* `FilesInv` relates the files to their processes: what a process has written for a lumisection
  (`Made`); that each waiting file is true, that the crash file of a process waits behind all its
  other files (`Pending`), and that a stream file waits until it is delivered (`TakenOf`).
* `CoverInv`: the events that the handler has put into the error stream are those of
  processes whose crash file was taken and that have delivered no stream, while the processed
  events of a stream are those of processes that have delivered it. No process is both, so the
  former are lost in every stream (`Covered`, `ErrorsFit`). Events are counted by the cardinality of
  the raw files of a set of processes (`Share`).

`LumiEvents_proofs` proves `EventsKept` (`EventsAccounted`). That the sum is right follows from `Books`;
that the processed part is, from two more invariants, for lumisections in which nothing was counted
twice:

* `EventsInv`: the processed and lost events of an open stream are those of the processes that have
  delivered it or are lost for it (`TalliedIn`); a process is lost when its crash file or its empty file was
  taken (`LostOf`). So if the sum is the number of events, every process that has read events has
  either delivered or is lost, and nobody who has can deliver later: what was written
  stays true while other processes go on writing (`Fixed`, `Told`).
* `MergesInv`: a stream is with the merging thread only after all its events were accounted for, so
  a failed merge, which makes processed events lost, changes no stream that still grows.
* `SumsInv`: the counts that `mergeDQM` has read and not yet set have the sum of the stream's own
  (`ToldInv == EventsInv /\ SumsInv`). They keep the processed events of some of the processes
  that have delivered the histograms, whichever files were missing.

What is proved is therefore what the code can promise: the processed events written for a stream of histograms are all
those of some of the processes that delivered it, and for any other stream those of all of them, or none.

The exception in `EventsAccounted` was found in this proof: an account that passes the number of events,
or reaches it by counting a process twice, breaks `TalliedIn`.

It also proves `QuietCloses` (`QuietMeansClosed`): nothing is forgotten. It needs what is known
at the end of the run, from two more invariants:

* `EndInv`: when hltd has told that the run is complete, the run was not aborted and all processes have ended
  or are reported as crashed (`RunEnded`), no index file comes after the complete file (`LateIndex`), and a
  process that has ended by itself has written every stream of every lumisection it has read events of
  (`Wrote`).
* `RestInv`: after every step, each open lumisection with events and with its EoLS file has an open stream, no
  stream of it is left that could be merged or written at once, and a stream that is being merged is with the
  merging thread, was refused by it, or has come back as an event (`AtRest`); every EoLS file was seen or is
  queued, and after the end of the run none is missing (`EndsKnown`); one stream is merged at a time
  (`OneMerge`).

When nothing waits, every EoLS file was seen, every process that has read events has delivered or is lost
(`QuietDelivered`), so by `EventsInv` all events of an open stream are accounted for (`QuietFull`), and `AtRest`
leaves only a stream that the merging thread refused (`RestCloses`).

The fairness part of `FairSpec` is not used: each theorem is about `Spec`, which `FairSpec`
implies. `RunLeavesList`, `PendingContacted` and `HerodEnds` (liveness) are only model-checked.

## 5. Not modelled, and the plan

What is left, in the order of what can go wrong most:

1. **ResInfoUpdate** (`hltd.py:94-212`, `RunRanger.py:855-948`, `SystemMonitor.py:1090-1105`):
   `addResources` and `updateIdles` over the directories, checked against a reference
   definition; accumulated changes; the command file that is not removed when an update is
   handled before the main thread's `chdir` (`hltd.py:637`, `RunRanger.py:122`); the relation
   between files and CPUs over sequences of updates.
2. **SuspendMount** (`RunRanger.py:531-623`, `MountManager.py:100-200`): umount, failure of
   one of several mount points, remount, the poll of the BU without a limit.
3. In the modelled parts: several `WaitForEnd` threads per run and watchdogs that are `None`
   (`FUResources`), stop of one run (`CloudSwitch`), liveness of the script
   (`LumiSections`, whose million states are too many for it), a restart of the BU, a herod
   for one run and lists that change during a run (`BURun`).
4. Proofs: `CoreAccounted` and `ProcessReachable` across one change of CPUs, and what remains true of cores after the
   shutdown of a run.

Left out for good: Elasticsearch reporting, log collection, set-up scripts, packaging:
they keep no state that run control depends on. `lib/` holds vendored libraries; they are
about three quarters of the lines of the repository. The program itself is some 14 000
lines, of which the reporting and set-up above are more than half.
