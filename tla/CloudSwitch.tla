------------------------------ MODULE CloudSwitch ------------------------------
(***************************************************************************)
(* A filter unit between runs and the cloud: hltd starts, takes commands,  *)
(* ends runs and watches the core files; operators, the BU, the processes  *)
(* and the virtual machines do what they do at any moment.                 *)
(***************************************************************************)
EXTENDS CloudCommands

-----------------------------------------------------------------------------
(* hltd starts *)

\* What the virtual machines and the cores become after two errors of the script:
\* extinguish_cloud is true only if it worked at the first attempt.
Answered == Spend("script") /\ vm' = Stopping
NotAnswered == Spend("script") /\ vm' \in {vm, Stopping}

Begin == /\ flags' = [flags EXCEPT !.cloud = FALSE] /\ CoresToIdle
AsCloud == /\ flags' = [flags EXCEPT !.cloud = TRUE] /\ CoresToCloud
Then(check1, check2, next) == IF boot = check1 THEN check2 ELSE next

\* cloud_check1_maybe: some cores are still in the cloud directory.
BootInCloud ==
  /\ boot \in {"check1", "recheck1"} /\ In("cloud") # {}
  /\ \/ AsCloud /\ (IF vm = "off" THEN Ignite ELSE UNCHANGED <<vm, spent>>)
     \/ Begin /\ Answered
     \/ AsCloud /\ NotAnswered
  /\ boot' = IF boot = "check1" THEN "mount" ELSE "up"
  /\ UNCHANGED <<cmds, cr, run, listed, shut>>
BootInHlt ==
  /\ boot \in {"check1", "recheck1"} /\ In("cloud") = {}
  /\ Begin
  /\ boot' = IF boot = "check1" THEN "check2" ELSE "recheck2"
  /\ UNCHANGED <<cmds, cr, run, listed, shut, vm, spent>>

\* cloud_check2_maybe: the virtual machines may run although no core says so.
BootCheck ==
  /\ boot \in {"check2", "recheck2"}
  /\ \/ vm = "off" /\ UNCHANGED <<flags, where, events, vm, spent>>
     \/ vm # "off" /\ AsCloud /\ UNCHANGED <<vm, spent>>
     \/ Answered /\ UNCHANGED <<flags, where, events>>
     \/ AsCloud /\ NotAnswered
  /\ boot' = IF boot = "check2" THEN "mount" ELSE "up"
  /\ UNCHANGED <<cmds, cr, run, listed, shut>>

\* The BU disks are mounted; with HLT mode found before, all is checked again.
BootMounted ==
  /\ boot = "mount"
  /\ boot' = IF flags.cloud THEN "up" ELSE "recheck1"
  /\ UNCHANGED <<flags, where, events, cmds, cr, run, listed, shut, vm, spent>>

Boot == BootInCloud \/ BootInHlt \/ BootCheck \/ BootMounted

-----------------------------------------------------------------------------
(* The ResourceRanger *)

InCloud == flags.cloud /\ ~flags.entering /\ ~flags.exiting /\ ~flags.abort /\ ~flags.disabled
Sees(c, dir) == LET e == [core |-> c, dir |-> dir]
                IN Up /\ e \in events /\ events' = events \ {e}

RangerIdle(c) ==
  /\ Sees(c, "idle")
  /\ \/ InCloud /\ Open("include") /\ UNCHANGED <<where, run>>
     \/ /\ ~InCloud /\ where[c] = "idle"
        /\ \E r \in Ongoing :
             /\ \A q \in Ongoing : q <= r
             /\ run' = [run EXCEPT ![r].on = @ \union {c}, ![r].proc = "up"]
        /\ where' = [where EXCEPT ![c] = "online"]
        /\ UNCHANGED cmds
     \/ /\ ~InCloud /\ (where[c] # "idle" \/ Ongoing = {})
        /\ UNCHANGED <<where, run, cmds>>
  /\ UNCHANGED <<flags, cr, listed, shut, vm, boot, spent>>

RangerCloud(c) ==
  /\ Sees(c, "cloud")
  /\ IF ~flags.cloud THEN Open("exclude") ELSE UNCHANGED cmds
  /\ UNCHANGED <<flags, where, cr, run, listed, shut, vm, boot, spent>>

Ranger(c) == RangerIdle(c) \/ RangerCloud(c)

-----------------------------------------------------------------------------
(* What comes from outside *)

Announce ==
  /\ Up /\ Spend("run") /\ spent'["run"] \in Runs
  /\ cmds' = Append(cmds, Cmd("run", spent'["run"]))
  /\ UNCHANGED <<flags, where, events, cr, run, listed, shut, vm, boot>>

\* The end file of a run is written by the BU or by watchdogs.
EndFile(r) == IF run[r].endfile \/ run[r].we # "no" THEN UNCHANGED cmds
              ELSE cmds' = Append(cmds, Cmd("end", r))
BuEnds(r) ==
  /\ r \in listed /\ ~run[r].endfile /\ run[r].we = "no" /\ Spend("end")
  /\ EndFile(r)
  /\ run' = [run EXCEPT ![r].endfile = TRUE]
  /\ UNCHANGED <<flags, where, events, cr, listed, shut, vm, boot>>

ProcessesEnd(r) ==
  /\ run[r].proc = "up"
  /\ EndFile(r)
  /\ run' = [run EXCEPT ![r].proc = "over", ![r].endfile = @ \/ run[r].we = "no"]
  /\ UNCHANGED <<flags, where, events, cr, listed, shut, vm, boot, spent>>

\* All processes of the run crash until their cores are quarantined.
Quarantine(r) ==
  /\ run[r].proc = "up" /\ Spend("quarantine")
  /\ run' = [run EXCEPT ![r].proc = "quar"]
  /\ where' = [c \in Cores |-> IF c \in run[r].on /\ where[c] = "online" THEN "quarantined" ELSE where[c]]
  /\ cmds' = Append(cmds, Cmd("quarantined", r))
  /\ UNCHANGED <<flags, events, cr, listed, shut, vm, boot>>

\* runAnelasticWatchdog
AnelasticDies(r) ==
  /\ r \in listed /\ run[r].ongoing /\ shut[r] = "none" /\ Spend("anelastic")
  /\ StartShutdown({r})
  /\ UNCHANGED <<flags, where, events, cmds, cr, run, listed, vm, boot>>

\* The CGI scripts remove the file and create it again, so there is always an event.
Cgi(op) ==
  /\ Up /\ Spend(op)
  /\ cmds' = Append(cmds, Cmd(op, NoRun))
  /\ UNCHANGED <<flags, where, events, cr, run, listed, shut, vm, boot>>

MoveByHand(c) ==
  /\ where[c] \in {"idle", "cloud"} /\ Spend("byhand")
  /\ MoveTo({c}, IF where[c] = "idle" THEN "cloud" ELSE "idle")
  /\ UNCHANGED <<flags, cmds, cr, run, listed, shut, vm, boot>>

\* Virtual machines are started by hand while hltd waits for the BU disks.
VmByHand ==
  /\ boot = "mount" /\ vm = "off" /\ Spend("byhand")
  /\ vm' = "on"
  /\ UNCHANGED <<flags, where, events, cmds, cr, run, listed, shut, boot>>

VmStopped ==
  /\ vm = "stopping" /\ vm' = "off"
  /\ UNCHANGED <<flags, where, events, cmds, cr, run, listed, shut, boot, spent>>

\* hltd or the machine goes down, perhaps while the core files are being moved.
Crash ==
  /\ Up /\ Spend("crash")
  /\ boot' = "check1"
  /\ vm' \in {vm, "off"}
  /\ \/ UNCHANGED where
     \/ cr.pc = "exruns" /\ \E c \in Cores : where' = [where EXCEPT ![c] = "cloud"]
     \/ cr.pc = "inpoll" /\ \E c \in In("cloud") : where' = [where EXCEPT ![c] = "idle"]
  /\ flags' = Off /\ events' = {} /\ cmds' = <<>> /\ cr' = RunnerIdle
  /\ run' = [r \in Runs |-> Unannounced] /\ listed' = {}
  /\ shut' = [t \in Threads |-> "none"]

-----------------------------------------------------------------------------

Init ==
  /\ flags = Off /\ events = {} /\ cmds = <<>> /\ cr = RunnerIdle
  /\ where \in {[c \in Cores |-> d] : d \in {"idle", "cloud"}}
  /\ run = [r \in Runs |-> Unannounced] /\ listed = {}
  /\ shut = [t \in Threads |-> "none"]
  /\ vm \in {"off", "on"}
  /\ boot = "check1"
  /\ spent = [b \in Bounded |-> 0]

RunRanger == RunCommands \/ Stop \/ Exclude \/ Include
             \/ \E r \in Runs : ShutQuarantined(r) \/ StopRun(r)
Outside ==
  \/ Announce \/ VmByHand \/ VmStopped \/ Crash
  \/ \E r \in Runs : BuEnds(r) \/ ProcessesEnd(r) \/ Quarantine(r) \/ AnelasticDies(r)
  \/ \E op \in {"stop", "exclude", "include"} : Cgi(op)
  \/ \E c \in Cores : MoveByHand(c)
Next ==
  \/ Boot \/ RunRanger \/ Outside
  \/ \E c \in Cores : Ranger(c)
  \/ \E r \in Runs : WaitForEnd(r)
  \/ \E t \in Threads : Shutdown(t)

Spec == Init /\ [][Next]_cloudVars

\* Threads are scheduled, virtual machines that are stopped stop, and processes end
\* when they are asked to or when the run has ended.
FairSpec ==
  /\ Spec
  /\ WF_cloudVars(Boot) /\ WF_cloudVars(RunRanger) /\ WF_cloudVars(VmStopped)
  /\ \A c \in Cores : WF_cloudVars(Ranger(c))
  /\ \A r \in Runs : WF_cloudVars(WaitForEnd(r))
                     /\ WF_cloudVars((run[r].asked \/ run[r].we = "wait") /\ ProcessesEnd(r))
  /\ \A t \in Threads : WF_cloudVars(Shutdown(t))

-----------------------------------------------------------------------------
(* Properties *)

Busy == \E r \in Runs : run[r].proc = "up"

\* While processes of a run compute, no handler gives its cores away behind their back:
\* to the cloud, or to idle (the first lines of move_resources_to_cloud and
\* cleanup_resources take whatever is in online).
CoresOfRuns ==
  \A r \in Runs : run[r].proc = "up" => \A c \in run[r].on : where[c] \notin {"idle", "cloud"}

\* The core files say what the flags say, up to what was moved by hand.
CoresWithMode ==
  Up /\ spent["byhand"] = 0 =>
    /\ flags.cloud /\ ~flags.entering /\ ~flags.exiting => In("cloud") = Cores
    /\ ~flags.cloud => In("cloud") = {}

\* getCloudState
Mode == IF ~Up THEN "down"
        ELSE IF flags.cloud
             THEN IF flags.entering THEN "starting" ELSE IF flags.exiting THEN "stopping" ELSE "on"
             ELSE IF flags.masked THEN "resourcesMasked" ELSE "off"
Promise == INSTANCE MachineMode WITH mode <- Mode, busy <- Busy
\* The commands, threads and restarts implement the modes of a filter unit: the cloud
\* is reported and entered when no process computes, and left when it is gone.
ImplementsMode == Promise!ModeSpec

\* A switch to the cloud ends: in cloud mode, or given up.  It stays open only if the
\* latest run is at its quarantine limit and nothing ends it (RunRanger.py:523-525).
EnteringEnds ==
  (flags.cloud /\ flags.entering) ~> (~flags.entering \/ ~flags.cloud \/ Quarantined # {})
\* Leaving the cloud ends, and so does the stop command.
ExitingEnds == flags.exiting ~> ~flags.exiting
StoppingEnds == flags.disabled ~> ~flags.disabled
=============================================================================
