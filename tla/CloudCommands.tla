---------------------------- MODULE CloudCommands ----------------------------
(***************************************************************************)
(* The command handlers of the RunRanger that the cloud switch consists of *)
(* or meets: run, end, quarantined, stop, exclude and include.  They run   *)
(* one at a time in the order of the command files.                        *)
(***************************************************************************)
EXTENDS CloudRuns

Comes(op) == Up /\ cr.pc = "idle" /\ cmds # <<>> /\ Head(cmds).op = op
             /\ cmds' = Tail(cmds)
This == Head(cmds).run
Goto(pc) == cr' = [cr EXCEPT !.pc = pc]
Return == cr' = RunnerIdle
Alone == shut[Fg] = "none"

\* A command file is there from its creation until its handler returns.
Handled(op) == \/ op = "exclude" /\ cr.pc \in {"exset", "exquar", "exruns", "exignite"}
               \/ op = "include" /\ cr.pc \in {"inlock", "instop", "inpoll", "inend"}
Exists(op) == Handled(op) \/ \E i \in 1 .. Len(cmds) : cmds[i].op = op
\* Opening a file that exists creates no event.
Open(op) == cmds' = IF Exists(op) THEN cmds ELSE Append(cmds, Cmd(op, NoRun))

-----------------------------------------------------------------------------
(* run, end and quarantined *)

NewRunCmd ==
  /\ Comes("run")
  /\ StartShutdown(Quarantined)
  /\ IF flags.cloud THEN Return /\ UNCHANGED flags
     ELSE cr' = [cr EXCEPT !.pc = "start", !.cur = This]
          /\ flags' = [flags EXCEPT !.masked = FALSE]
  /\ UNCHANGED <<where, events, run, listed, vm, boot, spent>>

NewRunStart ==
  /\ cr.pc = "start"
  /\ listed' = listed \union {cr.cur}
  /\ where' = [c \in Cores |-> IF where[c] = "idle" THEN "online" ELSE where[c]]
  /\ run' = [run EXCEPT ![cr.cur].on = In("idle"), ![cr.cur].ongoing = TRUE,
                        ![cr.cur].proc = IF In("idle") = {} THEN "none" ELSE "up"]
  /\ Return
  /\ UNCHANGED <<flags, events, cmds, shut, vm, boot, spent>>

EndRunCmd ==
  /\ Comes("end")
  /\ run' = IF This \in listed
            THEN [run EXCEPT ![This].ongoing = FALSE, ![This].we = "wait"]
            ELSE [run EXCEPT ![This].endfile = FALSE]
  /\ UNCHANGED <<flags, where, events, cr, listed, shut, vm, boot, spent>>

QuarantinedCmd ==
  /\ Comes("quarantined")
  /\ LET reached == This \in listed /\ QuarantinedLimit(This)
     IN /\ run' = IF reached /\ IsLatest(This) THEN [run EXCEPT ![This].pending = TRUE] ELSE run
        /\ StartShutdown(IF reached /\ ~IsLatest(This) THEN {This} ELSE {})
  /\ UNCHANGED <<flags, where, events, cr, listed, vm, boot, spent>>

-----------------------------------------------------------------------------
(* Ending all runs, for stop and exclude *)

\* Runs at their quarantine limit are shut down by the handler itself.
ShutQuarantined(r) ==
  /\ cr.pc \in {"stop", "exquar"} /\ Alone /\ r \in cr.q
  /\ cr' = [cr EXCEPT !.cur = r, !.q = @ \ {r}]
  /\ shut' = [shut EXCEPT ![Fg] = "kill"]
  /\ UNCHANGED <<flags, where, events, cmds, run, listed, vm, boot, spent>>

\* The others stop by themselves when they are asked, unless they have no process.
StopRun(r) ==
  /\ cr.pc \in {"stop", "exruns"} /\ Alone /\ cr.q = {} /\ r \in cr.todo
  /\ \/ run[r].pending /\ cr' = [cr EXCEPT !.todo = @ \ {r}] /\ UNCHANGED <<run, shut>>
     \/ /\ ~run[r].pending /\ run[r].on = {}
        /\ cr' = [cr EXCEPT !.todo = @ \ {r}, !.cur = r]
        /\ shut' = [shut EXCEPT ![Fg] = "kill"] /\ UNCHANGED run
     \/ /\ ~run[r].pending /\ run[r].on # {}
        /\ cr' = [cr EXCEPT !.todo = @ \ {r}, !.requested = TRUE]
        /\ run' = [run EXCEPT ![r].asked = TRUE] /\ UNCHANGED shut
  /\ UNCHANGED <<flags, where, events, cmds, listed, vm, boot, spent>>

\* The file that asks a run to stop cannot be written (Run.Stop): the runs that
\* come after it are not asked either.
Unasked ==
  /\ Alone /\ cr.q = {} /\ \E r \in cr.todo : ~run[r].pending /\ run[r].on # {}
  /\ Spend("unwritable")

NoneLeft == Alone /\ cr.q = {} /\ cr.todo = {}

\* The runs to end are those listed when allocation is disabled, under the lock.
StopCmd ==
  /\ Comes("stop")
  /\ flags' = [flags EXCEPT !.disabled = TRUE]
  /\ cr' = [cr EXCEPT !.pc = "stmask", !.q = Quarantined, !.todo = listed]
  /\ UNCHANGED <<where, events, run, listed, shut, vm, boot, spent>>
\* clearOngoingRunFlags, without the lock
StopMask ==
  /\ cr.pc = "stmask"
  /\ flags' = [flags EXCEPT !.masked = TRUE]
  /\ run' = [r \in Runs |-> IF r \in listed THEN [run[r] EXCEPT !.ongoing = FALSE] ELSE run[r]]
  /\ Goto("stop")
  /\ UNCHANGED <<where, events, cmds, listed, shut, vm, boot, spent>>
StopFail ==
  /\ cr.pc = "stop" /\ Unasked
  /\ flags' = [flags EXCEPT !.disabled = FALSE]
  /\ Return
  /\ UNCHANGED <<where, events, cmds, run, listed, shut, vm, boot>>
StopDone ==
  /\ cr.pc = "stop" /\ NoneLeft
  /\ flags' = [flags EXCEPT !.disabled = FALSE]
  /\ Return
  /\ UNCHANGED <<where, events, cmds, run, listed, shut, vm, boot, spent>>

-----------------------------------------------------------------------------
(* exclude *)

ExcludeCmd ==
  /\ Comes("exclude")
  /\ IF flags.cloud /\ ~flags.abort THEN Return /\ UNCHANGED flags
     ELSE Goto("exset") /\ flags' = [flags EXCEPT !.abort = IF flags.cloud THEN FALSE ELSE @]
  /\ UNCHANGED <<where, events, run, listed, shut, vm, boot, spent>>

\* The status of the cloud is an error: whatever may be there is stopped.
ExcludeError ==
  /\ cr.pc = "exset" /\ Spend("script")
  /\ vm' \in {vm, Stopping}
  /\ Return
  /\ UNCHANGED <<flags, where, events, cmds, run, listed, shut, boot>>

ExcludeSet ==
  /\ cr.pc = "exset"
  /\ flags' = [flags EXCEPT !.cloud = TRUE, !.entering = TRUE]
  /\ cr' = [cr EXCEPT !.pc = "exquar", !.q = Quarantined]
  /\ UNCHANGED <<where, events, cmds, run, listed, shut, vm, boot, spent>>

ExcludeRuns ==
  /\ cr.pc = "exquar" /\ NoneLeft
  /\ cr' = [cr EXCEPT !.pc = "exruns", !.todo = listed]
  /\ UNCHANGED <<flags, where, events, cmds, run, listed, shut, vm, boot, spent>>

\* No process had to be asked: the switch happens at once.
ExcludeMove ==
  /\ cr.pc = "exruns" /\ NoneLeft
  /\ IF cr.requested THEN Return /\ UNCHANGED <<flags, where, events>>
     ELSE Goto("exignite") /\ flags' = Entered /\ CoresToCloud
  /\ UNCHANGED <<cmds, run, listed, shut, vm, boot, spent>>

\* The machine stays in HLT mode, with those runs that were not asked to stop.
ExcludeFail ==
  /\ cr.pc = "exruns" /\ Unasked
  /\ flags' = [flags EXCEPT !.entering = FALSE, !.cloud = FALSE]
  /\ Return
  /\ UNCHANGED <<where, events, cmds, run, listed, shut, vm, boot>>

ExcludeIgnite ==
  /\ cr.pc = "exignite" /\ Ignite
  /\ Return
  /\ UNCHANGED <<flags, where, events, cmds, run, listed, shut, boot>>

-----------------------------------------------------------------------------
(* include *)

IncludeCmd ==
  /\ Comes("include")
  /\ IF flags.cloud THEN Goto("inlock") /\ UNCHANGED <<vm, spent>>
     ELSE Return /\ IF vm = "off" THEN UNCHANGED <<vm, spent>> ELSE Extinguish
  /\ UNCHANGED <<flags, where, events, run, listed, shut, boot>>

IncludeLock ==
  /\ cr.pc = "inlock"
  /\ IF flags.entering THEN Return /\ flags' = [flags EXCEPT !.abort = TRUE]
     ELSE Goto("instop") /\ flags' = [flags EXCEPT !.exiting = TRUE]
  /\ UNCHANGED <<where, events, cmds, run, listed, shut, vm, boot, spent>>

IncludeStop ==
  /\ cr.pc = "instop" /\ Extinguish
  /\ Goto("inpoll")
  /\ UNCHANGED <<flags, where, events, cmds, run, listed, shut, boot>>

\* The virtual machines still run after a minute of polling: they are stopped again, once.
IncludeRetry ==
  /\ cr.pc = "inpoll" /\ vm # "off" /\ ~cr.retried /\ Extinguish
  /\ cr' = [cr EXCEPT !.retried = TRUE]
  /\ UNCHANGED <<flags, where, events, cmds, run, listed, shut, boot>>

\* Mutant of NotExiting: the flag stays.
BugNotExiting == flags
NotExiting == [flags EXCEPT !.exiting = FALSE]
\* After ten minutes, or a hundred errors of the script, hltd stays in cloud mode.
IncludeGiveUp ==
  /\ cr.pc = "inpoll" /\ vm # "off"
  /\ (cr.retried /\ vm = "on" /\ UNCHANGED spent) \/ Spend("script")
  /\ flags' = NotExiting
  /\ Return
  /\ UNCHANGED <<where, events, cmds, run, listed, shut, vm, boot>>

\* Mutant of Deactivated: the answer of the script to stop is trusted.
BugDeactivated == TRUE
Deactivated == vm = "off"
IncludeLeave ==
  /\ cr.pc = "inpoll" /\ Deactivated
  /\ PromptIgnite => ~IgnitionDue
  /\ flags' = [flags EXCEPT !.cloud = FALSE]
  /\ CoresToIdle
  /\ Goto("inend")
  /\ UNCHANGED <<cmds, run, listed, shut, vm, boot, spent>>

IncludeEnd ==
  /\ cr.pc = "inend"
  /\ flags' = NotExiting
  /\ Return
  /\ UNCHANGED <<where, events, cmds, run, listed, shut, vm, boot, spent>>

Exclude == ExcludeCmd \/ ExcludeError \/ ExcludeSet \/ ExcludeRuns \/ ExcludeMove \/ ExcludeFail
           \/ ExcludeIgnite
Include == IncludeCmd \/ IncludeLock \/ IncludeStop \/ IncludeRetry \/ IncludeGiveUp
           \/ IncludeLeave \/ IncludeEnd
RunCommands == NewRunCmd \/ NewRunStart \/ EndRunCmd \/ QuarantinedCmd
Stop == StopCmd \/ StopMask \/ StopFail \/ StopDone
=============================================================================
