-------------------------- MODULE CloudSwitch_proofs --------------------------
(***************************************************************************)
(* A filter unit between runs and the cloud: the theorems that the types   *)
(* hold and that no core of a run whose processes compute is given away,   *)
(* for all cores, runs and bounds.                                         *)
(***************************************************************************)
EXTENDS CloudSwitch, FiniteSetTheorems, SequenceTheorems, TLAPS

-----------------------------------------------------------------------------
(* Types of the operations *)

LEMMA MoveType ==
  ASSUME CloudTypeOK, NEW S \in SUBSET Cores, NEW dir \in {"idle", "cloud"}, MoveTo(S, dir)
  PROVE  where' \in [Cores -> Dirs] /\ events' \in SUBSET Event
<1>1. where' \in [Cores -> Dirs]
  BY DEF CloudTypeOK, MoveTo, Dirs
<1>2. {[core |-> c, dir |-> dir] : c \in S \ In(dir)} \in SUBSET Event
  BY DEF Event
<1> QED  BY <1>1, <1>2 DEF CloudTypeOK, MoveTo

LEMMA SpendType ==
  ASSUME CloudTypeOK, NEW b \in Bounded, Spend(b)
  PROVE  spent' \in [Bounded -> Nat] /\ spent'[b] = spent[b] + 1
         /\ \A d \in Bounded \ {b} : spent'[d] = spent[d]
<1>1. spent' = [spent EXCEPT ![b] = spent[b] + 1]
  BY Zenon DEF Spend
<1> QED  BY <1>1 DEF CloudTypeOK

LEMMA ScriptType ==
  ASSUME CloudTypeOK, Ignite \/ Extinguish
  PROVE  vm' \in {"off", "on", "stopping"} /\ spent' \in [Bounded -> Nat]
         /\ \A d \in Bounded \ {"script"} : spent'[d] = spent[d]
<1>1. "script" \in Bounded
  BY DEF Bounded
<1> QED  BY <1>1, SpendType DEF CloudTypeOK, Ignite, Extinguish, Stopping

LEMMA FlagsFields ==
  ASSUME flags \in Flags, NEW b \in BOOLEAN
  PROVE  /\ [flags EXCEPT !.cloud = b] \in Flags
         /\ [flags EXCEPT !.entering = b] \in Flags
         /\ [flags EXCEPT !.exiting = b] \in Flags
         /\ [flags EXCEPT !.abort = b] \in Flags
         /\ [flags EXCEPT !.disabled = b] \in Flags
         /\ [flags EXCEPT !.masked = b] \in Flags
         /\ [flags EXCEPT !.entering = FALSE, !.abort = FALSE, !.cloud = FALSE] \in Flags
         /\ [flags EXCEPT !.abort = FALSE, !.masked = TRUE, !.cloud = FALSE] \in Flags
         /\ [flags EXCEPT !.entering = FALSE, !.cloud = FALSE] \in Flags
         /\ [flags EXCEPT !.cloud = TRUE, !.entering = TRUE] \in Flags
BY DEF Flags

LEMMA RecordFields ==
  ASSUME NEW q \in RunState, NEW b \in BOOLEAN, NEW S \in SUBSET Cores,
         NEW p \in {"none", "up", "over", "quar"}, NEW w \in {"no", "wait", "tail", "ignite", "done"}
  PROVE  /\ [q EXCEPT !.we = w] \in RunState
         /\ [q EXCEPT !.on = S] \in RunState
         /\ [q EXCEPT !.pending = b] \in RunState
         /\ [q EXCEPT !.asked = b] \in RunState
         /\ [q EXCEPT !.endfile = b] \in RunState
         /\ [q EXCEPT !.ongoing = b] \in RunState
         /\ [q EXCEPT !.proc = p] \in RunState
         /\ [q EXCEPT !.we = "tail", !.on = {}, !.endfile = FALSE] \in RunState
         /\ [q EXCEPT !.pending = FALSE, !.ongoing = FALSE, !.proc = p] \in RunState
         /\ [q EXCEPT !.on = S, !.ongoing = TRUE, !.proc = p] \in RunState
         /\ [q EXCEPT !.ongoing = FALSE, !.we = "wait"] \in RunState
         /\ [q EXCEPT !.on = S, !.proc = "up"] \in RunState
         /\ [q EXCEPT !.proc = "over", !.endfile = b] \in RunState
<1>1. [q EXCEPT !.we = w] \in RunState
  BY DEF RunState
<1>2. [q EXCEPT !.on = S] \in RunState
  BY DEF RunState
<1>3. [q EXCEPT !.pending = b] \in RunState
  BY DEF RunState
<1>4. [q EXCEPT !.asked = b] \in RunState
  BY DEF RunState
<1>5. [q EXCEPT !.endfile = b] \in RunState
  BY DEF RunState
<1>6. [q EXCEPT !.ongoing = b] \in RunState
  BY DEF RunState
<1>7. [q EXCEPT !.proc = p] \in RunState
  BY DEF RunState
<1>8. [q EXCEPT !.we = "tail", !.on = {}, !.endfile = FALSE] \in RunState
  BY DEF RunState
<1>9. [q EXCEPT !.pending = FALSE, !.ongoing = FALSE, !.proc = p] \in RunState
  BY DEF RunState
<1>10. [q EXCEPT !.on = S, !.ongoing = TRUE, !.proc = p] \in RunState
  BY DEF RunState
<1>11. [q EXCEPT !.ongoing = FALSE, !.we = "wait"] \in RunState
  BY DEF RunState
<1>12. [q EXCEPT !.on = S, !.proc = "up"] \in RunState
  BY DEF RunState
<1>13. [q EXCEPT !.proc = "over", !.endfile = b] \in RunState
  BY DEF RunState
<1> QED  BY <1>1, <1>2, <1>3, <1>4, <1>5, <1>6, <1>7, <1>8, <1>9, <1>10, <1>11, <1>12, <1>13

LEMMA RunFields ==
  ASSUME run \in [Runs -> RunState], NEW r \in Runs, NEW b \in BOOLEAN, NEW S \in SUBSET Cores,
         NEW p \in {"none", "up", "over", "quar"}, NEW w \in {"no", "wait", "tail", "ignite", "done"}
  PROVE  /\ [run EXCEPT ![r].we = w] \in [Runs -> RunState]
         /\ [run EXCEPT ![r].on = S] \in [Runs -> RunState]
         /\ [run EXCEPT ![r].pending = b] \in [Runs -> RunState]
         /\ [run EXCEPT ![r].asked = b] \in [Runs -> RunState]
         /\ [run EXCEPT ![r].endfile = b] \in [Runs -> RunState]
         /\ [run EXCEPT ![r].ongoing = b] \in [Runs -> RunState]
         /\ [run EXCEPT ![r].proc = p] \in [Runs -> RunState]
<1>1. run[r] \in RunState
  OBVIOUS
<1>2. [run EXCEPT ![r].we = w] \in [Runs -> RunState]
  <2>1. [run[r] EXCEPT !.we = w] \in RunState
    BY <1>1, RecordFields, Zenon
  <2> QED  BY <2>1
<1>3. [run EXCEPT ![r].on = S] \in [Runs -> RunState]
  <2>1. [run[r] EXCEPT !.on = S] \in RunState
    BY <1>1, RecordFields, Zenon
  <2> QED  BY <2>1
<1>4. [run EXCEPT ![r].pending = b] \in [Runs -> RunState]
  <2>1. [run[r] EXCEPT !.pending = b] \in RunState
    BY <1>1, RecordFields, Zenon
  <2> QED  BY <2>1
<1>5. [run EXCEPT ![r].asked = b] \in [Runs -> RunState]
  <2>1. [run[r] EXCEPT !.asked = b] \in RunState
    BY <1>1, RecordFields, Zenon
  <2> QED  BY <2>1
<1>6. [run EXCEPT ![r].endfile = b] \in [Runs -> RunState]
  <2>1. [run[r] EXCEPT !.endfile = b] \in RunState
    BY <1>1, RecordFields, Zenon
  <2> QED  BY <2>1
<1>7. [run EXCEPT ![r].ongoing = b] \in [Runs -> RunState]
  <2>1. [run[r] EXCEPT !.ongoing = b] \in RunState
    BY <1>1, RecordFields, Zenon
  <2> QED  BY <2>1
<1>8. [run EXCEPT ![r].proc = p] \in [Runs -> RunState]
  <2>1. [run[r] EXCEPT !.proc = p] \in RunState
    BY <1>1, RecordFields, Zenon
  <2> QED  BY <2>1
<1> QED  BY <1>2, <1>3, <1>4, <1>5, <1>6, <1>7, <1>8

LEMMA RunSteps ==
  ASSUME run \in [Runs -> RunState], NEW r \in Runs, NEW b \in BOOLEAN, NEW S \in SUBSET Cores,
         NEW p \in {"none", "up", "over", "quar"}, NEW w \in {"no", "wait", "tail", "ignite", "done"}
  PROVE  /\ [run EXCEPT ![r].we = "tail", ![r].on = {}, ![r].endfile = FALSE]
              \in [Runs -> RunState]
         /\ [run EXCEPT ![r].pending = FALSE, ![r].ongoing = FALSE, ![r].proc = p]
              \in [Runs -> RunState]
         /\ [run EXCEPT ![r].on = S, ![r].ongoing = TRUE, ![r].proc = p] \in [Runs -> RunState]
         /\ [run EXCEPT ![r].ongoing = FALSE, ![r].we = "wait"] \in [Runs -> RunState]
         /\ [run EXCEPT ![r].on = S, ![r].proc = "up"] \in [Runs -> RunState]
         /\ [run EXCEPT ![r].proc = "over", ![r].endfile = b] \in [Runs -> RunState]
<1>1. run[r] \in RunState
  OBVIOUS
<1>2. [run EXCEPT ![r].we = "tail", ![r].on = {}, ![r].endfile = FALSE] \in [Runs -> RunState]
  <2>1. [run[r] EXCEPT !.we = "tail", !.on = {}, !.endfile = FALSE] \in RunState
    BY <1>1, RecordFields, Zenon
  <2> QED  BY <2>1
<1>3. [run EXCEPT ![r].pending = FALSE, ![r].ongoing = FALSE, ![r].proc = p] \in [Runs -> RunState]
  <2>1. [run[r] EXCEPT !.pending = FALSE, !.ongoing = FALSE, !.proc = p] \in RunState
    BY <1>1, RecordFields, Zenon
  <2> QED  BY <2>1
<1>4. [run EXCEPT ![r].on = S, ![r].ongoing = TRUE, ![r].proc = p] \in [Runs -> RunState]
  <2>1. [run[r] EXCEPT !.on = S, !.ongoing = TRUE, !.proc = p] \in RunState
    BY <1>1, RecordFields, Zenon
  <2> QED  BY <2>1
<1>5. [run EXCEPT ![r].ongoing = FALSE, ![r].we = "wait"] \in [Runs -> RunState]
  <2>1. [run[r] EXCEPT !.ongoing = FALSE, !.we = "wait"] \in RunState
    BY <1>1, RecordFields, Zenon
  <2> QED  BY <2>1
<1>6. [run EXCEPT ![r].on = S, ![r].proc = "up"] \in [Runs -> RunState]
  <2>1. [run[r] EXCEPT !.on = S, !.proc = "up"] \in RunState
    BY <1>1, RecordFields, Zenon
  <2> QED  BY <2>1
<1>7. [run EXCEPT ![r].proc = "over", ![r].endfile = b] \in [Runs -> RunState]
  <2>1. [run[r] EXCEPT !.proc = "over", !.endfile = b] \in RunState
    BY <1>1, RecordFields, Zenon
  <2> QED  BY <2>1
<1> QED  BY <1>2, <1>3, <1>4, <1>5, <1>6, <1>7

LEMMA StartShutdownType ==
  ASSUME CloudTypeOK, NEW S, StartShutdown(S)
  PROVE  /\ shut' \in [Threads -> {"none", "kill", "clear", "remove", "check", "ignite"}]
         /\ \A t \in Threads : shut'[t] # shut[t] => t \in S /\ shut[t] = "none" /\ shut'[t] = "kill"
BY DEF CloudTypeOK, StartShutdown

\* A command that is taken is a command, and what is left are commands.
LEMMA HeadType ==
  ASSUME CloudTypeOK, NEW op \in {"run", "end", "quarantined", "stop", "exclude", "include"}, Comes(op)
  PROVE  /\ cmds' \in Seq(Command) /\ Head(cmds) \in Command
         /\ op \in {"run", "end", "quarantined"} => This \in Runs
<1>1. cmds' \in Seq(Command) /\ Head(cmds) \in Command
  BY HeadTailProperties DEF CloudTypeOK, Comes
<1>2. Head(cmds).op = op
  BY DEF Comes
<1> QED  BY <1>1, <1>2 DEF Command, This

LEMMA AppendType ==
  ASSUME CloudTypeOK
  PROVE  /\ \A r \in Runs : /\ Append(cmds, Cmd("run", r)) \in Seq(Command)
                            /\ Append(cmds, Cmd("end", r)) \in Seq(Command)
                            /\ Append(cmds, Cmd("quarantined", r)) \in Seq(Command)
         /\ \A op \in {"stop", "exclude", "include"} : Append(cmds, Cmd(op, NoRun)) \in Seq(Command)
<1>1. \A r \in Runs : /\ Cmd("run", r) \in Command /\ Cmd("end", r) \in Command
                      /\ Cmd("quarantined", r) \in Command
  BY DEF Cmd, Command
<1>2. \A op \in {"stop", "exclude", "include"} : Cmd(op, NoRun) \in Command
  BY DEF Cmd, Command
<1>3. \A c \in Command : Append(cmds, c) \in Seq(Command)
  BY AppendProperties DEF CloudTypeOK
<1> QED  BY <1>1, <1>2, <1>3

LEMMA LastSectionType ==
  ASSUME CloudTypeOK, NEW left, LastSection(left)
  PROVE  flags' \in Flags /\ where' \in [Cores -> Dirs] /\ events' \in SUBSET Event
<1>1. flags' \in Flags
  BY FlagsFields DEF CloudTypeOK, LastSection, Entered
<1>2. where' \in [Cores -> Dirs] /\ events' \in SUBSET Event
  BY MoveType DEF CloudTypeOK, LastSection, CoresToCloud
<1> QED  BY <1>1, <1>2

\* Where the flags say what the cores are used for, the cores are moved there.
LEMMA BootMoves ==
  ASSUME CloudTypeOK, AsCloud \/ Begin
  PROVE  flags' \in Flags /\ where' \in [Cores -> Dirs] /\ events' \in SUBSET Event
<1>1. flags' \in Flags
  BY FlagsFields DEF CloudTypeOK, AsCloud, Begin
<1>2. where' \in [Cores -> Dirs] /\ events' \in SUBSET Event
  BY MoveType DEF AsCloud, Begin, CoresToCloud, CoresToIdle
<1> QED  BY <1>1, <1>2

LEMMA AnsweredType ==
  ASSUME CloudTypeOK, Answered \/ NotAnswered
  PROVE  vm' \in {"off", "on", "stopping"} /\ spent' \in [Bounded -> Nat]
         /\ \A d \in Bounded \ {"script"} : spent'[d] = spent[d]
<1>1. "script" \in Bounded
  BY DEF Bounded
<1> QED  BY <1>1, SpendType DEF CloudTypeOK, Answered, NotAnswered, Stopping

LEMMA BootType ==
  ASSUME CloudTypeOK, Boot
  PROVE  CloudTypeOK'
<1>1. CASE BootInCloud
  <2>1. flags' \in Flags /\ where' \in [Cores -> Dirs] /\ events' \in SUBSET Event
    BY <1>1, BootMoves DEF BootInCloud
  <2>2. vm' \in {"off", "on", "stopping"} /\ spent' \in [Bounded -> Nat]
    BY <1>1, ScriptType, AnsweredType DEF BootInCloud, CloudTypeOK
  <2> QED  BY <1>1, <2>1, <2>2 DEF BootInCloud, CloudTypeOK
<1>2. CASE BootInHlt
  BY <1>2, BootMoves DEF BootInHlt, CloudTypeOK
<1>3. CASE BootCheck
  <2>1. flags' \in Flags /\ where' \in [Cores -> Dirs] /\ events' \in SUBSET Event
    BY <1>3, BootMoves DEF BootCheck, CloudTypeOK
  <2>2. vm' \in {"off", "on", "stopping"} /\ spent' \in [Bounded -> Nat]
    BY <1>3, AnsweredType DEF BootCheck, CloudTypeOK
  <2> QED  BY <1>3, <2>1, <2>2 DEF BootCheck, CloudTypeOK
<1>4. CASE BootMounted
  BY <1>4 DEF BootMounted, CloudTypeOK
<1> QED  BY <1>1, <1>2, <1>3, <1>4 DEF Boot

-----------------------------------------------------------------------------
(* Types of the handlers *)

LEMMA RunnerFields ==
  ASSUME cr \in RunnerState, NEW r \in Runs \union {NoRun}, NEW S \in SUBSET Runs,
         NEW pc \in {"idle", "start", "stmask", "stop", "exset", "exquar", "exruns", "exignite",
                     "inlock", "instop", "inpoll", "inend"}
  PROVE  /\ RunnerIdle \in RunnerState
         /\ [cr EXCEPT !.pc = pc] \in RunnerState
         /\ [cr EXCEPT !.pc = pc, !.cur = r] \in RunnerState
         /\ [cr EXCEPT !.cur = r, !.q = S] \in RunnerState
         /\ [cr EXCEPT !.todo = S] \in RunnerState
         /\ [cr EXCEPT !.todo = S, !.cur = r] \in RunnerState
         /\ [cr EXCEPT !.todo = S, !.requested = TRUE] \in RunnerState
         /\ [cr EXCEPT !.pc = pc, !.q = S] \in RunnerState
         /\ [cr EXCEPT !.pc = pc, !.todo = S] \in RunnerState
         /\ \A T \in SUBSET Runs : [cr EXCEPT !.pc = pc, !.q = S, !.todo = T] \in RunnerState
         /\ [cr EXCEPT !.retried = TRUE] \in RunnerState
BY ZenonT(60) DEF RunnerState, RunnerIdle

LEMMA CommandsType ==
  ASSUME CloudTypeOK, RunCommands \/ Stop, cr.pc = "start" => cr.cur \in Runs
  PROVE  CloudTypeOK'
<1>0. /\ cr \in RunnerState /\ run \in [Runs -> RunState] /\ listed \in SUBSET Runs
      /\ Quarantined \in SUBSET Runs
  BY DEF CloudTypeOK, Quarantined
<1>1. CASE NewRunCmd
  <2>1. cmds' \in Seq(Command) /\ This \in Runs
    BY <1>1, HeadType DEF NewRunCmd
  <2>2. cr' \in RunnerState
    BY <1>0, <1>1, <2>1, RunnerFields DEF NewRunCmd, Return
  <2>3. flags' \in Flags
    BY <1>1, FlagsFields DEF NewRunCmd, CloudTypeOK
  <2> QED  BY <1>1, <2>1, <2>2, <2>3, StartShutdownType DEF NewRunCmd, CloudTypeOK
<1>2. CASE NewRunStart
  <2>1. cr.cur \in Runs /\ In("idle") \in SUBSET Cores
    BY <1>2 DEF NewRunStart, In
  <2> DEFINE p == IF In("idle") = {} THEN "none" ELSE "up"
  <2>2. p \in {"none", "up", "over", "quar"}
    OBVIOUS
  <2>3. run' = [run EXCEPT ![cr.cur].on = In("idle"), ![cr.cur].ongoing = TRUE, ![cr.cur].proc = p]
    BY <1>2 DEF NewRunStart
  <2> HIDE DEF p
  <2>4. run' \in [Runs -> RunState]
    BY <1>0, <2>1, <2>2, <2>3, RunSteps
  <2>5. cr' \in RunnerState
    BY <1>0, <1>2, <2>1, RunnerFields DEF NewRunStart, Return
  <2>6. where' \in [Cores -> Dirs]
    BY <1>2 DEF NewRunStart, CloudTypeOK, Dirs
  <2> QED  BY <1>2, <2>1, <2>4, <2>5, <2>6 DEF NewRunStart, CloudTypeOK
<1>3. CASE EndRunCmd
  <2>1. cmds' \in Seq(Command) /\ This \in Runs
    BY <1>3, HeadType DEF EndRunCmd
  <2>2. run' \in [Runs -> RunState]
    BY <1>0, <1>3, <2>1, RunFields, RunSteps DEF EndRunCmd
  <2> QED  BY <1>3, <2>1, <2>2 DEF EndRunCmd, CloudTypeOK
<1>4. CASE QuarantinedCmd
  <2>1. cmds' \in Seq(Command) /\ This \in Runs
    BY <1>4, HeadType DEF QuarantinedCmd
  <2>2. run' \in [Runs -> RunState]
    BY <1>0, <1>4, <2>1, RunFields DEF QuarantinedCmd
  <2>3. shut' \in [Threads -> {"none", "kill", "clear", "remove", "check", "ignite"}]
    BY <1>4, StartShutdownType DEF QuarantinedCmd
  <2> QED  BY <1>4, <2>1, <2>2, <2>3 DEF QuarantinedCmd, CloudTypeOK
<1>5. CASE StopCmd
  <2>1. cmds' \in Seq(Command)
    BY <1>5, HeadType DEF StopCmd
  <2>2. cr' \in RunnerState
    BY <1>0, <1>5, RunnerFields DEF StopCmd
  <2>3. flags' \in Flags
    BY <1>5, FlagsFields DEF StopCmd, CloudTypeOK
  <2> QED  BY <1>5, <2>1, <2>2, <2>3 DEF StopCmd, CloudTypeOK
<1>7. CASE StopMask
  <2>1. \A r \in Runs : [run[r] EXCEPT !.ongoing = FALSE] \in RunState
    BY <1>0, RecordFields
  <2>2. run' \in [Runs -> RunState]
    BY <1>0, <1>7, <2>1 DEF StopMask
  <2>3. cr' \in RunnerState
    BY <1>0, <1>7, RunnerFields DEF StopMask, Goto
  <2>4. flags' \in Flags
    BY <1>7, FlagsFields DEF StopMask, CloudTypeOK
  <2> QED  BY <1>7, <2>2, <2>3, <2>4 DEF StopMask, CloudTypeOK
<1>8. CASE StopFail
  <2>1. flags' \in Flags
    BY <1>8, FlagsFields DEF StopFail, CloudTypeOK
  <2>2. cr' \in RunnerState
    BY <1>8 DEF StopFail, Return, RunnerIdle, RunnerState
  <2>3. spent' \in [Bounded -> Nat]
    BY <1>8, SpendType DEF StopFail, Unasked, Bounded
  <2> QED  BY <1>8, <2>1, <2>2, <2>3 DEF StopFail, CloudTypeOK
<1>6. CASE StopDone
  <2>1. flags' \in Flags
    BY <1>6, FlagsFields DEF StopDone, CloudTypeOK
  <2>2. cr' \in RunnerState
    BY <1>6 DEF StopDone, Return, RunnerIdle, RunnerState
  <2> QED  BY <1>6, <2>1, <2>2 DEF StopDone, CloudTypeOK
<1> QED  BY <1>1, <1>2, <1>3, <1>4, <1>5, <1>6, <1>7, <1>8 DEF RunCommands, Stop

LEMMA ExcludeType ==
  ASSUME CloudTypeOK, Exclude
  PROVE  CloudTypeOK'
<1>0. /\ cr \in RunnerState /\ listed \in SUBSET Runs /\ Quarantined \in SUBSET Runs
      /\ RunnerIdle \in RunnerState /\ {} \in SUBSET Runs
  BY DEF CloudTypeOK, Quarantined, RunnerState, RunnerIdle
<1>1. CASE ExcludeCmd
  <2>1. cmds' \in Seq(Command)
    BY <1>1, HeadType DEF ExcludeCmd
  <2>2. cr' \in RunnerState
    BY <1>0, <1>1, RunnerFields DEF ExcludeCmd, Return, Goto
  <2>3. flags' \in Flags
    <3> DEFINE b == IF flags.cloud THEN FALSE ELSE flags.abort
    <3>1. b \in BOOLEAN
      BY DEF CloudTypeOK, Flags
    <3>2. flags' = flags \/ flags' = [flags EXCEPT !.abort = b]
      BY <1>1 DEF ExcludeCmd
    <3> HIDE DEF b
    <3> QED  BY <3>1, <3>2, FlagsFields DEF CloudTypeOK
  <2> QED  BY <1>1, <2>1, <2>2, <2>3 DEF ExcludeCmd, CloudTypeOK
<1>2. CASE ExcludeError
  <2>1. spent' \in [Bounded -> Nat]
    BY <1>2, SpendType DEF ExcludeError, Bounded
  <2> QED  BY <1>0, <1>2, <2>1 DEF ExcludeError, Return, Stopping, CloudTypeOK
<1>3. CASE ExcludeSet
  <2>1. cr' \in RunnerState
    BY <1>0, <1>3, RunnerFields DEF ExcludeSet
  <2>2. flags' \in Flags
    BY <1>3, FlagsFields DEF ExcludeSet, CloudTypeOK
  <2> QED  BY <1>3, <2>1, <2>2 DEF ExcludeSet, CloudTypeOK
<1>4. CASE ExcludeRuns
  <2>1. cr' \in RunnerState
    BY <1>0, <1>4, RunnerFields DEF ExcludeRuns
  <2> QED  BY <1>4, <2>1 DEF ExcludeRuns, CloudTypeOK
<1>5. CASE ExcludeMove
  <2>1. cr' \in RunnerState
    BY <1>0, <1>5, RunnerFields DEF ExcludeMove, Return, Goto
  <2>2. flags' \in Flags
    BY <1>5, FlagsFields DEF ExcludeMove, Entered, CloudTypeOK
  <2>3. where' \in [Cores -> Dirs] /\ events' \in SUBSET Event
    BY <1>5, MoveType DEF ExcludeMove, CoresToCloud, CloudTypeOK
  <2> QED  BY <1>5, <2>1, <2>2, <2>3 DEF ExcludeMove, CloudTypeOK
<1>6. CASE ExcludeIgnite
  BY <1>0, <1>6, ScriptType DEF ExcludeIgnite, Return, CloudTypeOK
<1>7. CASE ExcludeFail
  <2>1. flags' \in Flags
    BY <1>7, FlagsFields DEF ExcludeFail, CloudTypeOK
  <2>2. spent' \in [Bounded -> Nat]
    BY <1>7, SpendType DEF ExcludeFail, Unasked, Bounded
  <2> QED  BY <1>0, <1>7, <2>1, <2>2 DEF ExcludeFail, Return, CloudTypeOK
<1> QED  BY <1>1, <1>2, <1>3, <1>4, <1>5, <1>6, <1>7 DEF Exclude

LEMMA IncludeType ==
  ASSUME CloudTypeOK, Include
  PROVE  CloudTypeOK'
<1>0. /\ cr \in RunnerState /\ RunnerIdle \in RunnerState /\ {} \in SUBSET Runs
  BY DEF CloudTypeOK, RunnerState, RunnerIdle
<1>1. CASE IncludeCmd
  <2>1. cmds' \in Seq(Command)
    BY <1>1, HeadType DEF IncludeCmd
  <2>2. cr' \in RunnerState
    BY <1>0, <1>1, RunnerFields DEF IncludeCmd, Return, Goto
  <2>3. vm' \in {"off", "on", "stopping"} /\ spent' \in [Bounded -> Nat]
    BY <1>1, ScriptType DEF IncludeCmd, CloudTypeOK
  <2> QED  BY <1>1, <2>1, <2>2, <2>3 DEF IncludeCmd, CloudTypeOK
<1>2. CASE IncludeLock
  <2>1. cr' \in RunnerState
    BY <1>0, <1>2, RunnerFields DEF IncludeLock, Return, Goto
  <2>2. flags' \in Flags
    BY <1>2, FlagsFields DEF IncludeLock, CloudTypeOK
  <2> QED  BY <1>2, <2>1, <2>2 DEF IncludeLock, CloudTypeOK
<1>3. CASE IncludeStop
  <2>1. cr' \in RunnerState
    BY <1>0, <1>3, RunnerFields DEF IncludeStop, Goto
  <2> QED  BY <1>3, <2>1, ScriptType DEF IncludeStop, CloudTypeOK
<1>4. CASE IncludeRetry
  <2>1. cr' \in RunnerState
    BY <1>0, <1>4, RunnerFields DEF IncludeRetry
  <2> QED  BY <1>4, <2>1, ScriptType DEF IncludeRetry, CloudTypeOK
<1>5. CASE IncludeGiveUp
  <2>1. flags' \in Flags
    BY <1>5, FlagsFields DEF IncludeGiveUp, NotExiting, CloudTypeOK
  <2>2. spent' \in [Bounded -> Nat]
    BY <1>5, SpendType DEF IncludeGiveUp, CloudTypeOK, Bounded
  <2> QED  BY <1>0, <1>5, <2>1, <2>2 DEF IncludeGiveUp, Return, CloudTypeOK
<1>6. CASE IncludeLeave
  <2>1. cr' \in RunnerState
    BY <1>0, <1>6, RunnerFields DEF IncludeLeave, Goto
  <2>2. flags' \in Flags
    BY <1>6, FlagsFields DEF IncludeLeave, CloudTypeOK
  <2>3. where' \in [Cores -> Dirs] /\ events' \in SUBSET Event
    BY <1>6, MoveType DEF IncludeLeave, CoresToIdle, CloudTypeOK
  <2> QED  BY <1>6, <2>1, <2>2, <2>3 DEF IncludeLeave, CloudTypeOK
<1>7. CASE IncludeEnd
  <2>1. flags' \in Flags
    BY <1>7, FlagsFields DEF IncludeEnd, NotExiting, CloudTypeOK
  <2> QED  BY <1>0, <1>7, <2>1 DEF IncludeEnd, Return, CloudTypeOK
<1> QED  BY <1>1, <1>2, <1>3, <1>4, <1>5, <1>6, <1>7 DEF Include

LEMMA EndAllType ==
  ASSUME CloudTypeOK, NEW r \in Runs, ShutQuarantined(r) \/ StopRun(r)
  PROVE  CloudTypeOK'
<1>0. /\ cr \in RunnerState /\ run \in [Runs -> RunState]
      /\ cr.q \ {r} \in SUBSET Runs /\ cr.todo \ {r} \in SUBSET Runs
  BY DEF CloudTypeOK, RunnerState
<1>1. [shut EXCEPT ![Fg] = "kill"] \in [Threads -> {"none", "kill", "clear", "remove", "check", "ignite"}]
  BY DEF CloudTypeOK
<1>2. CASE ShutQuarantined(r)
  <2>1. cr' \in RunnerState
    BY <1>0, <1>2, RunnerFields DEF ShutQuarantined
  <2> QED  BY <1>1, <1>2, <2>1 DEF ShutQuarantined, CloudTypeOK
<1>3. CASE StopRun(r)
  <2>1. [cr EXCEPT !.todo = @ \ {r}] \in RunnerState
    BY <1>0, RunnerFields
  <2>2. [cr EXCEPT !.todo = @ \ {r}, !.cur = r] \in RunnerState
    BY <1>0, RunnerFields
  <2>3. [cr EXCEPT !.todo = @ \ {r}, !.requested = TRUE] \in RunnerState
    BY <1>0, RunnerFields
  <2>4. [run EXCEPT ![r].asked = TRUE] \in [Runs -> RunState]
    BY <1>0, RunFields
  <2>5. cr' \in RunnerState /\ run' \in [Runs -> RunState]
    BY <1>0, <1>3, <2>1, <2>2, <2>3, <2>4 DEF StopRun
  <2>6. shut' \in [Threads -> {"none", "kill", "clear", "remove", "check", "ignite"}]
    BY <1>1, <1>3 DEF StopRun, CloudTypeOK
  <2> QED  BY <1>3, <2>5, <2>6 DEF StopRun, CloudTypeOK
<1> QED  BY <1>2, <1>3

-----------------------------------------------------------------------------
(* Types of the threads, the ResourceRanger and what comes from outside *)

LEMMA WaitForEndType ==
  ASSUME CloudTypeOK, NEW r \in Runs, WaitForEnd(r)
  PROVE  CloudTypeOK'
<1>0. run \in [Runs -> RunState] /\ run[r].on \in SUBSET Cores
  BY DEF CloudTypeOK, RunState
<1>1. CASE EndClear(r)
  <2>1. where' \in [Cores -> Dirs] /\ events' \in SUBSET Event
    <3>1. run[r].on \ In("cloud") \in SUBSET Cores
      BY <1>0
    <3> QED  BY <1>1, <3>1, MoveType DEF EndClear
  <2>2. run' \in [Runs -> RunState]
    BY <1>0, <1>1, RunSteps DEF EndClear
  <2> QED  BY <1>1, <2>1, <2>2 DEF EndClear, CloudTypeOK
<1>2. CASE EndTimeout(r)
  <2>1. flags' \in Flags
    BY <1>2, FlagsFields DEF EndTimeout, CloudTypeOK
  <2> QED  BY <1>2, <2>1 DEF EndTimeout, CloudTypeOK
<1>3. CASE EndRemove(r)
  <2>1. flags' \in Flags /\ where' \in [Cores -> Dirs] /\ events' \in SUBSET Event
    BY <1>3, LastSectionType DEF EndRemove
  <2>2. PICK w \in {"ignite", "done"} : run' = [run EXCEPT ![r].we = w]
    BY <1>3 DEF EndRemove
  <2>3. run' \in [Runs -> RunState]
    BY <1>0, <2>2, RunFields
  <2> QED  BY <1>3, <2>1, <2>3 DEF EndRemove, CloudTypeOK
<1>4. CASE EndIgnite(r)
  <2>1. run' \in [Runs -> RunState]
    BY <1>0, <1>4, RunFields DEF EndIgnite
  <2> QED  BY <1>4, <2>1, ScriptType DEF EndIgnite, CloudTypeOK
<1> QED  BY <1>1, <1>2, <1>3, <1>4 DEF WaitForEnd

LEMMA ShutdownType ==
  ASSUME CloudTypeOK, NEW t \in Threads, Shutdown(t), shut[t] # "none" => Of(t) \in Runs
  PROVE  CloudTypeOK'
<1>0. run \in [Runs -> RunState] /\ Of(t) \in Runs
  BY DEF CloudTypeOK, Shutdown, ShutKill, ShutClear, ShutRemove, ShutCheck, ShutIgnite
<1>1. \A s \in {"none", "clear", "remove", "check", "ignite"} : [shut EXCEPT ![t] = s]
        \in [Threads -> {"none", "kill", "clear", "remove", "check", "ignite"}]
  BY DEF CloudTypeOK
<1>2. CASE ShutKill(t)
  <2>1. shut' \in [Threads -> {"none", "kill", "clear", "remove", "check", "ignite"}]
    BY <1>1, <1>2 DEF ShutKill
  <2> DEFINE p == IF run[Of(t)].proc = "up" THEN "over" ELSE run[Of(t)].proc
  <2>2. p \in {"none", "up", "over", "quar"}
    BY <1>0 DEF RunState
  <2>3. run' = [run EXCEPT ![Of(t)].pending = FALSE, ![Of(t)].ongoing = FALSE, ![Of(t)].proc = p]
    BY <1>2 DEF ShutKill
  <2> HIDE DEF p
  <2>4. run' \in [Runs -> RunState]
    BY <1>0, <2>2, <2>3, RunSteps
  <2> QED  BY <1>2, <2>1, <2>4 DEF ShutKill, CloudTypeOK
<1>3. CASE ShutClear(t)
  <2>1. shut' \in [Threads -> {"none", "kill", "clear", "remove", "check", "ignite"}]
    BY <1>1, <1>3 DEF ShutClear
  <2>2. run' \in [Runs -> RunState]
    BY <1>0, <1>3, RunFields DEF ShutClear
  <2>3. where' \in [Cores -> Dirs] /\ events' \in SUBSET Event
    <3>1. PICK restored \in {{}, In("quarantined")} :
            MoveTo(run[Of(t)].on \cap (In("online") \union restored), "idle")
      BY <1>3 DEF ShutClear
    <3>2. run[Of(t)].on \cap (In("online") \union restored) \in SUBSET Cores
      BY <1>0 DEF RunState
    <3> QED  BY <3>1, <3>2, MoveType
  <2> QED  BY <1>3, <2>1, <2>2, <2>3 DEF ShutClear, CloudTypeOK
<1>4. CASE ShutRemove(t)
  <2>1. shut' \in [Threads -> {"none", "kill", "clear", "remove", "check", "ignite"}]
    BY <1>1, <1>4 DEF ShutRemove
  <2>2. run' \in [Runs -> RunState]
    BY <1>0, <1>4, RunFields DEF ShutRemove
  <2> QED  BY <1>4, <2>1, <2>2 DEF ShutRemove, CloudTypeOK
<1>5. CASE ShutCheck(t)
  <2>1. shut' \in [Threads -> {"none", "kill", "clear", "remove", "check", "ignite"}]
    BY <1>1, <1>5 DEF ShutCheck
  <2> QED  BY <1>5, <2>1, LastSectionType DEF ShutCheck, CloudTypeOK
<1>6. CASE ShutIgnite(t)
  <2>1. shut' \in [Threads -> {"none", "kill", "clear", "remove", "check", "ignite"}]
    BY <1>1, <1>6 DEF ShutIgnite
  <2> QED  BY <1>6, <2>1, ScriptType DEF ShutIgnite, CloudTypeOK
<1> QED  BY <1>2, <1>3, <1>4, <1>5, <1>6 DEF Shutdown

LEMMA OpenType ==
  ASSUME CloudTypeOK, NEW op \in {"exclude", "include"}, Open(op)
  PROVE  cmds' \in Seq(Command)
BY AppendType DEF Open, CloudTypeOK

LEMMA RangerType ==
  ASSUME CloudTypeOK, NEW c \in Cores, Ranger(c)
  PROVE  CloudTypeOK'
<1>0. run \in [Runs -> RunState] /\ \A r \in Runs : run[r].on \union {c} \in SUBSET Cores
  BY DEF CloudTypeOK, RunState
<1>1. CASE RangerIdle(c)
  <2>1. events' \in SUBSET Event
    BY <1>1 DEF RangerIdle, Sees, CloudTypeOK
  <2>2. cmds' \in Seq(Command)
    BY <1>1, OpenType DEF RangerIdle, CloudTypeOK
  <2>3. where' \in [Cores -> Dirs]
    BY <1>1 DEF RangerIdle, CloudTypeOK, Dirs
  <2>4. run' \in [Runs -> RunState]
    <3>1. CASE UNCHANGED run
      BY <1>0, <3>1
    <3>2. CASE \E r \in Ongoing : run' = [run EXCEPT ![r].on = @ \union {c}, ![r].proc = "up"]
      <4>1. PICK r \in Ongoing : run' = [run EXCEPT ![r].on = run[r].on \union {c}, ![r].proc = "up"]
        BY <3>2
      <4>2. r \in Runs
        BY DEF Ongoing, CloudTypeOK
      <4>3. run[r].on \union {c} \in SUBSET Cores
        BY <1>0, <4>2
      <4> QED  BY <1>0, <4>1, <4>2, <4>3, RunSteps
    <3> QED  BY <1>1, <3>1, <3>2 DEF RangerIdle
  <2> QED  BY <1>1, <2>1, <2>2, <2>3, <2>4 DEF RangerIdle, CloudTypeOK
<1>2. CASE RangerCloud(c)
  <2>1. events' \in SUBSET Event
    BY <1>2 DEF RangerCloud, Sees, CloudTypeOK
  <2>2. cmds' \in Seq(Command)
    BY <1>2, OpenType DEF RangerCloud, CloudTypeOK
  <2> QED  BY <1>2, <2>1, <2>2 DEF RangerCloud, CloudTypeOK
<1> QED  BY <1>1, <1>2 DEF Ranger

LEMMA EndFileType ==
  ASSUME CloudTypeOK, NEW r \in Runs, EndFile(r)
  PROVE  cmds' \in Seq(Command)
BY AppendType DEF EndFile, CloudTypeOK

LEMMA CrashType ==
  ASSUME CloudTypeOK, Crash
  PROVE  CloudTypeOK'
<1>1. spent' \in [Bounded -> Nat]
  BY SpendType DEF Crash, Bounded
<1>2. where' \in [Cores -> Dirs]
  BY DEF CloudTypeOK, Crash, Dirs
<1>3. flags' \in Flags /\ events' \in SUBSET Event
  BY DEF Crash, Off, Flags
<1>4. cmds' \in Seq(Command)
  BY DEF Crash
<1>5. cr' \in RunnerState /\ listed' \in SUBSET Runs
  BY DEF Crash, RunnerIdle, RunnerState
<1>6. run' \in [Runs -> RunState]
  <2>1. Unannounced \in RunState
    BY DEF Unannounced, RunState
  <2> QED  BY <2>1 DEF Crash
<1>7. shut' \in [Threads -> {"none", "kill", "clear", "remove", "check", "ignite"}]
  BY DEF Crash
<1>8. vm' \in {"off", "on", "stopping"} /\ boot' \in {"check1", "check2", "mount", "recheck1", "recheck2", "up"}
  BY DEF Crash, CloudTypeOK
<1> QED  BY <1>1, <1>2, <1>3, <1>4, <1>5, <1>6, <1>7, <1>8 DEF CloudTypeOK

LEMMA OutsideType ==
  ASSUME CloudTypeOK, Outside
  PROVE  CloudTypeOK'
<1>0. run \in [Runs -> RunState]
  BY DEF CloudTypeOK
<1>1. CASE Announce
  <2>1. spent' \in [Bounded -> Nat]
    BY <1>1, SpendType DEF Announce, Bounded
  <2>2. cmds' \in Seq(Command)
    BY <1>1, AppendType DEF Announce
  <2> QED  BY <1>1, <2>1, <2>2 DEF Announce, CloudTypeOK
<1>2. CASE VmByHand
  <2>1. spent' \in [Bounded -> Nat]
    BY <1>2, SpendType DEF VmByHand, Bounded
  <2> QED  BY <1>2, <2>1 DEF VmByHand, CloudTypeOK
<1>3. CASE VmStopped
  BY <1>3 DEF VmStopped, CloudTypeOK
<1>4. CASE Crash
  BY <1>4, CrashType
<1>5. ASSUME NEW r \in Runs, BuEnds(r)  PROVE CloudTypeOK'
  <2>1. spent' \in [Bounded -> Nat]
    BY <1>5, SpendType DEF BuEnds, Bounded
  <2>2. cmds' \in Seq(Command)
    BY <1>5, EndFileType DEF BuEnds
  <2>3. run' \in [Runs -> RunState]
    BY <1>0, <1>5, RunFields DEF BuEnds
  <2> QED  BY <1>5, <2>1, <2>2, <2>3 DEF BuEnds, CloudTypeOK
<1>6. ASSUME NEW r \in Runs, ProcessesEnd(r)  PROVE CloudTypeOK'
  <2>1. cmds' \in Seq(Command)
    BY <1>6, EndFileType DEF ProcessesEnd
  <2> DEFINE b == run[r].endfile \/ run[r].we = "no"
  <2>2. b \in BOOLEAN
    BY <1>0 DEF RunState
  <2>3. run' = [run EXCEPT ![r].proc = "over", ![r].endfile = b]
    BY <1>6 DEF ProcessesEnd
  <2> HIDE DEF b
  <2>4. run' \in [Runs -> RunState]
    BY <1>0, <2>2, <2>3, RunSteps
  <2> QED  BY <1>6, <2>1, <2>4 DEF ProcessesEnd, CloudTypeOK
<1>7. ASSUME NEW r \in Runs, Quarantine(r)  PROVE CloudTypeOK'
  <2>1. spent' \in [Bounded -> Nat]
    BY <1>7, SpendType DEF Quarantine, Bounded
  <2>2. cmds' \in Seq(Command)
    BY <1>7, AppendType DEF Quarantine
  <2>3. run' \in [Runs -> RunState]
    BY <1>0, <1>7, RunFields DEF Quarantine
  <2>4. where' \in [Cores -> Dirs]
    BY <1>7 DEF Quarantine, CloudTypeOK, Dirs
  <2> QED  BY <1>7, <2>1, <2>2, <2>3, <2>4 DEF Quarantine, CloudTypeOK
<1>8. ASSUME NEW r \in Runs, AnelasticDies(r)  PROVE CloudTypeOK'
  <2>1. spent' \in [Bounded -> Nat]
    BY <1>8, SpendType DEF AnelasticDies, Bounded
  <2>2. shut' \in [Threads -> {"none", "kill", "clear", "remove", "check", "ignite"}]
    BY <1>8, StartShutdownType DEF AnelasticDies
  <2> QED  BY <1>8, <2>1, <2>2 DEF AnelasticDies, CloudTypeOK
<1>9. ASSUME NEW op \in {"stop", "exclude", "include"}, Cgi(op)  PROVE CloudTypeOK'
  <2>1. spent' \in [Bounded -> Nat]
    BY <1>9, SpendType DEF Cgi, Bounded
  <2>2. cmds' \in Seq(Command)
    BY <1>9, AppendType DEF Cgi
  <2> QED  BY <1>9, <2>1, <2>2 DEF Cgi, CloudTypeOK
<1>10. ASSUME NEW c \in Cores, MoveByHand(c)  PROVE CloudTypeOK'
  <2>1. spent' \in [Bounded -> Nat]
    BY <1>10, SpendType DEF MoveByHand, Bounded
  <2>2. {c} \in SUBSET Cores
    OBVIOUS
  <2>3. where' \in [Cores -> Dirs] /\ events' \in SUBSET Event
    BY <1>10, <2>2, MoveType DEF MoveByHand
  <2> QED  BY <1>10, <2>1, <2>3 DEF MoveByHand, CloudTypeOK
<1> QED  BY <1>1, <1>2, <1>3, <1>4, <1>5, <1>6, <1>7, <1>8, <1>9, <1>10 DEF Outside

-----------------------------------------------------------------------------
(* The RunRanger and its own calls of Shutdown *)

\* The RunRanger runs a Shutdown of its own only while it ends all runs, and works only
\* when hltd has started; a run is started in HLT mode.
RunnerOwn ==
  /\ shut[Fg] # "none" => cr.pc \in {"stop", "exquar", "exruns"} /\ cr.cur \in Runs
  /\ cr.pc = "start" => cr.cur \in Runs /\ ~flags.cloud
  /\ ~Up => cr.pc = "idle" /\ listed = {}

\* When the switch to the cloud is through, and while the cloud is left, no run is listed.
CloudEmpty ==
  /\ flags.cloud /\ ~flags.entering => listed = {}
  /\ cr.pc = "inlock" /\ ~flags.entering => listed = {}
  /\ cr.pc \in {"instop", "inpoll"} => listed = {}

\* excludeCmd leaves no run behind that it neither asked to stop nor shut down.
ShutByRunner == IF shut[Fg] \in {"kill", "clear", "remove"} THEN {cr.cur} ELSE {}
NoneForgotten ==
  /\ cr.pc = "exquar" => \A r \in listed : run[r].pending => r \in cr.q \/ (shut[Fg] = "kill" /\ r = cr.cur)
  /\ cr.pc = "exruns" => \A r \in listed : ~run[r].pending
  /\ cr.pc = "exruns" /\ ~cr.requested => listed \subseteq cr.todo \union ShutByRunner

SwitchInv == CloudTypeOK /\ RunnerOwn /\ CloudEmpty /\ NoneForgotten

\* What the other threads and the rest of the world do to the RunRanger's work.
Bystander ==
  /\ UNCHANGED <<cr, boot>> /\ shut'[Fg] = shut[Fg]
  /\ listed' \subseteq listed
  /\ flags'.cloud => flags.cloud
  /\ ~flags'.entering => ~flags.entering \/ listed' = {}
  /\ \A r \in Runs : run'[r].pending => run[r].pending

LEMMA BystanderKeeps ==
  ASSUME SwitchInv, Bystander
  PROVE  RunnerOwn' /\ CloudEmpty' /\ NoneForgotten'
<1>1. RunnerOwn'
  BY DEF SwitchInv, RunnerOwn, Bystander, Up
<1>2. CloudEmpty'
  BY DEF SwitchInv, CloudEmpty, Bystander
<1>3. ShutByRunner' = ShutByRunner /\ listed \subseteq Runs
  BY DEF SwitchInv, CloudTypeOK, ShutByRunner, Bystander
<1>4. NoneForgotten'
  BY <1>3 DEF SwitchInv, NoneForgotten, Bystander
<1> QED  BY <1>1, <1>2, <1>4

LEMMA FgNotRun == Fg \notin Runs /\ Fg \in Threads /\ Runs \subseteq Threads
BY CloudAssumption DEF Threads

LEMMA LastSectionFlags ==
  ASSUME CloudTypeOK, NEW left, LastSection(left)
  PROVE  /\ flags'.cloud => flags.cloud
         /\ ~flags'.entering => ~flags.entering \/ left = {}
BY DEF CloudTypeOK, Flags, LastSection, LastGone, ToCloud, Entered

LEMMA WaitForEndBystands ==
  ASSUME CloudTypeOK, NEW r \in Runs, WaitForEnd(r)
  PROVE  Bystander
<1>0. run \in [Runs -> RunState] /\ flags \in Flags
  BY DEF CloudTypeOK
<1>1. CASE EndClear(r)
  BY <1>0, <1>1 DEF EndClear, Bystander, RunState
<1>2. CASE EndTimeout(r)
  BY <1>0, <1>2 DEF EndTimeout, Bystander, Flags
<1>3. CASE EndRemove(r)
  <2>1. \A q \in Runs : run'[q].pending = run[q].pending
    BY <1>0, <1>3 DEF EndRemove, RunState
  <2>2. LastSection(listed')
    BY <1>3 DEF EndRemove
  <2> QED  BY <1>3, <2>1, <2>2, LastSectionFlags DEF EndRemove, Bystander
<1>4. CASE EndIgnite(r)
  BY <1>0, <1>4 DEF EndIgnite, Bystander, RunState
<1> QED  BY <1>1, <1>2, <1>3, <1>4 DEF WaitForEnd

LEMMA ShutdownBystands ==
  ASSUME CloudTypeOK, NEW r \in Runs, Shutdown(r)
  PROVE  Bystander
<1>0. /\ run \in [Runs -> RunState] /\ Of(r) = r /\ r # Fg
      /\ shut'[Fg] = shut[Fg]
  BY FgNotRun DEF CloudTypeOK, Of, Shutdown, ShutKill, ShutClear, ShutRemove, ShutCheck, ShutIgnite
<1>1. CASE ShutKill(r)
  BY <1>0, <1>1 DEF ShutKill, Bystander, RunState
<1>2. CASE ShutClear(r)
  BY <1>0, <1>2 DEF ShutClear, Bystander, RunState
<1>3. CASE ShutRemove(r)
  BY <1>0, <1>3 DEF ShutRemove, Bystander, RunState
<1>4. CASE ShutCheck(r)
  <2>1. LastSection(listed) /\ UNCHANGED <<cr, boot, run, listed>>
    BY <1>4 DEF ShutCheck
  <2> QED  BY <1>0, <2>1, LastSectionFlags DEF Bystander
<1>5. CASE ShutIgnite(r)
  BY <1>0, <1>5 DEF ShutIgnite, Bystander
<1> QED  BY <1>1, <1>2, <1>3, <1>4, <1>5 DEF Shutdown

LEMMA RangerBystands ==
  ASSUME CloudTypeOK, NEW c \in Cores, Ranger(c)
  PROVE  Bystander
<1>1. run \in [Runs -> RunState] /\ Ongoing \subseteq Runs
  BY DEF CloudTypeOK, Ongoing
<1>2. \A r \in Runs : run'[r].pending = run[r].pending
  <2>1. \/ UNCHANGED run
        \/ \E q \in Runs : run' = [run EXCEPT ![q].on = @ \union {c}, ![q].proc = "up"]
    BY <1>1 DEF Ranger, RangerIdle, RangerCloud
  <2>2. ASSUME NEW q \in Runs, run' = [run EXCEPT ![q].on = @ \union {c}, ![q].proc = "up"]
        PROVE  \A r \in Runs : run'[r].pending = run[r].pending
    BY <1>1, <2>2 DEF RunState
  <2> QED  BY <2>1, <2>2
<1> QED  BY <1>2 DEF Ranger, RangerIdle, RangerCloud, Bystander

LEMMA OutsideBystands ==
  ASSUME CloudTypeOK, Outside, ~Crash
  PROVE  Bystander
<1>0. run \in [Runs -> RunState]
  BY DEF CloudTypeOK
<1>1. CASE Announce \/ VmByHand \/ VmStopped \/ (\E op \in {"stop", "exclude", "include"} : Cgi(op))
           \/ (\E c \in Cores : MoveByHand(c))
  BY <1>1 DEF Announce, VmByHand, VmStopped, Cgi, MoveByHand, Bystander
<1>2. ASSUME NEW r \in Runs, BuEnds(r)  PROVE Bystander
  BY <1>0, <1>2 DEF BuEnds, Bystander, RunState
<1>3. ASSUME NEW r \in Runs, ProcessesEnd(r)  PROVE Bystander
  BY <1>0, <1>3 DEF ProcessesEnd, Bystander, RunState
<1>4. ASSUME NEW r \in Runs, Quarantine(r)  PROVE Bystander
  BY <1>0, <1>4 DEF Quarantine, Bystander, RunState
<1>5. ASSUME NEW r \in Runs, AnelasticDies(r)  PROVE Bystander
  <2>1. shut'[Fg] = shut[Fg]
    BY <1>5, FgNotRun DEF AnelasticDies, StartShutdown
  <2> QED  BY <1>5, <2>1 DEF AnelasticDies, Bystander
<1> QED  BY <1>1, <1>2, <1>3, <1>4, <1>5 DEF Outside

LEMMA BootKeeps ==
  ASSUME SwitchInv, Boot
  PROVE  RunnerOwn' /\ CloudEmpty' /\ NoneForgotten'
<1>1. ~Up /\ UNCHANGED <<cr, listed, shut>>
  BY DEF Boot, BootInCloud, BootInHlt, BootCheck, BootMounted, Up
<1>2. listed = {} /\ cr.pc = "idle"
  BY <1>1 DEF SwitchInv, RunnerOwn
<1> QED  BY <1>1, <1>2 DEF SwitchInv, RunnerOwn, CloudEmpty, NoneForgotten, Up

LEMMA CrashKeeps ==
  ASSUME Crash
  PROVE  RunnerOwn' /\ CloudEmpty' /\ NoneForgotten'
BY FgNotRun DEF Crash, RunnerIdle, RunnerOwn, CloudEmpty, NoneForgotten

\* The Shutdown that the RunRanger calls.
LEMMA OwnShutdownKeeps ==
  ASSUME SwitchInv, Shutdown(Fg)
  PROVE  RunnerOwn' /\ CloudEmpty' /\ NoneForgotten'
<1>0. /\ run \in [Runs -> RunState] /\ flags \in Flags /\ cr \in RunnerState /\ listed \subseteq Runs
      /\ shut \in [Threads -> {"none", "kill", "clear", "remove", "check", "ignite"}] /\ Fg \in Threads
      /\ Of(Fg) = cr.cur
  BY FgNotRun DEF SwitchInv, CloudTypeOK, Of
<1>1. cr.pc \in {"stop", "exquar", "exruns"} /\ cr.cur \in Runs /\ UNCHANGED <<cr, boot>>
  BY DEF SwitchInv, RunnerOwn, Shutdown, ShutKill, ShutClear, ShutRemove, ShutCheck, ShutIgnite
<1>2. listed' \subseteq listed /\ (flags'.cloud => flags.cloud)
      /\ (~flags'.entering => ~flags.entering \/ listed' = {})
  BY <1>0, LastSectionFlags DEF SwitchInv, Shutdown, ShutKill, ShutClear, ShutRemove, ShutCheck, ShutIgnite
<1>3. RunnerOwn'
  BY <1>1, <1>2 DEF SwitchInv, RunnerOwn, Up
<1>4. CloudEmpty'
  BY <1>1, <1>2 DEF SwitchInv, CloudEmpty
<1>5. \A r \in Runs : run'[r].pending => run[r].pending /\ ~(shut[Fg] = "kill" /\ r = cr.cur)
  <2>1. CASE ShutKill(Fg)
    BY <1>0, <1>1, <2>1 DEF ShutKill, RunState
  <2>2. CASE ShutClear(Fg)
    BY <1>0, <1>1, <2>2 DEF ShutClear, RunState
  <2>3. CASE ShutRemove(Fg)
    BY <1>0, <1>1, <2>3 DEF ShutRemove, RunState
  <2>4. CASE ShutCheck(Fg) \/ ShutIgnite(Fg)
    BY <2>4 DEF ShutCheck, ShutIgnite
  <2> QED  BY <2>1, <2>2, <2>3, <2>4 DEF Shutdown
<1>6. listed' \ ShutByRunner' \subseteq listed \ ShutByRunner
  BY <1>0, <1>1 DEF Shutdown, ShutKill, ShutClear, ShutRemove, ShutCheck, ShutIgnite, ShutByRunner
<1>7. NoneForgotten'
  BY <1>0, <1>1, <1>2, <1>5, <1>6 DEF SwitchInv, NoneForgotten
<1> QED  BY <1>3, <1>4, <1>7

\* While the RunRanger is not within exclude or include, it has nothing to keep there.
LEMMA NothingOpen ==
  ASSUME cr'.pc \in {"idle", "start", "stmask", "stop", "exset", "exignite", "inend"}
  PROVE  /\ NoneForgotten'
         /\ (flags'.cloud /\ ~flags'.entering => listed' = {}) => CloudEmpty'
BY DEF NoneForgotten, CloudEmpty

LEMMA ShutdownsStarted ==
  ASSUME NEW S \in SUBSET Runs, StartShutdown(S)
  PROVE  shut'[Fg] = shut[Fg]
BY FgNotRun DEF StartShutdown

LEMMA CommandsKeep ==
  ASSUME SwitchInv, RunCommands \/ Stop
  PROVE  RunnerOwn' /\ CloudEmpty' /\ NoneForgotten'
<1>0. /\ flags \in Flags /\ cr \in RunnerState /\ listed \subseteq Runs /\ Quarantined \subseteq Runs
  BY DEF SwitchInv, CloudTypeOK, Quarantined
<1>1. CASE NewRunCmd
  <2>1. This \in Runs
    BY <1>1, HeadType DEF NewRunCmd, SwitchInv
  <2>2. shut'[Fg] = shut[Fg] /\ shut[Fg] = "none" /\ Up
    BY <1>0, <1>1, ShutdownsStarted DEF NewRunCmd, Comes, SwitchInv, RunnerOwn
  <2>3. \/ cr' = RunnerIdle
        \/ cr' = [cr EXCEPT !.pc = "start", !.cur = This] /\ ~flags.cloud
    BY <1>1 DEF NewRunCmd, Return
  <2>4. flags'.cloud = flags.cloud /\ flags'.entering = flags.entering
    BY <1>0, <1>1 DEF NewRunCmd, Flags
  <2>5. cr'.pc \in {"idle", "start"} /\ (cr'.pc = "start" => cr'.cur = This /\ ~flags.cloud)
    <3>1. ASSUME cr' = [cr EXCEPT !.pc = "start", !.cur = This]
          PROVE  cr'.pc = "start" /\ cr'.cur = This
      BY <1>0, <3>1 DEF RunnerState
    <3>2. RunnerIdle.pc = "idle"
      BY DEF RunnerIdle
    <3> QED  BY <2>3, <3>1, <3>2
  <2>6. UNCHANGED <<listed, boot>>
    BY <1>1 DEF NewRunCmd
  <2>7. RunnerOwn'
    BY <2>1, <2>2, <2>4, <2>5, <2>6 DEF RunnerOwn, Up
  <2> QED  BY <2>4, <2>5, <2>6, <2>7, NothingOpen DEF SwitchInv, CloudEmpty
<1>2. CASE NewRunStart
  <2>1. cr' = RunnerIdle /\ cr'.pc = "idle" /\ UNCHANGED <<flags, shut, boot>> /\ cr.pc = "start"
    BY <1>2 DEF NewRunStart, Return, RunnerIdle
  <2>2. ~flags.cloud /\ shut[Fg] = "none" /\ Up
    BY <2>1 DEF SwitchInv, RunnerOwn
  <2>3. RunnerOwn'
    BY <2>1, <2>2 DEF RunnerOwn, Up
  <2> QED  BY <2>1, <2>2, <2>3, NothingOpen
<1>3. CASE EndRunCmd \/ QuarantinedCmd
  <2>1. cr.pc = "idle" /\ UNCHANGED <<cr, flags, listed, boot>>
    BY <1>3 DEF EndRunCmd, QuarantinedCmd, Comes
  <2>2. shut'[Fg] = shut[Fg]
    <3>1. CASE QuarantinedCmd
      <4>1. This \in Runs
        BY <3>1, HeadType DEF QuarantinedCmd, SwitchInv
      <4> QED  BY <3>1, <4>1, ShutdownsStarted DEF QuarantinedCmd
    <3> QED  BY <1>3, <3>1 DEF EndRunCmd
  <2>3. RunnerOwn'
    BY <2>1, <2>2 DEF SwitchInv, RunnerOwn, Up
  <2> QED  BY <2>1, <2>3, NothingOpen DEF SwitchInv, CloudEmpty
<1>4. CASE StopCmd
  <2>1. cr'.pc = "stmask" /\ cr.pc = "idle" /\ UNCHANGED <<listed, shut, boot>> /\ Up
    BY <1>0, <1>4 DEF StopCmd, Comes, RunnerState
  <2>2. flags'.cloud = flags.cloud /\ flags'.entering = flags.entering
    BY <1>0, <1>4 DEF StopCmd, Flags
  <2>3. RunnerOwn'
    BY <2>1, <2>2 DEF SwitchInv, RunnerOwn, Up
  <2> QED  BY <2>1, <2>2, <2>3, NothingOpen DEF SwitchInv, CloudEmpty
<1>6. CASE StopMask
  <2>1. cr'.pc = "stop" /\ cr.pc = "stmask" /\ UNCHANGED <<listed, shut, boot>>
    BY <1>0, <1>6 DEF StopMask, Goto, RunnerState
  <2>2. flags'.cloud = flags.cloud /\ flags'.entering = flags.entering
    BY <1>0, <1>6 DEF StopMask, Flags
  <2>3. RunnerOwn'
    BY <2>1, <2>2 DEF SwitchInv, RunnerOwn, Up
  <2> QED  BY <2>1, <2>2, <2>3, NothingOpen DEF SwitchInv, CloudEmpty
<1>5. CASE StopDone \/ StopFail
  <2>1. cr'.pc = "idle" /\ UNCHANGED <<listed, shut, boot>> /\ shut[Fg] = "none"
    BY <1>5 DEF StopDone, StopFail, NoneLeft, Unasked, Alone, Return, RunnerIdle
  <2>2. flags'.cloud = flags.cloud /\ flags'.entering = flags.entering
    BY <1>0, <1>5 DEF StopDone, StopFail, Flags
  <2>3. RunnerOwn'
    BY <2>1, <2>2 DEF SwitchInv, RunnerOwn, Up
  <2> QED  BY <2>1, <2>2, <2>3, NothingOpen DEF SwitchInv, CloudEmpty
<1> QED  BY <1>1, <1>2, <1>3, <1>4, <1>5, <1>6 DEF RunCommands, Stop

LEMMA EndAllKeeps ==
  ASSUME SwitchInv, NEW r \in Runs, ShutQuarantined(r) \/ StopRun(r)
  PROVE  RunnerOwn' /\ CloudEmpty' /\ NoneForgotten'
<1>0. /\ cr \in RunnerState /\ listed \subseteq Runs /\ run \in [Runs -> RunState]
      /\ shut \in [Threads -> {"none", "kill", "clear", "remove", "check", "ignite"}] /\ Fg \in Threads
  BY FgNotRun DEF SwitchInv, CloudTypeOK
<1>1. cr.pc \in {"stop", "exquar", "exruns"} /\ cr'.pc = cr.pc /\ UNCHANGED <<flags, listed, boot>>
      /\ (cr'.cur = r \/ shut'[Fg] = "none")
  BY <1>0 DEF ShutQuarantined, StopRun, RunnerState, Alone
<1>2. RunnerOwn' /\ CloudEmpty'
  BY <1>1 DEF SwitchInv, RunnerOwn, CloudEmpty, Up
<1>3. CASE ShutQuarantined(r)
  <2>1. cr'.cur = r /\ cr'.q = cr.q \ {r} /\ shut'[Fg] = "kill" /\ shut[Fg] = "none"
        /\ cr'.pc # "exruns" /\ UNCHANGED run
    BY <1>0, <1>3 DEF ShutQuarantined, RunnerState, Alone
  <2> QED  BY <1>1, <1>2, <2>1 DEF SwitchInv, NoneForgotten
<1>4. CASE StopRun(r)
  <2>1. cr'.todo = cr.todo \ {r} /\ shut[Fg] = "none" /\ cr.pc # "exquar"
    BY <1>0, <1>4 DEF StopRun, RunnerState, Alone
  <2>2. \A q \in Runs : run'[q].pending = run[q].pending
    BY <1>0, <1>4 DEF StopRun, RunState
  <2>3. \/ run[r].pending /\ cr'.requested = cr.requested
        \/ shut'[Fg] = "kill" /\ cr'.cur = r /\ cr'.requested = cr.requested
        \/ cr'.requested
    BY <1>0, <1>4 DEF StopRun, RunnerState
  <2>4. NoneForgotten'
    BY <1>0, <1>1, <2>1, <2>2, <2>3 DEF SwitchInv, NoneForgotten, ShutByRunner
  <2> QED  BY <1>2, <2>4
<1> QED  BY <1>3, <1>4

LEMMA ExcludeKeeps ==
  ASSUME SwitchInv, Exclude
  PROVE  RunnerOwn' /\ CloudEmpty' /\ NoneForgotten'
<1>0. /\ flags \in Flags /\ cr \in RunnerState /\ listed \subseteq Runs
      /\ UNCHANGED <<listed, shut, boot, run>>
  BY DEF SwitchInv, CloudTypeOK, Exclude, ExcludeCmd, ExcludeError, ExcludeSet, ExcludeRuns,
         ExcludeMove, ExcludeFail, ExcludeIgnite
<1>2. CASE ExcludeCmd
  <2>1. cr'.pc \in {"idle", "exset"} /\ cr.pc = "idle" /\ Up
    <3>1. cr' = RunnerIdle \/ cr' = [cr EXCEPT !.pc = "exset"]
      BY <1>2 DEF ExcludeCmd, Return, Goto
    <3>2. RunnerIdle.pc = "idle" /\ [cr EXCEPT !.pc = "exset"].pc = "exset"
      BY <1>0 DEF RunnerIdle, RunnerState
    <3> QED  BY <1>2, <3>1, <3>2 DEF ExcludeCmd, Comes
  <2>2. flags'.cloud = flags.cloud /\ flags'.entering = flags.entering
    BY <1>0, <1>2 DEF ExcludeCmd, Flags
  <2>3. RunnerOwn'
    BY <1>0, <2>1, <2>2 DEF SwitchInv, RunnerOwn, Up
  <2> QED  BY <1>0, <2>1, <2>2, <2>3, NothingOpen DEF SwitchInv, CloudEmpty
<1>3. CASE ExcludeError
  <2>1. cr'.pc = "idle" /\ cr.pc = "exset" /\ UNCHANGED flags
    BY <1>3 DEF ExcludeError, Return, RunnerIdle
  <2>2. RunnerOwn'
    BY <1>0, <2>1 DEF SwitchInv, RunnerOwn, Up
  <2> QED  BY <1>0, <2>1, <2>2, NothingOpen DEF SwitchInv, CloudEmpty
<1>4. CASE ExcludeSet
  <2>1. cr'.pc = "exquar" /\ cr.pc = "exset" /\ cr'.q = Quarantined
    BY <1>0, <1>4 DEF ExcludeSet, RunnerState
  <2>2. flags'.entering
    BY <1>0, <1>4 DEF ExcludeSet, Flags
  <2>3. RunnerOwn' /\ CloudEmpty'
    BY <1>0, <2>1, <2>2 DEF SwitchInv, RunnerOwn, CloudEmpty, Up
  <2> QED  BY <1>0, <2>1, <2>3 DEF NoneForgotten, Quarantined
<1>5. CASE ExcludeRuns
  <2>1. cr'.pc = "exruns" /\ cr.pc = "exquar" /\ cr'.todo = listed /\ shut[Fg] = "none" /\ cr.q = {}
        /\ UNCHANGED flags
    BY <1>0, <1>5 DEF ExcludeRuns, NoneLeft, Alone, RunnerState
  <2>2. RunnerOwn' /\ CloudEmpty'
    BY <1>0, <2>1 DEF SwitchInv, RunnerOwn, CloudEmpty, Up
  <2> QED  BY <1>0, <2>1, <2>2 DEF SwitchInv, NoneForgotten
<1>6. CASE ExcludeMove
  <2>1. cr'.pc \in {"idle", "exignite"} /\ cr.pc = "exruns" /\ shut[Fg] = "none" /\ cr.todo = {}
    BY <1>0, <1>6 DEF ExcludeMove, NoneLeft, Alone, Return, Goto, RunnerIdle, RunnerState
  <2>2. cr.requested \/ listed = {}
    BY <2>1 DEF SwitchInv, NoneForgotten, ShutByRunner
  <2>3. flags'.cloud = flags.cloud /\ (cr.requested => flags'.entering = flags.entering)
    BY <1>0, <1>6 DEF ExcludeMove, Entered, Flags
  <2>4. RunnerOwn'
    BY <1>0, <2>1, <2>3 DEF SwitchInv, RunnerOwn, Up
  <2> QED  BY <1>0, <2>1, <2>2, <2>3, <2>4, NothingOpen DEF SwitchInv, CloudEmpty
<1>7. CASE ExcludeIgnite
  <2>1. cr'.pc = "idle" /\ cr.pc = "exignite" /\ UNCHANGED flags
    BY <1>7 DEF ExcludeIgnite, Return, RunnerIdle
  <2>2. RunnerOwn'
    BY <1>0, <2>1 DEF SwitchInv, RunnerOwn, Up
  <2> QED  BY <1>0, <2>1, <2>2, NothingOpen DEF SwitchInv, CloudEmpty
<1>8. CASE ExcludeFail
  <2>1. cr'.pc = "idle" /\ cr.pc = "exruns"
    BY <1>8 DEF ExcludeFail, Return, RunnerIdle
  <2>2. ~flags'.cloud
    BY <1>0, <1>8 DEF ExcludeFail, Flags
  <2>3. RunnerOwn'
    BY <1>0, <1>8, <2>1 DEF ExcludeFail, Unasked, Alone, SwitchInv, RunnerOwn, Up
  <2> QED  BY <1>0, <2>1, <2>2, <2>3, NothingOpen DEF SwitchInv, CloudEmpty
<1> QED  BY <1>2, <1>3, <1>4, <1>5, <1>6, <1>7, <1>8 DEF Exclude

LEMMA IncludeKeeps ==
  ASSUME SwitchInv, Include
  PROVE  RunnerOwn' /\ CloudEmpty' /\ NoneForgotten'
<1>0. /\ flags \in Flags /\ cr \in RunnerState
      /\ UNCHANGED <<listed, shut, boot, run>>
  BY DEF SwitchInv, CloudTypeOK, Include, IncludeCmd, IncludeLock, IncludeStop, IncludeRetry,
         IncludeGiveUp, IncludeLeave, IncludeEnd
<1>1. CASE IncludeCmd
  <2>1. /\ cr.pc = "idle" /\ Up /\ UNCHANGED flags
        /\ cr'.pc = "idle" \/ (cr'.pc = "inlock" /\ flags.cloud)
    BY <1>0, <1>1 DEF IncludeCmd, Comes, Return, Goto, RunnerIdle, RunnerState
  <2> QED  BY <1>0, <2>1 DEF SwitchInv, RunnerOwn, CloudEmpty, NoneForgotten, Up
<1>2. CASE IncludeLock
  <2>1. /\ cr.pc = "inlock"
        /\ cr'.pc = "idle" \/ (cr'.pc = "instop" /\ ~flags.entering)
    BY <1>0, <1>2 DEF IncludeLock, Return, Goto, RunnerIdle, RunnerState
  <2>2. flags'.cloud = flags.cloud /\ flags'.entering = flags.entering
    BY <1>0, <1>2 DEF IncludeLock, Flags
  <2> QED  BY <1>0, <2>1, <2>2 DEF SwitchInv, RunnerOwn, CloudEmpty, NoneForgotten, Up
<1>3. CASE IncludeStop \/ IncludeRetry
  <2>1. cr.pc \in {"instop", "inpoll"} /\ cr'.pc = "inpoll" /\ UNCHANGED flags
    BY <1>0, <1>3 DEF IncludeStop, IncludeRetry, Goto, RunnerState
  <2> QED  BY <1>0, <2>1 DEF SwitchInv, RunnerOwn, CloudEmpty, NoneForgotten, Up
<1>4. CASE IncludeGiveUp \/ IncludeLeave \/ IncludeEnd
  <2>1. cr.pc \in {"inpoll", "inend"} /\ cr'.pc \in {"idle", "inend"}
    BY <1>0, <1>4 DEF IncludeGiveUp, IncludeLeave, IncludeEnd, Return, Goto, RunnerIdle, RunnerState
  <2>2. (flags'.cloud => flags.cloud) /\ flags'.entering = flags.entering
    BY <1>0, <1>4 DEF IncludeGiveUp, IncludeLeave, IncludeEnd, NotExiting, Flags
  <2>3. RunnerOwn'
    BY <1>0, <2>1, <2>2 DEF SwitchInv, RunnerOwn, Up
  <2> QED  BY <1>0, <2>1, <2>2, <2>3, NothingOpen DEF SwitchInv, CloudEmpty
<1> QED  BY <1>1, <1>2, <1>3, <1>4 DEF Include

LEMMA SwitchInit == Init => SwitchInv
<1> SUFFICES ASSUME Init PROVE SwitchInv
  OBVIOUS
<1>1. /\ flags \in Flags /\ events \in SUBSET Event /\ cmds \in Seq(Command)
      /\ listed \in SUBSET Runs /\ cr \in RunnerState
  BY DEF Init, Off, Flags, RunnerIdle, RunnerState
<1>2. where \in [Cores -> Dirs]
  BY DEF Init, Dirs
<1>3. run \in [Runs -> RunState]
  <2>1. Unannounced \in RunState
    BY DEF Unannounced, RunState
  <2> QED  BY <2>1 DEF Init
<1>4. /\ shut \in [Threads -> {"none", "kill", "clear", "remove", "check", "ignite"}]
      /\ spent \in [Bounded -> Nat]
  BY DEF Init
<1>5. CloudTypeOK
  BY <1>1, <1>2, <1>3, <1>4 DEF CloudTypeOK, Init
<1>6. RunnerOwn /\ CloudEmpty /\ NoneForgotten
  BY FgNotRun DEF Init, RunnerIdle, Off, RunnerOwn, CloudEmpty, NoneForgotten
<1> QED  BY <1>5, <1>6 DEF SwitchInv

LEMMA SwitchStep ==
  ASSUME SwitchInv, [Next]_cloudVars
  PROVE  SwitchInv'
<1>1. CloudTypeOK
  BY DEF SwitchInv
<1>2. CASE Boot
  BY <1>1, <1>2, BootType, BootKeeps DEF SwitchInv
<1>3. CASE RunCommands \/ Stop
  BY <1>1, <1>3, CommandsType, CommandsKeep DEF SwitchInv, RunnerOwn
<1>4. CASE Exclude
  BY <1>1, <1>4, ExcludeType, ExcludeKeeps DEF SwitchInv
<1>5. CASE Include
  BY <1>1, <1>5, IncludeType, IncludeKeeps DEF SwitchInv
<1>6. ASSUME NEW r \in Runs, ShutQuarantined(r) \/ StopRun(r)  PROVE SwitchInv'
  BY <1>1, <1>6, EndAllType, EndAllKeeps DEF SwitchInv
<1>7. CASE Outside
  BY <1>1, <1>7, OutsideType, OutsideBystands, BystanderKeeps, CrashKeeps DEF SwitchInv
<1>8. ASSUME NEW c \in Cores, Ranger(c)  PROVE SwitchInv'
  BY <1>1, <1>8, RangerType, RangerBystands, BystanderKeeps DEF SwitchInv
<1>9. ASSUME NEW r \in Runs, WaitForEnd(r)  PROVE SwitchInv'
  BY <1>1, <1>9, WaitForEndType, WaitForEndBystands, BystanderKeeps DEF SwitchInv
<1>10. ASSUME NEW t \in Threads, Shutdown(t)  PROVE SwitchInv'
  <2>1. t \in Runs \/ t = Fg
    BY DEF Threads
  <2>2. shut[t] # "none" => Of(t) \in Runs
    BY <2>1 DEF Of, SwitchInv, RunnerOwn
  <2>3. CloudTypeOK'
    BY <1>1, <1>10, <2>2, ShutdownType
  <2>4. RunnerOwn' /\ CloudEmpty' /\ NoneForgotten'
    BY <1>1, <1>10, <2>1, ShutdownBystands, BystanderKeeps, OwnShutdownKeeps
  <2> QED  BY <2>3, <2>4 DEF SwitchInv
<1>11. CASE UNCHANGED cloudVars
  BY <1>11 DEF cloudVars, SwitchInv, CloudTypeOK, RunnerOwn, CloudEmpty, NoneForgotten, ShutByRunner, Up
<1> QED  BY <1>2, <1>3, <1>4, <1>5, <1>6, <1>7, <1>8, <1>9, <1>10, <1>11 DEF Next, RunRanger

\* What the variables are is preserved by every step of every thread: the flags, core
\* files, commands and threads keep their types.
THEOREM CloudTyped == Spec => []CloudTypeOK
<1>1. SwitchInv => CloudTypeOK
  BY DEF SwitchInv
<1> QED  BY <1>1, SwitchInit, SwitchStep, PTL DEF Spec

-----------------------------------------------------------------------------
(* Runs that are over *)

\* A run that is not listed, or that a thread has cleared, has no cores and no process,
\* and no thread that is ending a run finds it ongoing.
RunsOver ==
  /\ \A r \in Runs \ listed : run[r].on = {} /\ run[r].proc # "up"
  /\ \A r \in Runs : run[r].we # "no" => ~run[r].ongoing
  /\ \A r \in Runs : run[r].we = "tail" => run[r].on = {} /\ run[r].proc # "up"
  /\ \A t \in Threads : shut[t] \in {"clear", "remove"} => ~run[Of(t)].ongoing
  /\ \A t \in Threads : shut[t] = "remove" => run[Of(t)].on = {} /\ run[Of(t)].proc # "up"

\* Not started yet: neither listed, nor ended or shut down by any thread.
Fresh(r) == r \notin listed /\ run[r].we = "no" /\ shut[r] = "none"

\* A step that gives no run anything, and ends or clears none.
Milder(r) ==
  /\ run'[r].ongoing => run[r].ongoing
  /\ run'[r].proc = "up" => run[r].proc = "up"
  /\ run'[r].on \subseteq run[r].on
  /\ run[r].we = "no" => run'[r].we = "no"
  /\ run'[r].we = "tail" => run[r].we = "tail"
Calm ==
  /\ listed' = listed /\ \A r \in Runs : Milder(r)
  /\ \A t \in Threads : shut'[t] \in {"clear", "remove"} => shut'[t] = shut[t] /\ Of(t)' = Of(t)
  /\ \A r \in Runs \ listed : shut[r] = "none" => shut'[r] = "none"

ThreadsHaveRuns == \A t \in Threads : shut[t] # "none" => Of(t) \in Runs
LEMMA HaveRuns == SwitchInv => ThreadsHaveRuns
BY DEF SwitchInv, RunnerOwn, ThreadsHaveRuns, Threads, Of

LEMMA CalmKeeps ==
  ASSUME SwitchInv, RunsOver, Calm
  PROVE  RunsOver' /\ \A r \in Runs : Fresh(r) => Fresh(r)'
<1>0. ThreadsHaveRuns
  BY HaveRuns
<1>1. \A r \in Runs \ listed' : run'[r].on = {} /\ run'[r].proc # "up"
  BY DEF RunsOver, Calm, Milder
<1>2. \A r \in Runs : run'[r].we # "no" => ~run'[r].ongoing
  BY DEF RunsOver, Calm, Milder
<1>3. \A r \in Runs : run'[r].we = "tail" => run'[r].on = {} /\ run'[r].proc # "up"
  BY DEF RunsOver, Calm, Milder
<1>4. \A t \in Threads : shut'[t] \in {"clear", "remove"} => shut[t] = shut'[t] /\ Of(t)' = Of(t) /\ Of(t) \in Runs
  BY <1>0 DEF Calm, ThreadsHaveRuns
<1>5. \A t \in Threads : shut'[t] \in {"clear", "remove"} => ~run'[Of(t)'].ongoing
  BY <1>4 DEF RunsOver, Calm, Milder
<1>6. \A t \in Threads : shut'[t] = "remove" => run'[Of(t)'].on = {} /\ run'[Of(t)'].proc # "up"
  BY <1>4 DEF RunsOver, Calm, Milder
<1>7. RunsOver'
  BY <1>1, <1>2, <1>3, <1>5, <1>6 DEF RunsOver
<1>8. \A r \in Runs : Fresh(r) => Fresh(r)'
  BY DEF Fresh, Calm, Milder
<1> QED  BY <1>7, <1>8

\* When the RunRanger takes a step, no Shutdown of its own is under way.
LEMMA RunnerAlone ==
  ASSUME SwitchInv, RunRanger
  PROVE  shut[Fg] = "none"
BY DEF SwitchInv, RunnerOwn, RunRanger, RunCommands, NewRunCmd, NewRunStart, EndRunCmd, QuarantinedCmd,
       Stop, StopCmd, StopMask, StopFail, StopDone, Exclude, ExcludeCmd, ExcludeError, ExcludeSet,
       ExcludeRuns, ExcludeMove, ExcludeFail,
       ExcludeIgnite, Include, IncludeCmd, IncludeLock, IncludeStop, IncludeRetry, IncludeGiveUp,
       IncludeLeave, IncludeEnd, ShutQuarantined, StopRun, Comes, NoneLeft, Unasked, Alone

\* A step of the RunRanger starts threads at most, and only for runs that are listed.
StartsAtMost ==
  /\ \A t \in Threads : shut'[t] # shut[t] => shut'[t] = "kill"
  /\ \A r \in Runs \ listed : shut'[r] = shut[r]

LEMMA StartsCalm ==
  ASSUME SwitchInv, StartsAtMost, shut[Fg] = "none", listed' = listed, \A r \in Runs : Milder(r)
  PROVE  Calm
<1>1. \A t \in Threads : shut'[t] \in {"clear", "remove"} => shut'[t] = shut[t] /\ t \in Runs
  BY DEF StartsAtMost, Threads
<1>2. \A t \in Runs : Of(t)' = Of(t)
  BY FgNotRun DEF Of
<1> QED  BY <1>1, <1>2 DEF StartsAtMost, Calm

LEMMA SameMilder ==
  ASSUME UNCHANGED run  PROVE  \A r \in Runs : Milder(r)
BY DEF Milder

LEMMA RunnerCalm ==
  ASSUME SwitchInv, RunRanger, ~NewRunStart, ~EndRunCmd
  PROVE  Calm
<1>0. /\ shut[Fg] = "none" /\ run \in [Runs -> RunState] /\ listed \subseteq Runs /\ CloudTypeOK
      /\ Quarantined \subseteq listed /\ cr \in RunnerState
      /\ shut \in [Threads -> {"none", "kill", "clear", "remove", "check", "ignite"}]
  BY RunnerAlone DEF SwitchInv, CloudTypeOK, Quarantined
<1>1. CASE NewRunCmd
  <2>1. StartsAtMost
    BY <1>0, <1>1, StartShutdownType, FgNotRun DEF NewRunCmd, StartsAtMost
  <2> QED  BY <1>0, <1>1, <2>1, SameMilder, StartsCalm DEF NewRunCmd
<1>2. CASE QuarantinedCmd
  <2>1. This \in Runs
    BY <1>0, <1>2, HeadType DEF QuarantinedCmd
  <2>2. PICK S : S \subseteq listed /\ StartShutdown(S)
    BY <1>2 DEF QuarantinedCmd
  <2>3. StartsAtMost
    BY <1>0, <2>2, StartShutdownType, FgNotRun DEF StartsAtMost
  <2>4. \A r \in Runs : Milder(r)
    BY <1>0, <1>2, <2>1 DEF QuarantinedCmd, Milder, RunState
  <2> QED  BY <1>0, <1>2, <2>3, <2>4, StartsCalm DEF QuarantinedCmd
<1>3. CASE Stop
  <2>1. StartsAtMost /\ listed' = listed
    BY <1>3 DEF Stop, StopCmd, StopMask, StopFail, StopDone, StartsAtMost
  <2>2. \A r \in Runs : Milder(r)
    BY <1>0, <1>3 DEF Stop, StopCmd, StopMask, StopFail, StopDone, Milder, RunState
  <2> QED  BY <1>0, <2>1, <2>2, StartsCalm
<1>4. CASE Exclude \/ Include
  <2>1. UNCHANGED <<run, listed, shut>>
    BY <1>4 DEF Exclude, ExcludeCmd, ExcludeError, ExcludeSet, ExcludeRuns, ExcludeMove, ExcludeFail,
       ExcludeIgnite,
      Include, IncludeCmd, IncludeLock, IncludeStop, IncludeRetry, IncludeGiveUp, IncludeLeave, IncludeEnd
  <2>2. StartsAtMost
    BY <2>1 DEF StartsAtMost
  <2> QED  BY <1>0, <2>1, <2>2, SameMilder, StartsCalm
<1>5. ASSUME NEW r \in Runs, ShutQuarantined(r) \/ StopRun(r)  PROVE Calm
  <2>1. StartsAtMost
    BY <1>0, <1>5, FgNotRun DEF ShutQuarantined, StopRun, StartsAtMost
  <2>2. listed' = listed
    BY <1>5 DEF ShutQuarantined, StopRun
  <2>3. \A q \in Runs : Milder(q)
    BY <1>0, <1>5 DEF ShutQuarantined, StopRun, Milder, RunState
  <2> QED  BY <1>0, <2>1, <2>2, <2>3, StartsCalm
<1> QED  BY <1>1, <1>2, <1>3, <1>4, <1>5 DEF RunRanger, RunCommands

LEMMA OutsideCalm ==
  ASSUME SwitchInv, Outside, ~Crash
  PROVE  Calm
<1>0. run \in [Runs -> RunState] /\ CloudTypeOK
  BY DEF SwitchInv, CloudTypeOK
<1>1. ASSUME UNCHANGED <<cr, listed, shut>>, \A r \in Runs : Milder(r)  PROVE Calm
  BY <1>1 DEF Calm, Of
<1>2. CASE Announce \/ VmByHand \/ VmStopped \/ (\E op \in {"stop", "exclude", "include"} : Cgi(op))
           \/ (\E c \in Cores : MoveByHand(c))
  BY <1>1, <1>2, SameMilder DEF Announce, VmByHand, VmStopped, Cgi, MoveByHand
<1>3. ASSUME NEW r \in Runs, BuEnds(r)  PROVE Calm
  <2>1. \A q \in Runs : Milder(q)
    BY <1>0, <1>3 DEF BuEnds, Milder, RunState
  <2> QED  BY <1>1, <1>3, <2>1 DEF BuEnds
<1>4. ASSUME NEW r \in Runs, ProcessesEnd(r)  PROVE Calm
  <2>1. \A q \in Runs : Milder(q)
    BY <1>0, <1>4 DEF ProcessesEnd, Milder, RunState
  <2> QED  BY <1>1, <1>4, <2>1 DEF ProcessesEnd
<1>5. ASSUME NEW r \in Runs, Quarantine(r)  PROVE Calm
  <2>1. \A q \in Runs : Milder(q)
    BY <1>0, <1>5 DEF Quarantine, Milder, RunState
  <2> QED  BY <1>1, <1>5, <2>1 DEF Quarantine
<1>6. ASSUME NEW r \in Runs, AnelasticDies(r)  PROVE Calm
  <2>1. \A t \in Threads : shut'[t] # shut[t] => t = r /\ shut'[t] = "kill"
    BY <1>0, <1>6, StartShutdownType DEF AnelasticDies
  <2>2. r \in listed /\ UNCHANGED <<cr, run, listed>>
    BY <1>6 DEF AnelasticDies
  <2> QED  BY <2>1, <2>2, SameMilder, FgNotRun DEF Calm, Of
<1> QED  BY <1>2, <1>3, <1>4, <1>5, <1>6 DEF Outside

FreshKept == \A r \in Runs : Fresh(r) => Fresh(r)'

LEMMA WaitForEndOver ==
  ASSUME SwitchInv, RunsOver, NEW r \in Runs, WaitForEnd(r)
  PROVE  RunsOver' /\ FreshKept
<1>0. run \in [Runs -> RunState] /\ ThreadsHaveRuns
  BY HaveRuns DEF SwitchInv, CloudTypeOK
<1>1. UNCHANGED <<cr, shut>> /\ \A t \in Threads : Of(t)' = Of(t)
  BY DEF WaitForEnd, EndClear, EndTimeout, EndRemove, EndIgnite, Of
<1>2. CASE EndClear(r)
  <2>1. /\ run'[r].on = {} /\ run'[r].proc # "up" /\ ~run'[r].ongoing /\ run[r].we # "no"
        /\ \A q \in Runs \ {r} : run'[q] = run[q]
    BY <1>0, <1>2 DEF EndClear, RunState, RunsOver
  <2>2. listed' = listed
    BY <1>2 DEF EndClear
  <2>3. RunsOver'
    BY <1>0, <1>1, <2>1, <2>2 DEF RunsOver, ThreadsHaveRuns
  <2>4. FreshKept
    BY <1>1, <2>1, <2>2 DEF FreshKept, Fresh
  <2> QED  BY <2>3, <2>4
<1>3. CASE EndTimeout(r)
  <2>1. UNCHANGED <<run, listed>>
    BY <1>3 DEF EndTimeout
  <2> QED  BY <1>1, <2>1, SameMilder, CalmKeeps DEF Calm, FreshKept
<1>4. CASE EndRemove(r)
  <2>1. /\ run[r].we = "tail" /\ listed' = listed \ {r}
        /\ \A q \in Runs : /\ run'[q].on = run[q].on /\ run'[q].proc = run[q].proc
                           /\ run'[q].ongoing = run[q].ongoing
                           /\ run'[q].we = run[q].we \/ (q = r /\ run'[q].we \in {"ignite", "done"})
    BY <1>0, <1>4 DEF EndRemove, RunState
  <2>2. RunsOver'
    BY <1>0, <1>1, <2>1 DEF RunsOver, ThreadsHaveRuns
  <2>3. FreshKept
    BY <1>1, <2>1 DEF FreshKept, Fresh
  <2> QED  BY <2>2, <2>3
<1>5. CASE EndIgnite(r)
  <2>1. listed' = listed /\ \A q \in Runs : Milder(q)
    BY <1>0, <1>5 DEF EndIgnite, Milder, RunState
  <2> QED  BY <1>1, <2>1, CalmKeeps DEF Calm, FreshKept
<1> QED  BY <1>2, <1>3, <1>4, <1>5 DEF WaitForEnd

LEMMA ShutdownOver ==
  ASSUME SwitchInv, RunsOver, NEW t \in Threads, Shutdown(t)
  PROVE  RunsOver' /\ FreshKept
<1>0. /\ run \in [Runs -> RunState] /\ ThreadsHaveRuns
      /\ shut \in [Threads -> {"none", "kill", "clear", "remove", "check", "ignite"}]
  BY HaveRuns DEF SwitchInv, CloudTypeOK
<1>1. /\ UNCHANGED cr /\ \A u \in Threads : Of(u)' = Of(u)
      /\ shut[t] # "none" /\ Of(t) \in Runs
      /\ \A u \in Threads \ {t} : shut'[u] = shut[u]
  BY <1>0 DEF Shutdown, ShutKill, ShutClear, ShutRemove, ShutCheck, ShutIgnite, Of, ThreadsHaveRuns
<1>2. \A r \in Runs : shut[r] = "none" => shut'[r] = "none"
  BY <1>1, FgNotRun
<1>3. CASE ShutKill(t)
  <2>1. /\ listed' = listed /\ shut'[t] = "clear"
        /\ \A q \in Runs : /\ run'[q].on = run[q].on /\ run'[q].we = run[q].we
                           /\ run'[q].proc = "up" => run[q].proc = "up"
                           /\ run'[q].ongoing => run[q].ongoing /\ q # Of(t)
    BY <1>0, <1>1, <1>3 DEF ShutKill, RunState
  <2>2. RunsOver'
    BY <1>0, <1>1, <2>1 DEF RunsOver, ThreadsHaveRuns
  <2>3. FreshKept
    BY <1>2, <2>1 DEF FreshKept, Fresh
  <2> QED  BY <2>2, <2>3
<1>4. CASE ShutClear(t)
  <2>1. /\ listed' = listed /\ shut[t] = "clear" /\ shut'[t] = "remove"
        /\ run[Of(t)].proc # "up" /\ run'[Of(t)].on = {}
        /\ \A q \in Runs : /\ run'[q].proc = run[q].proc /\ run'[q].we = run[q].we
                           /\ run'[q].ongoing = run[q].ongoing
                           /\ run'[q].on = run[q].on \/ run'[q].on = {}
    BY <1>0, <1>1, <1>4 DEF ShutClear, RunState
  <2>2. RunsOver'
    BY <1>0, <1>1, <2>1 DEF RunsOver, ThreadsHaveRuns
  <2>3. FreshKept
    BY <1>2, <2>1 DEF FreshKept, Fresh
  <2> QED  BY <2>2, <2>3
<1>5. CASE ShutRemove(t)
  <2>1. /\ listed' = listed \ {Of(t)} /\ shut[t] = "remove" /\ shut'[t] = "check"
        /\ \A q \in Runs : /\ run'[q].proc = run[q].proc /\ run'[q].we = run[q].we
                           /\ run'[q].ongoing = run[q].ongoing /\ run'[q].on = run[q].on
    BY <1>0, <1>1, <1>5 DEF ShutRemove, RunState
  <2>2. RunsOver'
    BY <1>0, <1>1, <2>1 DEF RunsOver, ThreadsHaveRuns
  <2>3. FreshKept
    BY <1>2, <2>1 DEF FreshKept, Fresh
  <2> QED  BY <2>2, <2>3
<1>6. CASE ShutCheck(t) \/ ShutIgnite(t)
  <2>1. UNCHANGED <<run, listed>> /\ shut'[t] \in {"ignite", "none"}
    BY <1>0, <1>6 DEF ShutCheck, ShutIgnite
  <2> QED  BY <1>1, <1>2, <2>1, SameMilder, CalmKeeps DEF Calm, FreshKept
<1> QED  BY <1>3, <1>4, <1>5, <1>6 DEF Shutdown

LEMMA RangerOver ==
  ASSUME SwitchInv, RunsOver, NEW c \in Cores, Ranger(c)
  PROVE  RunsOver' /\ FreshKept
<1>0. run \in [Runs -> RunState] /\ ThreadsHaveRuns /\ listed \subseteq Runs
  BY HaveRuns DEF SwitchInv, CloudTypeOK
<1>1. UNCHANGED <<cr, shut, listed>> /\ \A t \in Threads : Of(t)' = Of(t)
  BY DEF Ranger, RangerIdle, RangerCloud, Of
<1>2. CASE UNCHANGED run
  BY <1>1, <1>2, SameMilder, CalmKeeps DEF Calm, FreshKept
<1>3. ASSUME NEW r \in Ongoing, run' = [run EXCEPT ![r].on = @ \union {c}, ![r].proc = "up"]
      PROVE  RunsOver' /\ FreshKept
  <2>1. r \in Runs /\ r \in listed /\ run[r].ongoing
    BY <1>0 DEF Ongoing
  <2>2. /\ \A q \in Runs \ {r} : run'[q] = run[q]
        /\ run'[r].we = run[r].we /\ run'[r].ongoing = run[r].ongoing
    BY <1>0, <1>3, <2>1 DEF RunState
  <2>3. RunsOver'
    BY <1>0, <1>1, <2>1, <2>2 DEF RunsOver, ThreadsHaveRuns
  <2>4. FreshKept
    BY <1>1, <2>1, <2>2 DEF FreshKept, Fresh
  <2> QED  BY <2>3, <2>4
<1>4. UNCHANGED run \/ \E r \in Ongoing : run' = [run EXCEPT ![r].on = @ \union {c}, ![r].proc = "up"]
  BY DEF Ranger, RangerIdle, RangerCloud
<1> QED  BY <1>2, <1>3, <1>4

LEMMA StartOver ==
  ASSUME SwitchInv, RunsOver, NewRunStart, Fresh(cr.cur)
  PROVE  RunsOver' /\ \A r \in Runs \ {cr.cur} : Fresh(r) => Fresh(r)'
<1>0. /\ run \in [Runs -> RunState] /\ ThreadsHaveRuns /\ cr.cur \in Runs /\ shut[Fg] = "none"
      /\ UNCHANGED shut /\ listed' = listed \union {cr.cur}
  BY HaveRuns DEF SwitchInv, CloudTypeOK, RunnerOwn, NewRunStart
<1>1. run'[cr.cur].we = "no" /\ \A q \in Runs \ {cr.cur} : run'[q] = run[q]
  BY <1>0 DEF NewRunStart, RunState, Fresh
<1>2. \A t \in Threads : shut[t] # "none" => t \in Runs /\ t # cr.cur /\ Of(t) = t /\ Of(t)' = t
  BY <1>0, FgNotRun DEF Threads, Of, Fresh
<1>3. RunsOver'
  BY <1>0, <1>1, <1>2 DEF RunsOver
<1>4. \A r \in Runs \ {cr.cur} : Fresh(r) => Fresh(r)'
  BY <1>0, <1>1 DEF Fresh
<1> QED  BY <1>3, <1>4

LEMMA EndRunOver ==
  ASSUME SwitchInv, RunsOver, EndRunCmd
  PROVE  RunsOver' /\ FreshKept
<1>0. /\ run \in [Runs -> RunState] /\ ThreadsHaveRuns /\ This \in Runs
      /\ UNCHANGED <<cr, shut, listed>> /\ \A t \in Threads : Of(t)' = Of(t)
  BY HaveRuns, HeadType DEF SwitchInv, CloudTypeOK, EndRunCmd, Of
<1>1. \A q \in Runs : /\ run'[q].proc = run[q].proc /\ run'[q].on = run[q].on
                      /\ run'[q].ongoing => run[q].ongoing
                      /\ run'[q].we # run[q].we => q \in listed /\ run'[q].we = "wait" /\ ~run'[q].ongoing
  BY <1>0 DEF EndRunCmd, RunState
<1>2. RunsOver'
  BY <1>0, <1>1 DEF RunsOver, ThreadsHaveRuns
<1>3. FreshKept
  BY <1>0, <1>1 DEF FreshKept, Fresh
<1> QED  BY <1>2, <1>3

LEMMA BootOver ==
  ASSUME SwitchInv, RunsOver, Boot
  PROVE  RunsOver' /\ FreshKept
<1>1. UNCHANGED <<run, cr, listed, shut>>
  BY DEF Boot, BootInCloud, BootInHlt, BootCheck, BootMounted
<1> QED  BY <1>1, SameMilder, CalmKeeps DEF Calm, Of, FreshKept

LEMMA CrashOver ==
  ASSUME Crash
  PROVE  RunsOver' /\ \A r \in Runs : Fresh(r)'
<1>1. /\ listed' = {} /\ \A r \in Runs : run'[r] = Unannounced
      /\ \A t \in Threads : shut'[t] = "none"
  BY DEF Crash
<1> QED  BY <1>1, FgNotRun DEF RunsOver, Fresh, Unannounced

-----------------------------------------------------------------------------
(* Cores of runs *)

\* The cores of a run are online or in quarantine, and no two runs have the same.
CoresHeld ==
  /\ \A r \in Runs : \A c \in run[r].on : where[c] \in {"online", "quarantined"}
  /\ \A r, q \in Runs : r # q => run[r].on \cap run[q].on = {}

\* A step that gives no run a core and moves no core of a run but to quarantine.
CoresCalm ==
  \A r \in Runs : /\ run'[r].on \subseteq run[r].on
                  /\ \A c \in run'[r].on : where'[c] \in {where[c], "quarantined"}

LEMMA CoresCalmKeeps ==
  ASSUME CoresHeld, CoresCalm  PROVE CoresHeld'
BY DEF CoresHeld, CoresCalm

LEMMA MilderCores ==
  ASSUME Calm, UNCHANGED where  PROVE CoresCalm
BY DEF Calm, Milder, CoresCalm

LEMMA NoCoresCalm ==
  ASSUME RunsOver', listed' = {}, CloudTypeOK'  PROVE CoresCalm
BY DEF RunsOver, CoresCalm, CloudTypeOK

CoreInv == SwitchInv /\ RunsOver /\ CoresHeld

LEMMA RunnerCores ==
  ASSUME CoreInv, RunRanger, RunsOver', SwitchInv'
  PROVE  CoresHeld'
<1>0. /\ run \in [Runs -> RunState] /\ where \in [Cores -> Dirs] /\ cr \in RunnerState
      /\ listed \subseteq Runs
  BY DEF CoreInv, SwitchInv, CloudTypeOK
<1>1. CASE NewRunStart
  <2>1. cr.cur \in Runs /\ In("idle") \subseteq Cores
    BY <1>1 DEF CoreInv, SwitchInv, RunnerOwn, NewRunStart, In
  <2>2. /\ run'[cr.cur].on = In("idle") /\ \A q \in Runs \ {cr.cur} : run'[q].on = run[q].on
        /\ \A c \in Cores : where'[c] = IF where[c] = "idle" THEN "online" ELSE where[c]
    BY <1>0, <1>1, <2>1 DEF NewRunStart, RunState
  <2>3. \A q \in Runs : run[q].on \cap In("idle") = {} /\ run[q].on \subseteq Cores
    BY <1>0 DEF CoreInv, CoresHeld, In, RunState
  <2> QED  BY <2>1, <2>2, <2>3 DEF CoreInv, CoresHeld, In
<1>2. CASE EndRunCmd
  <2>1. UNCHANGED where /\ This \in Runs
    BY <1>2, HeadType DEF EndRunCmd, CoreInv, SwitchInv
  <2>2. \A q \in Runs : run'[q].on = run[q].on
    BY <1>0, <1>2, <2>1 DEF EndRunCmd, RunState
  <2> QED  BY <2>1, <2>2, CoresCalmKeeps DEF CoresCalm, CoreInv
<1>3. CASE ~NewRunStart /\ ~EndRunCmd
  <2>1. Calm
    BY <1>3, RunnerCalm DEF CoreInv
  <2>2. CASE ExcludeMove /\ ~cr.requested
    <3>1. listed' = {}
      BY <2>2 DEF ExcludeMove, NoneLeft, Alone, CoreInv, SwitchInv, NoneForgotten, ShutByRunner
    <3> QED  BY <3>1, NoCoresCalm, CoresCalmKeeps DEF CoreInv, SwitchInv
  <2>3. CASE IncludeLeave
    <3>1. listed' = {}
      BY <2>3 DEF IncludeLeave, CoreInv, SwitchInv, CloudEmpty
    <3> QED  BY <3>1, NoCoresCalm, CoresCalmKeeps DEF CoreInv, SwitchInv
  <2>4. CASE ~(ExcludeMove /\ ~cr.requested) /\ ~IncludeLeave
    <3>1. UNCHANGED where
      BY <1>3, <2>4 DEF RunRanger, RunCommands, NewRunCmd, QuarantinedCmd, Stop, StopCmd, StopMask,
       StopFail, StopDone,
         Exclude, ExcludeCmd, ExcludeError, ExcludeSet, ExcludeRuns, ExcludeMove, ExcludeFail, ExcludeIgnite,
         Include, IncludeCmd, IncludeLock, IncludeStop, IncludeRetry, IncludeGiveUp, IncludeEnd,
         ShutQuarantined, StopRun
    <3> QED  BY <2>1, <3>1, MilderCores, CoresCalmKeeps DEF CoreInv
  <2> QED  BY <2>2, <2>3, <2>4
<1> QED  BY <1>1, <1>2, <1>3

\* The last section of a thread takes cores only when no run is left.
LEMMA LastSectionMoves ==
  ASSUME NEW left, LastSection(left)
  PROVE  UNCHANGED where \/ left = {}
BY DEF LastSection, ToCloud, LastGone

LEMMA WaitForEndCores ==
  ASSUME CoreInv, NEW r \in Runs, WaitForEnd(r), RunsOver', SwitchInv'
  PROVE  CoresHeld'
<1>0. run \in [Runs -> RunState] /\ where \in [Cores -> Dirs]
  BY DEF CoreInv, SwitchInv, CloudTypeOK
<1>1. CASE EndClear(r)
  <2>1. run'[r].on = {} /\ \A q \in Runs \ {r} : run'[q].on = run[q].on
    BY <1>0, <1>1 DEF EndClear, RunState
  <2>2. \A c \in Cores \ run[r].on : where'[c] = where[c]
    BY <1>1 DEF EndClear, MoveTo
  <2>3. \A q \in Runs : run[q].on \subseteq Cores
    BY <1>0 DEF RunState
  <2>4. CoresCalm
    BY <2>1, <2>2, <2>3 DEF CoreInv, CoresHeld, CoresCalm
  <2> QED  BY <2>4, CoresCalmKeeps DEF CoreInv
<1>2. CASE EndRemove(r)
  <2>1. \A q \in Runs : run'[q].on = run[q].on
    BY <1>0, <1>2 DEF EndRemove, RunState
  <2>2. UNCHANGED where \/ listed' = {}
    BY <1>2, LastSectionMoves DEF EndRemove
  <2>3. CoresCalm
    BY <2>1, <2>2, NoCoresCalm DEF CoresCalm, SwitchInv
  <2> QED  BY <2>3, CoresCalmKeeps DEF CoreInv
<1>3. CASE EndTimeout(r) \/ EndIgnite(r)
  <2>1. UNCHANGED where /\ \A q \in Runs : run'[q].on = run[q].on
    BY <1>0, <1>3 DEF EndTimeout, EndIgnite, RunState
  <2> QED  BY <2>1, CoresCalmKeeps DEF CoresCalm, CoreInv
<1> QED  BY <1>1, <1>2, <1>3 DEF WaitForEnd

LEMMA ShutdownCores ==
  ASSUME CoreInv, NEW t \in Threads, Shutdown(t), RunsOver', SwitchInv'
  PROVE  CoresHeld'
<1>0. run \in [Runs -> RunState] /\ where \in [Cores -> Dirs] /\ Of(t) \in Runs
  BY HaveRuns DEF CoreInv, SwitchInv, CloudTypeOK, ThreadsHaveRuns, Shutdown, ShutKill, ShutClear,
                  ShutRemove, ShutCheck, ShutIgnite
<1>1. CASE ShutClear(t)
  <2>1. run'[Of(t)].on = {} /\ \A q \in Runs \ {Of(t)} : run'[q].on = run[q].on
    BY <1>0, <1>1 DEF ShutClear, RunState
  <2>2. \A c \in Cores \ run[Of(t)].on : where'[c] = where[c]
    BY <1>1 DEF ShutClear, MoveTo
  <2>3. \A q \in Runs : run[q].on \subseteq Cores
    BY <1>0 DEF RunState
  <2>4. CoresCalm
    BY <1>0, <2>1, <2>2, <2>3 DEF CoreInv, CoresHeld, CoresCalm
  <2> QED  BY <2>4, CoresCalmKeeps DEF CoreInv
<1>2. CASE ShutCheck(t)
  <2>1. UNCHANGED run /\ (UNCHANGED where \/ listed' = {})
    BY <1>2, LastSectionMoves DEF ShutCheck
  <2>2. CoresCalm
    BY <2>1, NoCoresCalm DEF CoresCalm, SwitchInv
  <2> QED  BY <2>2, CoresCalmKeeps DEF CoreInv
<1>3. CASE ShutKill(t) \/ ShutRemove(t) \/ ShutIgnite(t)
  <2>1. UNCHANGED where /\ \A q \in Runs : run'[q].on = run[q].on
    BY <1>0, <1>3 DEF ShutKill, ShutRemove, ShutIgnite, RunState
  <2> QED  BY <2>1, CoresCalmKeeps DEF CoresCalm, CoreInv
<1> QED  BY <1>1, <1>2, <1>3 DEF Shutdown

LEMMA RangerCores ==
  ASSUME CoreInv, NEW c \in Cores, Ranger(c)
  PROVE  CoresHeld'
<1>0. run \in [Runs -> RunState] /\ where \in [Cores -> Dirs] /\ Ongoing \subseteq Runs
  BY DEF CoreInv, SwitchInv, CloudTypeOK, Ongoing
<1>1. \/ UNCHANGED <<where, run>>
      \/ /\ where[c] = "idle" /\ where' = [where EXCEPT ![c] = "online"]
         /\ \E r \in Ongoing : run' = [run EXCEPT ![r].on = @ \union {c}, ![r].proc = "up"]
  BY DEF Ranger, RangerIdle, RangerCloud
<1>2. ASSUME NEW r \in Ongoing, where[c] = "idle", where' = [where EXCEPT ![c] = "online"],
             run' = [run EXCEPT ![r].on = @ \union {c}, ![r].proc = "up"]
      PROVE  CoresHeld'
  <2>1. r \in Runs /\ \A q \in Runs : c \notin run[q].on /\ run[q].on \subseteq Cores
    BY <1>0, <1>2 DEF CoreInv, CoresHeld, RunState
  <2>2. run'[r].on = run[r].on \union {c} /\ \A q \in Runs \ {r} : run'[q].on = run[q].on
    BY <1>0, <1>2, <2>1 DEF RunState
  <2>3. where'[c] = "online" /\ \A d \in Cores \ {c} : where'[d] = where[d]
    BY <1>0, <1>2
  <2> QED  BY <2>1, <2>2, <2>3 DEF CoreInv, CoresHeld
<1>3. CASE UNCHANGED <<where, run>>
  BY <1>3 DEF CoreInv, CoresHeld
<1> QED  BY <1>1, <1>2, <1>3

LEMMA OutsideCores ==
  ASSUME CoreInv, Outside, RunsOver', SwitchInv'
  PROVE  CoresHeld'
<1>0. run \in [Runs -> RunState] /\ where \in [Cores -> Dirs]
  BY DEF CoreInv, SwitchInv, CloudTypeOK
<1>1. CASE Crash
  <2>1. listed' = {}
    BY <1>1 DEF Crash
  <2> QED  BY <2>1, NoCoresCalm, CoresCalmKeeps DEF CoreInv, SwitchInv
<1>2. CASE ~Crash
  <2>1. Calm
    BY <1>2, OutsideCalm DEF CoreInv
  <2>2. \A r \in Runs : run'[r].on \subseteq run[r].on /\ run[r].on \subseteq Cores
    BY <1>0, <2>1 DEF Calm, Milder, RunState
  <2>3. CASE UNCHANGED where
    BY <2>1, <2>3, MilderCores, CoresCalmKeeps DEF CoreInv
  <2>4. ASSUME NEW r \in Runs, Quarantine(r)  PROVE CoresHeld'
    <3>1. \A c \in Cores : where'[c] \in {where[c], "quarantined"}
      BY <2>4 DEF Quarantine
    <3> QED  BY <2>2, <3>1, CoresCalmKeeps DEF CoresCalm, CoreInv
  <2>5. ASSUME NEW c \in Cores, MoveByHand(c)  PROVE CoresHeld'
    <3>1. \A r \in Runs : c \notin run[r].on
      BY <2>5 DEF MoveByHand, CoreInv, CoresHeld
    <3>2. \A d \in Cores \ {c} : where'[d] = where[d]
      BY <2>5 DEF MoveByHand, MoveTo
    <3>3. CoresCalm
      BY <2>2, <3>1, <3>2 DEF CoresCalm
    <3> QED  BY <3>3, CoresCalmKeeps DEF CoreInv
  <2> QED  BY <1>2, <2>3, <2>4, <2>5 DEF Outside, Announce, VmByHand, VmStopped, BuEnds, ProcessesEnd,
                                         AnelasticDies, Cgi
<1> QED  BY <1>1, <1>2

LEMMA BootCores ==
  ASSUME CoreInv, Boot, RunsOver', SwitchInv'
  PROVE  CoresHeld'
<1>1. ~Up /\ UNCHANGED listed
  BY DEF Boot, BootInCloud, BootInHlt, BootCheck, BootMounted, Up
<1>2. listed' = {}
  BY <1>1 DEF CoreInv, SwitchInv, RunnerOwn
<1> QED  BY <1>2, NoCoresCalm, CoresCalmKeeps DEF CoreInv, SwitchInv

-----------------------------------------------------------------------------
(* Runs that have not started *)

\* A run is announced once, and until its handler starts it no thread knows it.
LaterFresh == \A r \in Runs : r > spent["run"] => Fresh(r)
WaitingFresh ==
  \A i \in 1 .. Len(cmds) : cmds[i].op = "run" =>
    /\ cmds[i].run \in Runs /\ Fresh(cmds[i].run) /\ cmds[i].run <= spent["run"]
    /\ \A j \in 1 .. Len(cmds) : cmds[j].op = "run" /\ cmds[j].run = cmds[i].run => i = j
StartingFresh ==
  cr.pc = "start" =>
    /\ cr.cur \in Runs /\ Fresh(cr.cur) /\ cr.cur <= spent["run"]
    /\ \A i \in 1 .. Len(cmds) : cmds[i].op = "run" => cmds[i].run # cr.cur
RunCommandsFresh == LaterFresh /\ WaitingFresh /\ StartingFresh

\* No run is announced, and the first k commands are taken.
RunsAfter(k) == \A i \in 1 .. Len(cmds') : cmds'[i].op = "run" =>
                  i + k \in 1 .. Len(cmds) /\ cmds'[i] = cmds[i + k]
NotMoreCommands == spent'["run"] = spent["run"] /\ (RunsAfter(0) \/ RunsAfter(1))
CommandsCalm == NotMoreCommands /\ (cr'.pc = "start" => cr.pc = "start" /\ cr'.cur = cr.cur)

LEMMA NotMoreKeeps ==
  ASSUME SwitchInv, RunCommandsFresh, FreshKept, NotMoreCommands
  PROVE  LaterFresh' /\ WaitingFresh'
<1>1. PICK k \in {0, 1} : RunsAfter(k)
  BY DEF NotMoreCommands
<1>2. Len(cmds) \in Nat
  BY DEF SwitchInv, CloudTypeOK
<1>3. LaterFresh'
  BY DEF RunCommandsFresh, LaterFresh, FreshKept, NotMoreCommands
<1>4. ASSUME NEW i \in 1 .. Len(cmds'), cmds'[i].op = "run"
      PROVE  /\ \E r \in Runs : r = cmds'[i].run /\ r <= spent'["run"] /\ Fresh(r)'
             /\ \A j \in 1 .. Len(cmds') : cmds'[j].op = "run" /\ cmds'[j].run = cmds'[i].run => i = j
  <2>1. i + k \in 1 .. Len(cmds) /\ cmds'[i] = cmds[i + k]
    BY <1>1, <1>4 DEF RunsAfter
  <2>2. cmds[i + k].run \in Runs /\ Fresh(cmds[i + k].run) /\ cmds[i + k].run <= spent["run"]
    BY <1>4, <2>1 DEF RunCommandsFresh, WaitingFresh
  <2>3. ASSUME NEW j \in 1 .. Len(cmds'), cmds'[j].op = "run", cmds'[j].run = cmds'[i].run
        PROVE  i = j
    <3>1. j + k \in 1 .. Len(cmds) /\ cmds'[j] = cmds[j + k]
      BY <1>1, <2>3 DEF RunsAfter
    <3>2. i + k = j + k
      BY <1>4, <2>1, <2>3, <3>1 DEF RunCommandsFresh, WaitingFresh
    <3> QED  BY <3>2
  <2>4. \E r \in Runs : r = cmds'[i].run /\ r <= spent'["run"] /\ Fresh(r)'
    BY <2>1, <2>2 DEF NotMoreCommands, FreshKept
  <2> QED  BY <2>3, <2>4
<1>5. \A i \in 1 .. Len(cmds') : cmds'[i].op = "run" =>
        /\ cmds'[i].run \in Runs /\ cmds'[i].run <= spent'["run"]
        /\ cmds'[i].run \notin listed' /\ run'[cmds'[i].run].we = "no" /\ shut'[cmds'[i].run] = "none"
  BY <1>4 DEF Fresh
<1>6. WaitingFresh'
  BY <1>4, <1>5 DEF WaitingFresh, Fresh
<1> QED  BY <1>3, <1>6

LEMMA CommandsCalmKeeps ==
  ASSUME SwitchInv, RunCommandsFresh, FreshKept, CommandsCalm
  PROVE  RunCommandsFresh'
<1>1. ASSUME cr'.pc = "start"
      PROVE  /\ \E r \in Runs : r = cr'.cur /\ r <= spent'["run"] /\ Fresh(r)'
             /\ \A i \in 1 .. Len(cmds') : cmds'[i].op = "run" => cmds'[i].run # cr'.cur
  <2>1. cr.pc = "start" /\ cr'.cur = cr.cur
    BY <1>1 DEF CommandsCalm
  <2>2. cr.cur \in Runs /\ Fresh(cr.cur) /\ cr.cur <= spent["run"]
    BY <2>1 DEF RunCommandsFresh, StartingFresh
  <2>3. \E r \in Runs : r = cr'.cur /\ r <= spent'["run"] /\ Fresh(r)'
    BY <2>1, <2>2 DEF CommandsCalm, NotMoreCommands, FreshKept
  <2>4. PICK k \in {0, 1} : RunsAfter(k)
    BY DEF CommandsCalm, NotMoreCommands
  <2>5. ASSUME NEW i \in 1 .. Len(cmds'), cmds'[i].op = "run"
        PROVE  cmds'[i].run # cr'.cur
    <3>1. i + k \in 1 .. Len(cmds) /\ cmds'[i] = cmds[i + k]
      BY <2>4, <2>5 DEF RunsAfter
    <3> QED  BY <2>1, <2>5, <3>1 DEF RunCommandsFresh, StartingFresh
  <2> QED  BY <2>3, <2>5
<1>2. cr'.pc = "start" =>
        /\ cr'.cur \in Runs /\ cr'.cur <= spent'["run"]
        /\ cr'.cur \notin listed' /\ run'[cr'.cur].we = "no" /\ shut'[cr'.cur] = "none"
  BY <1>1 DEF Fresh
<1>3. StartingFresh'
  BY <1>1, <1>2 DEF StartingFresh, Fresh
<1> QED  BY <1>3, NotMoreKeeps DEF CommandsCalm, RunCommandsFresh

LEMMA SameCommands ==
  ASSUME SwitchInv, UNCHANGED cmds  PROVE RunsAfter(0)
<1>1. Len(cmds) \in Nat
  BY DEF SwitchInv, CloudTypeOK
<1> QED  BY <1>1 DEF RunsAfter

LEMMA TakenCommands ==
  ASSUME SwitchInv, cmds # <<>>, cmds' = Tail(cmds)  PROVE RunsAfter(1)
<1>1. cmds \in Seq(Command) /\ Len(cmds) \in Nat
  BY DEF SwitchInv, CloudTypeOK
<1>2. Len(cmds') = Len(cmds) - 1 /\ \A i \in 1 .. Len(cmds') : cmds'[i] = cmds[i + 1]
  BY <1>1, HeadTailProperties
<1> QED  BY <1>1, <1>2 DEF RunsAfter

LEMMA MoreCommands ==
  ASSUME SwitchInv, NEW c \in Command, cmds' = Append(cmds, c)
  PROVE  /\ Len(cmds') = Len(cmds) + 1 /\ cmds'[Len(cmds) + 1] = c
         /\ \A i \in 1 .. Len(cmds) : cmds'[i] = cmds[i]
         /\ c.op # "run" => RunsAfter(0)
<1>1. cmds \in Seq(Command) /\ Len(cmds) \in Nat
  BY DEF SwitchInv, CloudTypeOK
<1>2. /\ Len(cmds') = Len(cmds) + 1 /\ cmds'[Len(cmds) + 1] = c
      /\ \A i \in 1 .. Len(cmds) : cmds'[i] = cmds[i]
  BY <1>1, AppendProperties
<1> QED  BY <1>1, <1>2 DEF RunsAfter

LEMMA RunBounded ==
  "run" \in Bounded /\ \A b \in {"end", "stop", "exclude", "include", "byhand", "quarantine", "anelastic",
                                 "script", "unwritable", "crash"} : b \in Bounded /\ "run" \in Bounded \ {b}
BY DEF Bounded

LEMMA NotRunSpent ==
  ASSUME CloudTypeOK,
         UNCHANGED spent \/ Ignite \/ Extinguish \/ Answered \/ NotAnswered
         \/ \E b \in {"end", "stop", "exclude", "include", "byhand", "quarantine", "anelastic",
                      "script", "unwritable", "crash"} : Spend(b)
  PROVE  spent'["run"] = spent["run"]
<1>1. CASE UNCHANGED spent
  BY <1>1
<1>2. CASE Ignite \/ Extinguish
  BY <1>2, ScriptType, RunBounded
<1>3. CASE Answered \/ NotAnswered
  BY <1>3, AnsweredType, RunBounded
<1>4. ASSUME NEW b \in {"end", "stop", "exclude", "include", "byhand", "quarantine", "anelastic",
                       "script", "unwritable", "crash"}, Spend(b)
      PROVE  spent'["run"] = spent["run"]
  BY <1>4, SpendType, RunBounded
<1> QED  BY <1>1, <1>2, <1>3, <1>4

LEMMA ThreadsCommands ==
  ASSUME SwitchInv, \/ Boot
                    \/ \E r \in Runs : WaitForEnd(r)
                    \/ \E t \in Threads : Shutdown(t)
  PROVE  CommandsCalm
<1>1. UNCHANGED <<cr, cmds>>
  BY DEF Boot, BootInCloud, BootInHlt, BootCheck, BootMounted,
         WaitForEnd, EndClear, EndTimeout, EndRemove, EndIgnite,
         Shutdown, ShutKill, ShutClear, ShutRemove, ShutCheck, ShutIgnite
<1>2. UNCHANGED spent \/ Ignite \/ Extinguish \/ Answered \/ NotAnswered
  BY DEF Boot, BootInCloud, BootInHlt, BootCheck, BootMounted,
         WaitForEnd, EndClear, EndTimeout, EndRemove, EndIgnite,
         Shutdown, ShutKill, ShutClear, ShutRemove, ShutCheck, ShutIgnite
<1>3. spent'["run"] = spent["run"]
  BY <1>2, NotRunSpent DEF SwitchInv
<1> QED  BY <1>1, <1>3, SameCommands DEF CommandsCalm, NotMoreCommands

LEMMA OpenCommands ==
  ASSUME SwitchInv, NEW op \in {"exclude", "include"}, Open(op)
  PROVE  RunsAfter(0)
<1>1. Cmd(op, NoRun) \in Command /\ Cmd(op, NoRun).op # "run"
  BY DEF Cmd, Command
<1> QED  BY <1>1, SameCommands, MoreCommands DEF Open

LEMMA RangerCommands ==
  ASSUME SwitchInv, NEW c \in Cores, Ranger(c)
  PROVE  CommandsCalm
<1>1. UNCHANGED <<cr, spent>>
  BY DEF Ranger, RangerIdle, RangerCloud
<1>2. RunsAfter(0)
  BY SameCommands, OpenCommands DEF Ranger, RangerIdle, RangerCloud
<1> QED  BY <1>1, <1>2 DEF CommandsCalm, NotMoreCommands

LEMMA RunnerCommands ==
  ASSUME SwitchInv, RunRanger, ~NewRunCmd
  PROVE  CommandsCalm
<1>0. cr \in RunnerState /\ CloudTypeOK
  BY DEF SwitchInv, CloudTypeOK
<1>1. UNCHANGED cmds \/ (cmds # <<>> /\ cmds' = Tail(cmds))
  BY DEF RunRanger, RunCommands, NewRunStart, EndRunCmd, QuarantinedCmd,
       Stop, StopCmd, StopMask, StopFail, StopDone, Exclude, ExcludeCmd, ExcludeError, ExcludeSet,
       ExcludeRuns, ExcludeMove, ExcludeFail,
       ExcludeIgnite, Include, IncludeCmd, IncludeLock, IncludeStop, IncludeRetry, IncludeGiveUp,
       IncludeLeave, IncludeEnd, ShutQuarantined, StopRun, Comes
<1>2. RunsAfter(0) \/ RunsAfter(1)
  BY <1>1, SameCommands, TakenCommands
<1>3. UNCHANGED spent \/ Ignite \/ Extinguish \/ Spend("script") \/ Spend("unwritable")
  BY DEF RunRanger, RunCommands, NewRunStart, EndRunCmd, QuarantinedCmd,
       Stop, StopCmd, StopMask, StopFail, StopDone, Exclude, ExcludeCmd, ExcludeError, ExcludeSet,
       ExcludeRuns, ExcludeMove, ExcludeFail,
       ExcludeIgnite, Include, IncludeCmd, IncludeLock, IncludeStop, IncludeRetry, IncludeGiveUp,
       IncludeLeave, IncludeEnd, ShutQuarantined, StopRun, Unasked
<1>4. spent'["run"] = spent["run"]
  BY <1>0, <1>3, NotRunSpent
<1>5. cr'.pc # "start"
  <2>1. CASE RunCommands \/ Stop
    <3>1. \/ cr' = RunnerIdle
          \/ cr.pc = "idle" /\ cr' = cr
          \/ cr' = [cr EXCEPT !.pc = "stop"]
          \/ cr' = [cr EXCEPT !.pc = "stmask", !.q = Quarantined, !.todo = listed]
      BY <2>1 DEF RunCommands, NewRunStart, EndRunCmd, QuarantinedCmd, Stop, StopCmd, StopMask,
                  StopFail, StopDone, Return, Goto, Comes
    <3>2. [cr EXCEPT !.pc = "stmask", !.q = Quarantined, !.todo = listed].pc = "stmask"
          /\ [cr EXCEPT !.pc = "stop"].pc = "stop"
      BY <1>0 DEF RunnerState
    <3>3. RunnerIdle.pc = "idle"
      BY DEF RunnerIdle
    <3>4. cr'.pc \in {"idle", "stmask", "stop"}
      BY <3>1, <3>2, <3>3, Zenon
    <3> QED  BY <3>4
  <2>2. CASE Exclude
    <3>1. \/ cr' = RunnerIdle
          \/ cr.pc # "start" /\ \E pc \in {"exset", "exignite"} : cr' = [cr EXCEPT !.pc = pc]
          \/ cr' = [cr EXCEPT !.pc = "exquar", !.q = Quarantined]
          \/ cr' = [cr EXCEPT !.pc = "exruns", !.todo = listed]
      BY <2>2 DEF Exclude, ExcludeCmd, ExcludeError, ExcludeSet, ExcludeRuns, ExcludeMove, ExcludeFail,
                  ExcludeIgnite, Return, Goto, Comes
    <3>2. /\ [cr EXCEPT !.pc = "exquar", !.q = Quarantined].pc = "exquar"
          /\ [cr EXCEPT !.pc = "exruns", !.todo = listed].pc = "exruns"
          /\ \A pc \in {"exset", "exignite"} : [cr EXCEPT !.pc = pc].pc = pc
      BY <1>0 DEF RunnerState
    <3>3. RunnerIdle.pc = "idle"
      BY DEF RunnerIdle
    <3>4. cr'.pc \in {"idle", "exquar", "exruns", "exset", "exignite"}
      BY <3>1, <3>2, <3>3, Zenon
    <3> QED  BY <3>4
  <2>3. CASE Include
    <3>1. \/ cr' = RunnerIdle
          \/ \E pc \in {"inlock", "instop", "inpoll", "inend"} : cr' = [cr EXCEPT !.pc = pc]
          \/ cr.pc = "inpoll" /\ cr' = [cr EXCEPT !.retried = TRUE]
      BY <2>3 DEF Include, IncludeCmd, IncludeLock, IncludeStop, IncludeRetry, IncludeGiveUp,
                  IncludeLeave, IncludeEnd, Return, Goto
    <3> QED  BY <1>0, <3>1 DEF RunnerIdle, RunnerState
  <2>4. ASSUME NEW r \in Runs, ShutQuarantined(r) \/ StopRun(r)  PROVE cr'.pc # "start"
    BY <1>0, <2>4 DEF ShutQuarantined, StopRun, RunnerState
  <2> QED  BY <2>1, <2>2, <2>3, <2>4 DEF RunRanger, RunCommands
<1> QED  BY <1>2, <1>4, <1>5 DEF CommandsCalm, NotMoreCommands

LEMMA OutsideCommands ==
  ASSUME SwitchInv, Outside, ~Crash, ~Announce
  PROVE  CommandsCalm
<1>1. UNCHANGED cr
  BY DEF Outside, VmByHand, VmStopped, BuEnds, ProcessesEnd, Quarantine, AnelasticDies, Cgi, MoveByHand
<1>2. \/ UNCHANGED spent
      \/ \E b \in {"end", "stop", "exclude", "include", "byhand", "quarantine", "anelastic",
                   "script", "unwritable", "crash"} : Spend(b)
  BY DEF Outside, VmByHand, VmStopped, BuEnds, ProcessesEnd, Quarantine, AnelasticDies, Cgi, MoveByHand
<1>3. spent'["run"] = spent["run"]
  BY <1>2, NotRunSpent DEF SwitchInv
<1>4. /\ \A r \in Runs : \A op \in {"end", "quarantined"} : Cmd(op, r) \in Command /\ Cmd(op, r).op # "run"
      /\ \A op \in {"stop", "exclude", "include"} : Cmd(op, NoRun) \in Command /\ Cmd(op, NoRun).op # "run"
  BY DEF Cmd, Command
<1>5. UNCHANGED cmds \/ \E c \in Command : c.op # "run" /\ cmds' = Append(cmds, c)
  BY <1>4 DEF Outside, VmByHand, VmStopped, BuEnds, ProcessesEnd, Quarantine, AnelasticDies, Cgi, MoveByHand,
              EndFile
<1>6. RunsAfter(0)
  BY <1>5, SameCommands, MoreCommands
<1> QED  BY <1>1, <1>3, <1>6 DEF CommandsCalm, NotMoreCommands

LEMMA AnnounceFresh ==
  ASSUME SwitchInv, RunCommandsFresh, Announce
  PROVE  RunCommandsFresh'
<1>0. /\ "run" \in Bounded /\ spent["run"] \in Nat /\ Runs \subseteq Nat /\ Len(cmds) \in Nat
      /\ UNCHANGED <<run, listed, shut, cr>>
  <2>1. Runs \subseteq Nat
    BY CloudAssumption, FS_CardinalityType
  <2> QED  BY <2>1, RunBounded DEF SwitchInv, CloudTypeOK, Announce
<1>1. PICK n : n = spent'["run"]
  OBVIOUS
<1>2. n \in Runs /\ n = spent["run"] + 1 /\ cmds' = Append(cmds, Cmd("run", n))
  BY <1>0, <1>1, SpendType DEF SwitchInv, Announce
<1>3. Cmd("run", n) \in Command /\ Cmd("run", n).run = n
  BY <1>2 DEF Cmd, Command
<1>4. /\ Len(cmds') = Len(cmds) + 1 /\ cmds'[Len(cmds) + 1].run = n
      /\ \A i \in 1 .. Len(cmds) : cmds'[i] = cmds[i]
  BY <1>2, <1>3, MoreCommands
<1>5. /\ n > spent["run"] /\ Fresh(n) /\ n = spent'["run"]
      /\ \A r \in Runs : r > n => r > spent["run"]
  BY <1>0, <1>1, <1>2 DEF RunCommandsFresh, LaterFresh
<1>5a. \A m \in Runs : m <= spent["run"] => m <= spent'["run"] /\ m # n
  <2>1. \A m \in Runs : m <= spent["run"] => m <= n /\ m # n
    BY <1>0, <1>2
  <2> QED  BY <1>5, <2>1
<1>6. \A r \in Runs : Fresh(r) => Fresh(r)'
  BY <1>0 DEF Fresh
<1>7. LaterFresh'
  BY <1>5, <1>6 DEF RunCommandsFresh, LaterFresh
<1>8. ASSUME NEW i \in 1 .. Len(cmds'), cmds'[i].op = "run"
      PROVE  /\ \E r \in Runs : r = cmds'[i].run /\ r <= spent'["run"] /\ Fresh(r)'
             /\ i \in 1 .. Len(cmds) => cmds'[i] = cmds[i] /\ cmds'[i].run <= spent["run"]
             /\ i \notin 1 .. Len(cmds) => i = Len(cmds) + 1 /\ cmds'[i].run = n
  <2>1. CASE i \in 1 .. Len(cmds)
    <3>1. cmds'[i] = cmds[i] /\ cmds[i].run \in Runs /\ Fresh(cmds[i].run) /\ cmds[i].run <= spent["run"]
      BY <1>4, <1>8, <2>1 DEF RunCommandsFresh, WaitingFresh
    <3>2. cmds[i].run <= spent'["run"]
      BY <1>5a, <3>1
    <3> QED  BY <1>6, <2>1, <3>1, <3>2
  <2>2. CASE i = Len(cmds) + 1
    BY <1>0, <1>2, <1>4, <1>5, <1>6, <2>2
  <2> QED  BY <1>0, <1>4, <2>1, <2>2
<1>9. ASSUME NEW i \in 1 .. Len(cmds'), cmds'[i].op = "run",
             NEW j \in 1 .. Len(cmds'), cmds'[j].op = "run", cmds'[j].run = cmds'[i].run
      PROVE  i = j
  <2>1. CASE i \in 1 .. Len(cmds) /\ j \in 1 .. Len(cmds)
    BY <1>8, <1>9, <2>1 DEF RunCommandsFresh, WaitingFresh
  <2>2. CASE i \notin 1 .. Len(cmds) /\ j \notin 1 .. Len(cmds)
    BY <1>8, <1>9, <2>2
  <2>3. ~(n <= spent["run"])
    BY <1>0, <1>2
  <2> QED  BY <1>8, <1>9, <2>1, <2>2, <2>3
<1>10. ASSUME cr'.pc = "start"
       PROVE  /\ \E r \in Runs : r = cr'.cur /\ r <= spent'["run"] /\ Fresh(r)'
              /\ \A i \in 1 .. Len(cmds') : cmds'[i].op = "run" => cmds'[i].run # cr'.cur
  <2>1. cr.pc = "start" /\ cr'.cur = cr.cur
    BY <1>0, <1>10
  <2>2. cr.cur \in Runs /\ Fresh(cr.cur) /\ cr.cur <= spent["run"]
    BY <2>1 DEF RunCommandsFresh, StartingFresh
  <2>3. cr.cur <= spent'["run"] /\ cr.cur # n
    BY <1>5a, <2>2
  <2>4. \A i \in 1 .. Len(cmds') : cmds'[i].op = "run" => cmds'[i].run # cr'.cur
    BY <1>8, <2>1, <2>3 DEF RunCommandsFresh, StartingFresh
  <2> QED  BY <1>6, <2>1, <2>2, <2>3, <2>4
<1>11. \A i \in 1 .. Len(cmds') : cmds'[i].op = "run" =>
         /\ cmds'[i].run \in Runs /\ cmds'[i].run <= spent'["run"]
         /\ cmds'[i].run \notin listed' /\ run'[cmds'[i].run].we = "no" /\ shut'[cmds'[i].run] = "none"
  BY <1>8 DEF Fresh
<1>12. cr'.pc = "start" =>
         /\ cr'.cur \in Runs /\ cr'.cur <= spent'["run"]
         /\ cr'.cur \notin listed' /\ run'[cr'.cur].we = "no" /\ shut'[cr'.cur] = "none"
  BY <1>10 DEF Fresh
<1>13. WaitingFresh' /\ StartingFresh'
  BY <1>9, <1>10, <1>11, <1>12 DEF WaitingFresh, StartingFresh, Fresh
<1> QED  BY <1>7, <1>13 DEF RunCommandsFresh

LEMMA NewRunFresh ==
  ASSUME SwitchInv, RunsOver, RunCommandsFresh, NewRunCmd
  PROVE  RunCommandsFresh'
<1>0. cr \in RunnerState /\ cmds \in Seq(Command) /\ Len(cmds) \in Nat /\ cmds # <<>>
      /\ cmds' = Tail(cmds) /\ Head(cmds).op = "run"
  BY DEF SwitchInv, CloudTypeOK, NewRunCmd, Comes
<1>1. 1 \in 1 .. Len(cmds) /\ Head(cmds) = cmds[1] /\ Len(cmds') = Len(cmds) - 1
      /\ \A i \in 1 .. Len(cmds') : cmds'[i] = cmds[i + 1] /\ i + 1 \in 1 .. Len(cmds) /\ i + 1 # 1
  BY <1>0, HeadTailProperties
<1>2. FreshKept
  <2>1. ~NewRunStart /\ ~EndRunCmd
    BY DEF NewRunCmd, NewRunStart, EndRunCmd, Comes
  <2> QED  BY <2>1, RunnerCalm, CalmKeeps DEF RunRanger, RunCommands, FreshKept
<1>3. NotMoreCommands
  BY <1>0, TakenCommands DEF NewRunCmd, NotMoreCommands
<1>4. \/ cr' = RunnerIdle
      \/ cr' = [cr EXCEPT !.pc = "start", !.cur = This]
  BY DEF NewRunCmd, Return
<1>5. CASE cr' = RunnerIdle
  <2>1. cr'.pc = "idle"
    BY <1>5 DEF RunnerIdle
  <2> QED  BY <1>2, <1>3, <2>1, CommandsCalmKeeps DEF CommandsCalm
<1>6. CASE cr' = [cr EXCEPT !.pc = "start", !.cur = This]
  <2>1. PICK r : r = This
    OBVIOUS
  <2>2. r = cmds[1].run /\ r \in Runs /\ Fresh(r) /\ r <= spent["run"]
    BY <1>0, <1>1, <2>1 DEF This, RunCommandsFresh, WaitingFresh
  <2>3. cr'.cur = r
    BY <1>0, <1>6, <2>1 DEF RunnerState
  <2>4. Fresh(r)' /\ r <= spent'["run"]
    BY <1>2, <1>3, <2>2 DEF FreshKept, NotMoreCommands
  <2>5. ASSUME NEW i \in 1 .. Len(cmds'), cmds'[i].op = "run"  PROVE cmds'[i].run # r
    BY <1>0, <1>1, <2>2, <2>5 DEF RunCommandsFresh, WaitingFresh
  <2>6. StartingFresh'
    BY <2>2, <2>3, <2>4, <2>5 DEF StartingFresh, Fresh
  <2> QED  BY <1>2, <1>3, <2>6, NotMoreKeeps DEF RunCommandsFresh
<1> QED  BY <1>4, <1>5, <1>6

LEMMA StartFresh ==
  ASSUME SwitchInv, RunsOver, RunCommandsFresh, NewRunStart
  PROVE  RunCommandsFresh'
<1>1. /\ cr.pc = "start" /\ cr' = RunnerIdle /\ cr'.pc = "idle" /\ UNCHANGED <<cmds, spent>>
  BY DEF NewRunStart, Return, RunnerIdle
<1>2. PICK n : n = cr.cur
  OBVIOUS
<1>3. /\ n \in Runs /\ Fresh(n) /\ n <= spent["run"] /\ spent["run"] \in Nat /\ Runs \subseteq Nat
      /\ \A i \in 1 .. Len(cmds) : cmds[i].op = "run" => cmds[i].run # n
  <2>1. Runs \subseteq Nat
    BY CloudAssumption, FS_CardinalityType
  <2> QED  BY <1>1, <1>2, <2>1, RunBounded DEF RunCommandsFresh, StartingFresh, SwitchInv, CloudTypeOK
<1>4. \A r \in Runs \ {n} : Fresh(r) => Fresh(r)'
  BY <1>2, <1>3, StartOver
<1>5. LaterFresh'
  <2>1. \A r \in Runs : r > spent["run"] => r # n
    BY <1>3
  <2> QED  BY <1>1, <1>4, <2>1 DEF RunCommandsFresh, LaterFresh
<1>6. ASSUME NEW i \in 1 .. Len(cmds), cmds[i].op = "run"
      PROVE  \E r \in Runs : r = cmds[i].run /\ r <= spent["run"] /\ Fresh(r)'
  BY <1>3, <1>4, <1>6 DEF RunCommandsFresh, WaitingFresh
<1>7. \A i \in 1 .. Len(cmds) : cmds[i].op = "run" =>
        /\ cmds[i].run \in Runs /\ cmds[i].run <= spent["run"]
        /\ cmds[i].run \notin listed' /\ run'[cmds[i].run].we = "no" /\ shut'[cmds[i].run] = "none"
  BY <1>6 DEF Fresh
<1>8. WaitingFresh'
  BY <1>1, <1>7 DEF RunCommandsFresh, WaitingFresh, Fresh
<1> QED  BY <1>1, <1>5, <1>8 DEF RunCommandsFresh, StartingFresh

LEMMA CrashFresh ==
  ASSUME Crash  PROVE RunCommandsFresh'
<1>1. cmds' = <<>> /\ cr'.pc = "idle"
  BY DEF Crash, RunnerIdle
<1>2. LaterFresh'
  BY CrashOver DEF LaterFresh
<1> QED  BY <1>1, <1>2 DEF RunCommandsFresh, WaitingFresh, StartingFresh

-----------------------------------------------------------------------------
(* The inductive invariant *)

CloudInv == SwitchInv /\ RunsOver /\ CoresHeld /\ RunCommandsFresh

LEMMA CloudInit == Init => CloudInv
<1> SUFFICES ASSUME Init PROVE CloudInv
  OBVIOUS
<1>1. /\ listed = {} /\ \A r \in Runs : run[r] = Unannounced
      /\ \A t \in Threads : shut[t] = "none"
      /\ cmds = <<>> /\ cr.pc = "idle"
  BY DEF Init, RunnerIdle
<1>2. RunsOver /\ CoresHeld /\ \A r \in Runs : Fresh(r)
  BY <1>1, FgNotRun DEF RunsOver, CoresHeld, Fresh, Unannounced
<1> QED  BY <1>1, <1>2, SwitchInit DEF CloudInv, RunCommandsFresh, LaterFresh, WaitingFresh, StartingFresh

LEMMA CloudStep ==
  ASSUME CloudInv, [Next]_cloudVars
  PROVE  CloudInv'
<1>0. SwitchInv' /\ SwitchInv /\ RunsOver /\ CoreInv /\ RunCommandsFresh
  BY SwitchStep DEF CloudInv, CoreInv
<1>1. CASE Boot
  BY <1>0, <1>1, BootOver, BootCores, ThreadsCommands, CommandsCalmKeeps DEF CloudInv
<1>2. CASE NewRunStart
  <2>1. Fresh(cr.cur)
    BY <1>2 DEF NewRunStart, CloudInv, RunCommandsFresh, StartingFresh
  <2> QED  BY <1>0, <1>2, <2>1, StartOver, RunnerCores, StartFresh DEF CloudInv, RunRanger, RunCommands
<1>3. CASE EndRunCmd
  <2>1. ~NewRunCmd /\ RunRanger
    BY <1>3 DEF EndRunCmd, NewRunCmd, Comes, RunRanger, RunCommands
  <2> QED  BY <1>0, <1>3, <2>1, EndRunOver, RunnerCores, RunnerCommands, CommandsCalmKeeps DEF CloudInv
<1>4. CASE RunRanger /\ ~NewRunStart /\ ~EndRunCmd
  <2>1. RunsOver' /\ FreshKept
    BY <1>0, <1>4, RunnerCalm, CalmKeeps DEF FreshKept
  <2>2. RunCommandsFresh'
    BY <1>0, <1>4, <2>1, RunnerCommands, CommandsCalmKeeps, NewRunFresh
  <2> QED  BY <1>0, <1>4, <2>1, <2>2, RunnerCores DEF CloudInv
<1>5. CASE Crash
  BY <1>0, <1>5, CrashOver, CrashFresh, OutsideCores DEF CloudInv, Outside
<1>6. CASE Outside /\ ~Crash
  <2>1. RunsOver' /\ FreshKept
    BY <1>0, <1>6, OutsideCalm, CalmKeeps DEF FreshKept
  <2>2. RunCommandsFresh'
    BY <1>0, <1>6, <2>1, OutsideCommands, CommandsCalmKeeps, AnnounceFresh
  <2> QED  BY <1>0, <1>6, <2>1, <2>2, OutsideCores DEF CloudInv
<1>7. ASSUME NEW c \in Cores, Ranger(c)  PROVE CloudInv'
  BY <1>0, <1>7, RangerOver, RangerCores, RangerCommands, CommandsCalmKeeps DEF CloudInv
<1>8. ASSUME NEW r \in Runs, WaitForEnd(r)  PROVE CloudInv'
  BY <1>0, <1>8, WaitForEndOver, WaitForEndCores, ThreadsCommands, CommandsCalmKeeps DEF CloudInv
<1>9. ASSUME NEW t \in Threads, Shutdown(t)  PROVE CloudInv'
  BY <1>0, <1>9, ShutdownOver, ShutdownCores, ThreadsCommands, CommandsCalmKeeps DEF CloudInv
<1>10. CASE UNCHANGED cloudVars
  <2>1. RunsOver' /\ CoresHeld' /\ RunCommandsFresh'
    BY <1>10 DEF cloudVars, CloudInv, RunsOver, CoresHeld, RunCommandsFresh, LaterFresh, WaitingFresh,
                 StartingFresh, Fresh, Of
  <2> QED  BY <1>0, <2>1 DEF CloudInv
<1> QED  BY <1>1, <1>2, <1>3, <1>4, <1>5, <1>6, <1>7, <1>8, <1>9, <1>10 DEF Next

LEMMA CloudInductive == Spec => []CloudInv
BY CloudInit, CloudStep, PTL DEF Spec

\* Whatever is asked for, moved by hand, ends or crashes: no handler, thread or restart
\* of hltd gives a core to the cloud or to idle while processes of its run compute on it.
THEOREM CoresStayWithRuns == Spec => []CoresOfRuns
<1>1. CloudInv => CoresOfRuns
  BY DEF CloudInv, CoresHeld, CoresOfRuns
<1> QED  BY <1>1, CloudInductive, PTL
=============================================================================
