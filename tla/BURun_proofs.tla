---------------------------- MODULE BURun_proofs ----------------------------
(***************************************************************************)
(* Runs on a builder unit: the theorems that the types hold, that a run    *)
(* is complete when the checker says so and then worked on by no unit,     *)
(* that the lists are respected, that units the lists exclude take no      *)
(* part, and that no unit begins a run twice unless it was asked once      *)
(* more than needed, for all units, runs and attempts.                     *)
(***************************************************************************)
EXTENDS BURun, FiniteSetTheorems, SequenceTheorems, TLAPS

-----------------------------------------------------------------------------
(* Types *)

\* findRunAndNotify has been given a unit.
RangerHasUnit == rr.pc = "lock" => rr.to \in FUs
TypeInv == BUTypeOK /\ RangerHasUnit

LEMMA SpendType ==
  ASSUME NEW b \in Bounded, spent \in 0 .. MaxTotal, Spend(b)
  PROVE  spent' \in 0 .. MaxTotal
BY BUAssumption DEF Spend

LEMMA CommandsType ==
  ASSUME cmds \in Seq(Runs \union {Herod})
  PROVE  /\ \A c \in Runs \union {Herod} : Append(cmds, c) \in Seq(Runs \union {Herod})
         /\ cmds # <<>> => /\ Head(cmds) \in Runs \union {Herod}
                           /\ Tail(cmds) \in Seq(Runs \union {Herod})
<1>1. \A c \in Runs \union {Herod} : Append(cmds, c) \in Seq(Runs \union {Herod})
  BY AppendProperties
<1>2. cmds # <<>> => /\ Head(cmds) \in Runs \union {Herod}
                     /\ Tail(cmds) \in Seq(Runs \union {Herod})
  BY HeadTailProperties
<1> QED  BY <1>1, <1>2

LEMMA StartType ==
  ASSUME fu \in [FUs -> UnitState], NEW f \in FUs, NEW r \in Runs
  PROVE  WithStart(f, r) \in [FUs -> UnitState]
BY DEF WithStart, UnitState

LEMMA NotedType ==
  ASSUME BUTypeOK, NEW k, k = known \/ \E f \in FUs, r \in Runs : k = Repeated(f, r)
  PROVE  Noted(k) \in [complete : SUBSET Runs, excused : SUBSET (FUs \X Runs),
                       unlisted : SUBSET Runs, ran : SUBSET (FUs \X Runs),
                       again : SUBSET (FUs \X Runs)]
BY DEF BUTypeOK, Noted, Repeated

LEMMA RunFields ==
  ASSUME run \in [Runs -> RunState], NEW r \in Runs, NEW F \in SUBSET FUs,
         NEW a \in {"none", "wait", "contact", "over"},
         NEW k \in {"none", "eor", "stop", "poll", "remove", "over"}
  PROVE  /\ [run EXCEPT ![r].joined = F] \in [Runs -> RunState]
         /\ [run EXCEPT ![r].pending = F] \in [Runs -> RunState]
         /\ [run EXCEPT ![r].todo = F] \in [Runs -> RunState]
         /\ [run EXCEPT ![r].async = a] \in [Runs -> RunState]
         /\ [run EXCEPT ![r].checker = k] \in [Runs -> RunState]
         /\ [run EXCEPT ![r].todo = F, ![r].async = a] \in [Runs -> RunState]
         /\ [run EXCEPT ![r].checker = k, ![r].pending = F] \in [Runs -> RunState]
         /\ [run EXCEPT ![r].async = a, ![r].checker = k] \in [Runs -> RunState]
<1>1. [run EXCEPT ![r].joined = F] \in [Runs -> RunState]
  BY DEF RunState
<1>2. [run EXCEPT ![r].pending = F] \in [Runs -> RunState]
  BY DEF RunState
<1>3. [run EXCEPT ![r].todo = F] \in [Runs -> RunState]
  BY DEF RunState
<1>4. [run EXCEPT ![r].async = a] \in [Runs -> RunState]
  BY DEF RunState
<1>5. [run EXCEPT ![r].checker = k] \in [Runs -> RunState]
  BY DEF RunState
<1>6. [run EXCEPT ![r].todo = F, ![r].async = a] \in [Runs -> RunState]
  BY ZenonT(60) DEF RunState
<1>7. [run EXCEPT ![r].checker = k, ![r].pending = F] \in [Runs -> RunState]
  BY ZenonT(60) DEF RunState
<1>8. [run EXCEPT ![r].async = a, ![r].checker = k] \in [Runs -> RunState]
  BY ZenonT(60) DEF RunState
<1> QED  BY <1>1, <1>2, <1>3, <1>4, <1>5, <1>6, <1>7, <1>8

LEMMA ReportFields ==
  ASSUME map \in [FUs -> Report], NEW f \in FUs, NEW b \in BOOLEAN
  PROVE  /\ [map EXCEPT ![f].cloud = b] \in [FUs -> Report]
         /\ [map EXCEPT ![f].old = b] \in [FUs -> Report]
         /\ [map EXCEPT ![f].known = TRUE, ![f].ok = b] \in [FUs -> Report]
BY DEF Report

LEMMA UnitFields ==
  ASSUME fu \in [FUs -> UnitState], NEW f \in FUs, NEW b \in BOOLEAN,
         NEW s \in {"up", "stuck", "down"}, NEW w \in SUBSET Runs
  PROVE  /\ [fu EXCEPT ![f].cloud = b] \in [FUs -> UnitState]
         /\ [fu EXCEPT ![f].st = s] \in [FUs -> UnitState]
         /\ [fu EXCEPT ![f].work = w] \in [FUs -> UnitState]
         /\ [fu EXCEPT ![f] = [@ EXCEPT !.st = "down", !.work = {}]] \in [FUs -> UnitState]
BY DEF UnitState

LEMMA FindRunType ==
  ASSUME NEW f \in FUs, NEW override \in BOOLEAN, FindRun(f, override)
  PROVE  rr' \in RangerState /\ RangerHasUnit'
BY DEF FindRun, RangerState, RangerHasUnit

LEMMA FinishedType ==
  ASSUME TypeInv, NEW c \in calls, NEW ok \in BOOLEAN, Finished(c, ok)
  PROVE  /\ calls' \in SUBSET Call /\ run' \in [Runs -> RunState]
         /\ rr' \in RangerState /\ RangerHasUnit'
<1>1. c \in Call
  BY DEF TypeInv, BUTypeOK
<1>2. rr' \in RangerState /\ RangerHasUnit'
  BY DEF TypeInv, BUTypeOK, Finished, RangerHasUnit, RangerIdle, RangerState
<1>3. run' \in [Runs -> RunState]
  <2>1. CASE c.by = "start"
    <3> DEFINE p == run[c.run].pending
               q == IF ok THEN p ELSE p \union {c.to}
    <3>1. run' = [run EXCEPT ![c.run].pending = q]
      BY <2>1 DEF Finished
    <3>2. q \in SUBSET FUs
      BY <1>1 DEF TypeInv, BUTypeOK, Call, RunState
    <3> HIDE DEF q
    <3> QED  BY <1>1, <3>1, <3>2, RunFields DEF TypeInv, BUTypeOK, Call
  <2>2. CASE c.by = "async"
    <3> DEFINE p == run[c.run].pending
               q == IF ok THEN p \ {c.to} ELSE p
    <3>1. run' = [run EXCEPT ![c.run].pending = q]
      BY <2>2 DEF Finished
    <3>2. q \in SUBSET FUs
      BY <1>1 DEF TypeInv, BUTypeOK, Call, RunState
    <3> HIDE DEF q
    <3> QED  BY <1>1, <3>1, <3>2, RunFields DEF TypeInv, BUTypeOK, Call
  <2>3. CASE c.by = "box"
    BY <2>3 DEF Finished, TypeInv, BUTypeOK
  <2> QED  BY <1>1, <2>1, <2>2, <2>3 DEF Call
<1> QED  BY <1>2, <1>3 DEF Finished, TypeInv, BUTypeOK

LEMMA CallTypes ==
  ASSUME TypeInv, NEW c \in calls, Answered(c) \/ Unanswered(c)
  PROVE  TypeInv'
<1>1. /\ c \in Call /\ c.to \in FUs /\ c.run \in Runs /\ c.left \in 1 .. Attempts
      /\ spent \in 0 .. MaxTotal /\ fu \in [FUs -> UnitState] /\ BUTypeOK
      /\ flight \in SUBSET (FUs \X Runs)
  BY DEF TypeInv, BUTypeOK, Call
<1>2. WithStart(c.to, c.run) \in [FUs -> UnitState]
  BY <1>1, StartType
<1>3. CASE Answered(c)
  <2>1. /\ calls' \in SUBSET Call /\ run' \in [Runs -> RunState]
        /\ rr' \in RangerState /\ RangerHasUnit'
    BY <1>3, FinishedType DEF Answered
  <2>2. Noted(known) = known'
    BY <1>3 DEF Answered
  <2>3. known' \in [complete : SUBSET Runs, excused : SUBSET (FUs \X Runs),
                       unlisted : SUBSET Runs, ran : SUBSET (FUs \X Runs),
                       again : SUBSET (FUs \X Runs)]
    BY <1>1, <2>2, NotedType
  <2> QED  BY <1>2, <1>3, <2>1, <2>3 DEF Answered, TypeInv, BUTypeOK
<1>4. CASE Unanswered(c)
  <2>1. /\ calls' \in SUBSET Call /\ run' \in [Runs -> RunState]
        /\ rr' \in RangerState /\ RangerHasUnit'
    <3>1. CASE LastAttempt(c)
      BY <1>4, <3>1, FinishedType DEF Unanswered
    <3>2. CASE ~LastAttempt(c)
      <4>1. c.left - 1 \in 1 .. Attempts
        BY <1>1, <3>2, BUAssumption DEF LastAttempt
      <4>2. [c EXCEPT !.left = @ - 1] \in Call
        BY <1>1, <4>1 DEF Call
      <4>3. calls' = (calls \ {c}) \union {[c EXCEPT !.left = @ - 1]} /\ UNCHANGED <<run, rr>>
        BY <1>4, <3>2 DEF Unanswered
      <4> QED  BY <4>2, <4>3 DEF TypeInv, BUTypeOK, RangerHasUnit
    <3> QED  BY <3>1, <3>2
  <2>2. known' \in [complete : SUBSET Runs, excused : SUBSET (FUs \X Runs),
                    unlisted : SUBSET Runs, ran : SUBSET (FUs \X Runs),
                    again : SUBSET (FUs \X Runs)]
    <3>1. CASE known' = known
      BY <1>1, <3>1 DEF BUTypeOK
    <3>2. CASE known' = Noted(Repeated(c.to, c.run))
      BY <1>1, <3>2, NotedType
    <3> QED  BY <1>4, <3>1, <3>2 DEF Unanswered
  <2>3. fu' \in [FUs -> UnitState] /\ flight' \in SUBSET (FUs \X Runs) /\ spent' \in 0 .. MaxTotal
    <3>1. CASE Up(c.to) /\ Spend("lost") /\ fu' \in {fu, WithStart(c.to, c.run)} /\ UNCHANGED flight
      BY <1>1, <1>2, <3>1, SpendType DEF Bounded
    <3>2. CASE /\ UNCHANGED <<fu, spent>>
               /\ flight' = IF fu[c.to].st = "stuck" THEN flight \union {<<c.to, c.run>>} ELSE flight
      BY <1>1, <3>2
    <3> QED  BY <1>4, <3>1, <3>2 DEF Unanswered
  <2> QED  BY <1>1, <1>4, <2>1, <2>2, <2>3 DEF Unanswered, TypeInv, BUTypeOK
<1> QED  BY <1>3, <1>4

-----------------------------------------------------------------------------
(* The steps, by who takes them *)

RunnerStep == NewRunCmd \/ Started \/ HerodCmd \/ HerodJoined \/ HerodDone \/ \E r \in Runs : HerodRun(r)
CallStep == \E c \in calls : Answered(c) \/ Unanswered(c)
AsyncStep(r) == AsyncWake(r) \/ AsyncCall(r) \/ AsyncRest(r)
BoxStep(f) == BoxCreated(f) \/ BoxRead(f) \/ BoxDropped(f) \/ BoxTorn(f) \/ BoxAges(f)
DirStep(r) == BuOpens(r) \/ BuEnds(r) \/ BuRemoves(r)
WorkEnds(f) == \E r \in Runs : FuEnds(f, r) \/ FuDrops(f, r)
UnitStep(f) == FuToCloud(f) \/ FuFromCloud(f) \/ FuHangs(f) \/ FuRecovers(f)
               \/ FuBoots(f) \/ FuCreatesBox(f)

LEMMA Steps ==
  ASSUME [Next]_buVars
  PROVE  \/ RunnerStep \/ CallStep \/ AttachBox \/ StartIsLong \/ HerodCgi
         \/ \E r \in Runs : AsyncStep(r) \/ CompletedChecker(r) \/ DirStep(r)
         \/ \E f \in FUs : BoxStep(f) \/ UnitStep(f) \/ WorkEnds(f) \/ FuFails(f)
         \/ \E f \in FUs, r \in Runs : FlightLands(f, r)
         \/ UNCHANGED buVars
<1>1. ASSUME NEW by, NEW r, Calling(by, r)  PROVE  CallStep
  BY <1>1 DEF Calling, CallStep
<1>2. RunRanger => RunnerStep \/ CallStep
  BY <1>1 DEF RunRanger, RunnerStep
<1>3. ResourceRanger => AttachBox \/ CallStep \/ \E f \in FUs : BoxStep(f)
  BY <1>1 DEF ResourceRanger, BoxStep
<1>4. ASSUME NEW r \in Runs, AsyncContact(r)  PROVE  CallStep \/ AsyncStep(r)
  BY <1>1, <1>4 DEF AsyncContact, AsyncStep
<1>5. Outside => \/ HerodCgi \/ \E r \in Runs : DirStep(r)
                 \/ \E f \in FUs : BoxStep(f) \/ UnitStep(f) \/ WorkEnds(f) \/ FuFails(f)
  BY BUAssumption DEF Outside, DirStep, BoxStep, UnitStep, WorkEnds
<1>6. ASSUME NEW f \in FUs, Unit(f)
      PROVE  UnitStep(f) \/ WorkEnds(f) \/ \E r \in Runs : FlightLands(f, r)
  BY <1>6 DEF Unit, UnitStep, WorkEnds
<1>7. (\E f \in FUs : BoxAges(f)) => \E f \in FUs : BoxStep(f)
  BY DEF BoxStep
<1> QED  BY <1>2, <1>3, <1>4, <1>5, <1>6, <1>7 DEF Next

LEMMA TypeStep ==
  ASSUME TypeInv, [Next]_buVars
  PROVE  TypeInv'
<1> USE DEF TypeInv, RangerHasUnit
<1>1. CASE RunnerStep
  <2>1. CASE NewRunCmd
    <3>1. Head(cmds) \in Runs /\ cmds' \in Seq(Runs \union {Herod})
      BY <2>1, CommandsType DEF NewRunCmd, BUTypeOK
    <3>2. CASE dir[Head(cmds)] = "gone"
      BY <2>1, <3>1, <3>2 DEF NewRunCmd, BUTypeOK
    <3>3. CASE dir[Head(cmds)] # "gone"
      <4> DEFINE r == Head(cmds)
      <4>1. PICK l \in Lists, young \in SUBSET {f \in box : ~Up(f)} :
              /\ lists' = l /\ listed' = listed \union {r}
              /\ run' = [run EXCEPT ![r].joined = Acquired(l, young)]
              /\ calls' = calls \union {Notify("start", r, f) : f \in Acquired(l, young)}
              /\ ru' = [ru EXCEPT !.pc = "start", !.cur = r]
        BY <2>1, <3>3 DEF NewRunCmd
      <4>2. Acquired(l, young) \in SUBSET FUs /\ l \in FUList
        BY BUAssumption DEF Acquired
      <4>3. calls' \in SUBSET Call
        BY <3>1, <4>1, <4>2, BUAssumption DEF Notify, Call, BUTypeOK
      <4>4. run' \in [Runs -> RunState]
        BY <3>1, <4>1, <4>2, RunFields DEF BUTypeOK
      <4>5. ru' \in RunnerState /\ listed' \in SUBSET Runs
        BY <3>1, <4>1 DEF RunnerState, BUTypeOK
      <4> QED  BY <2>1, <3>1, <4>1, <4>2, <4>3, <4>4, <4>5 DEF NewRunCmd, BUTypeOK
    <3> QED  BY <3>2, <3>3
  <2>2. CASE Started
    <3> DEFINE a == IF run[ru.cur].pending = {} THEN "none" ELSE "wait"
    <3>1. run' = [run EXCEPT ![ru.cur].async = a, ![ru.cur].checker = "eor"]
      BY <2>2 DEF Started
    <3>2. a \in {"none", "wait", "contact", "over"}
      OBVIOUS
    <3> HIDE DEF a
    <3>3. run' \in [Runs -> RunState]
      <4>1. CASE ru.cur \in Runs
        BY <3>1, <3>2, <4>1, RunFields, ZenonT(60) DEF BUTypeOK
      <4>2. CASE ru.cur \notin Runs
        BY <3>1, <4>2 DEF BUTypeOK
      <4> QED  BY <4>1, <4>2
    <3> QED  BY <2>2, <3>3 DEF Started, BUTypeOK, RunnerState, RunnerIdle
  <2>3. CASE HerodCmd
    <3>1. cmds' \in Seq(Runs \union {Herod})
      BY <2>3, CommandsType DEF HerodCmd, BUTypeOK
    <3>2. fu' \in [FUs -> UnitState]
      <4>1. PICK quit \in SUBSET FUs : fu' = [f \in FUs |-> IF f \in quit THEN [fu[f] EXCEPT !.work = {}] ELSE fu[f]]
        <5>1. PICK lost : fu' = [f \in FUs |-> IF f \in {g \in box : Up(g)} \ lost
                                               THEN [fu[f] EXCEPT !.work = {}] ELSE fu[f]]
          BY <2>3 DEF HerodCmd
        <5>2. {g \in box : Up(g)} \ lost \in SUBSET FUs
          BY DEF BUTypeOK
        <5> QED  BY <5>1, <5>2
      <4>2. \A f \in FUs : fu[f] \in UnitState /\ [fu[f] EXCEPT !.work = {}] \in UnitState
        BY DEF BUTypeOK, UnitState
      <4> QED  BY <4>1, <4>2
    <3>4. ru' \in RunnerState
      BY <2>3 DEF HerodCmd, BUTypeOK, RunnerState
    <3>3. spent' \in 0 .. MaxTotal
      BY <2>3, SpendType DEF HerodCmd, BUTypeOK, Bounded
    <3> QED  BY <2>3, <3>1, <3>2, <3>3, <3>4 DEF HerodCmd, BUTypeOK
  <2>4. CASE HerodJoined
    BY <2>4 DEF HerodJoined, BUTypeOK, RunnerState
  <2>5. CASE HerodDone
    BY <2>5 DEF HerodDone, BUTypeOK, RunnerState, RunnerIdle
  <2>6. CASE \E r \in Runs : HerodRun(r)
    <3>1. PICK r \in Runs : HerodRun(r)
      BY <2>6
    <3>2. run' \in [Runs -> RunState]
      BY <3>1, RunFields DEF HerodRun, BUTypeOK
    <3>3. dir' \in [Runs -> {"none", "open", "eor", "gone"}]
      BY <3>1 DEF HerodRun, WithEoR, BUTypeOK
    <3>4. ru' \in RunnerState
      BY <3>1 DEF HerodRun, BUTypeOK, RunnerState
    <3> QED  BY <3>1, <3>2, <3>3, <3>4 DEF HerodRun, BUTypeOK
  <2> QED  BY <1>1, <2>1, <2>2, <2>3, <2>4, <2>5, <2>6 DEF RunnerStep
<1>2. CASE CallStep
  BY <1>2, CallTypes DEF CallStep
<1>3. CASE AttachBox
  <2>1. CASE \E r \in Runs : Attached(r, rr.to)
    <3>1. PICK r \in Runs : Attached(r, rr.to)
      BY <2>1
    <3>2. rr.to \in FUs
      BY <1>3 DEF AttachBox
    <3>3. run' \in [Runs -> RunState]
      <4>1. run[r].joined \union {rr.to} \in SUBSET FUs
        BY <3>2 DEF BUTypeOK, RunState
      <4> QED  BY <3>1, <4>1, RunFields DEF Attached, BUTypeOK
    <3>5. calls' \in SUBSET Call
      BY <3>1, <3>2, BUAssumption DEF Attached, BUTypeOK, Call, Notify
    <3>6. rr' \in RangerState /\ rr'.pc # "lock"
      BY <3>1 DEF Attached, BUTypeOK, RangerState
    <3>4. known' \in [complete : SUBSET Runs, excused : SUBSET (FUs \X Runs),
                       unlisted : SUBSET Runs, ran : SUBSET (FUs \X Runs),
                       again : SUBSET (FUs \X Runs)]
      <4> DEFINE a == IF rr.override THEN known.again \union {<<rr.to, r>>} ELSE known.again
                 u == IF run[r].joined = {} THEN known.unlisted \union {r} ELSE known.unlisted
                 e == IF r \in known.complete THEN known.excused \union {<<rr.to, r>>} ELSE known.excused
      <4>1. known' = [known EXCEPT !.again = a, !.unlisted = u, !.excused = e]
        BY <3>1 DEF Attached
      <4>2. a \in SUBSET (FUs \X Runs) /\ u \in SUBSET Runs /\ e \in SUBSET (FUs \X Runs)
        BY <3>2 DEF BUTypeOK
      <4> HIDE DEF a, u, e
      <4> QED  BY <4>1, <4>2 DEF BUTypeOK
    <3> QED  BY <1>3, <3>3, <3>4, <3>5, <3>6 DEF AttachBox, BUTypeOK
  <2>2. CASE rr' = RangerIdle /\ UNCHANGED <<run, calls, known>>
    BY <1>3, <2>2 DEF AttachBox, BUTypeOK, RangerIdle, RangerState
  <2> QED  BY <1>3, <2>1, <2>2 DEF AttachBox
<1>4. CASE StartIsLong
  <2>1. spent' \in 0 .. MaxTotal
    BY <1>4, SpendType DEF StartIsLong, BUTypeOK, Bounded
  <2> QED  BY <1>4, <2>1 DEF StartIsLong, BUTypeOK, RangerState
<1>5. CASE HerodCgi
  <2>1. spent' \in 0 .. MaxTotal /\ cmds' \in Seq(Runs \union {Herod})
    BY <1>5, SpendType, CommandsType DEF HerodCgi, BUTypeOK, Bounded
  <2> QED  BY <1>5, <2>1 DEF HerodCgi, BUTypeOK
<1>6. ASSUME NEW r \in Runs, AsyncStep(r)  PROVE  TypeInv'
  <2>1. CASE AsyncWake(r)
    <3>1. run[r].pending \in SUBSET FUs
      BY DEF BUTypeOK, RunState
    <3>2. run' \in [Runs -> RunState]
      BY <2>1, <3>1, RunFields DEF AsyncWake, BUTypeOK
    <3> QED  BY <2>1, <3>2 DEF AsyncWake, BUTypeOK
  <2>2. CASE AsyncCall(r)
    <3>1. PICK f \in run[r].todo : /\ calls' = calls \union {Notify("async", r, f)}
                                     /\ run' = [run EXCEPT ![r].todo = @ \ {f}]
      BY <2>2 DEF AsyncCall
    <3>2. run[r].todo \ {f} \in SUBSET FUs /\ f \in FUs
      BY DEF BUTypeOK, RunState
    <3>3. run' \in [Runs -> RunState]
      BY <3>1, <3>2, RunFields DEF BUTypeOK
    <3>4. calls' \in SUBSET Call
      BY <3>1, <3>2, BUAssumption DEF BUTypeOK, Notify, Call
    <3> QED  BY <2>2, <3>3, <3>4 DEF AsyncCall, BUTypeOK
  <2>3. CASE AsyncRest(r)
    <3>1. run' \in [Runs -> RunState]
      BY <2>3, RunFields DEF AsyncRest, Again, BUTypeOK
    <3> QED  BY <2>3, <3>1 DEF AsyncRest, BUTypeOK
  <2> QED  BY <1>6, <2>1, <2>2, <2>3 DEF AsyncStep
<1>7. ASSUME NEW r \in Runs, CompletedChecker(r)  PROVE  TypeInv'
  <2>1. CASE CheckerEoR(r)
    <3>1. run' \in [Runs -> RunState]
      BY <2>1, RunFields DEF CheckerEoR, BUTypeOK
    <3> QED  BY <2>1, <3>1 DEF CheckerEoR, BUTypeOK
  <2>2. CASE CheckerJoined(r)
    <3>1. run' \in [Runs -> RunState]
      BY <2>2, RunFields DEF CheckerJoined, CheckerGoto, BUTypeOK
    <3> QED  BY <2>2, <3>1 DEF CheckerJoined, BUTypeOK
  <2>3. CASE CheckerPoll(r)
    <3>1. Unseen(r) \X {r} \in SUBSET (FUs \X Runs)
      BY DEF Unseen
    <3> HIDE DEF Unseen
    <3>2. known' \in [complete : SUBSET Runs, excused : SUBSET (FUs \X Runs),
                       unlisted : SUBSET Runs, ran : SUBSET (FUs \X Runs),
                       again : SUBSET (FUs \X Runs)]
      BY <2>3, <3>1 DEF CheckerPoll, BUTypeOK
    <3>3. run' \in [Runs -> RunState]
      BY <2>3, RunFields DEF CheckerPoll, CheckerGoto, BUTypeOK
    <3> QED  BY <2>3, <3>2, <3>3 DEF CheckerPoll, BUTypeOK
  <2>4. CASE CheckerRemove(r)
    <3>1. run' \in [Runs -> RunState]
      BY <2>4, RunFields DEF CheckerRemove, CheckerGoto, BUTypeOK
    <3> QED  BY <2>4, <3>1 DEF CheckerRemove, BUTypeOK
  <2> QED  BY <1>7, <2>1, <2>2, <2>3, <2>4 DEF CompletedChecker
<1>8. ASSUME NEW r \in Runs, DirStep(r)  PROVE  TypeInv'
  <2>1. CASE BuOpens(r)
    <3>1. cmds' \in Seq(Runs \union {Herod}) /\ spent' \in 0 .. MaxTotal
      BY <2>1, SpendType, CommandsType DEF BuOpens, BUTypeOK, Bounded
    <3> QED  BY <2>1, <3>1 DEF BuOpens, BUTypeOK
  <2>2. CASE BuEnds(r)
    BY <2>2 DEF BuEnds, BUTypeOK
  <2>3. CASE BuRemoves(r)
    <3>1. spent' \in 0 .. MaxTotal
      BY <2>3, SpendType DEF BuRemoves, BUTypeOK, Bounded
    <3> QED  BY <2>3, <3>1 DEF BuRemoves, BUTypeOK
  <2> QED  BY <1>8, <2>1, <2>2, <2>3 DEF DirStep
<1>9. ASSUME NEW f \in FUs, BoxStep(f)  PROVE  TypeInv'
  <2>1. CASE BoxCreated(f)
    <3>1. map' \in [FUs -> Report]
      <4>1. [map EXCEPT ![f].cloud = FALSE] \in [FUs -> Report]
        BY ReportFields DEF BUTypeOK
      <4> QED  BY <2>1, <4>1 DEF BoxCreated, BUTypeOK
    <3>2. rr' \in RangerState /\ RangerHasUnit'
      BY <2>1, FindRunType DEF BoxCreated, BUTypeOK
    <3> QED  BY <2>1, <3>1, <3>2 DEF BoxCreated, BUTypeOK
  <2>2. CASE BoxRead(f)
    <3>1. map' \in [FUs -> Report]
      BY <2>2 DEF BoxRead, Reported, BUTypeOK, Report, UnitState
    <3>2. rr' \in RangerState /\ RangerHasUnit'
      BY <2>2, FindRunType DEF BoxRead, BUTypeOK
    <3> QED  BY <2>2, <3>1, <3>2 DEF BoxRead, BUTypeOK
  <2>3. CASE BoxDropped(f)
    BY <2>3 DEF BoxDropped, NoReport, BUTypeOK, Report
  <2>4. CASE BoxTorn(f)
    <3>1. spent' \in 0 .. MaxTotal
      BY <2>4, SpendType DEF BoxTorn, BUTypeOK, Bounded
    <3>2. map' \in [FUs -> Report]
      BY <2>4, ReportFields DEF BoxTorn, BUTypeOK
    <3> QED  BY <2>4, <3>1, <3>2 DEF BoxTorn, BUTypeOK
  <2>5. CASE BoxAges(f)
    <3>1. map' \in [FUs -> Report]
      BY <2>5, ReportFields DEF BoxAges, BUTypeOK
    <3> QED  BY <2>5, <3>1 DEF BoxAges, BUTypeOK
  <2> QED  BY <1>9, <2>1, <2>2, <2>3, <2>4, <2>5 DEF BoxStep
<1>10. ASSUME NEW f \in FUs, UnitStep(f) \/ WorkEnds(f) \/ FuFails(f)  PROVE  TypeInv'
  <2>1. spent' \in 0 .. MaxTotal
    BY <1>10, SpendType DEF UnitStep, WorkEnds, FuToCloud, FuFromCloud, FuHangs, FuRecovers,
         FuBoots, FuCreatesBox, FuEnds, FuDrops, FuFails, BUTypeOK, Bounded
  <2>2. fu' \in [FUs -> UnitState]
    <3>1. fu \in [FUs -> UnitState] /\ TRUE \in BOOLEAN /\ FALSE \in BOOLEAN
      BY DEF BUTypeOK
    <3>2. CASE FuToCloud(f) \/ FuFromCloud(f)
      <4>1. PICK b \in BOOLEAN : fu' = [fu EXCEPT ![f].cloud = b]
        BY <3>1, <3>2 DEF FuToCloud, FuFromCloud
      <4> QED  BY <3>1, <4>1 DEF UnitState
    <3>3. CASE FuHangs(f) \/ FuRecovers(f) \/ FuBoots(f)
      BY <3>1, <3>3 DEF FuHangs, FuRecovers, FuBoots, UnitState
    <3>4. CASE FuCreatesBox(f)
      BY <3>1, <3>4 DEF FuCreatesBox
    <3>5. CASE WorkEnds(f)
      <4>1. PICK r \in Runs : fu' = [fu EXCEPT ![f].work = @ \ {r}]
        BY <3>5 DEF WorkEnds, FuEnds, FuDrops
      <4>2. fu[f].work \ {r} \in SUBSET Runs
        BY <3>1 DEF UnitState
      <4> QED  BY <3>1, <4>1, <4>2, UnitFields
    <3>6. CASE FuFails(f)
      BY <3>1, <3>6, UnitFields DEF FuFails
    <3> QED  BY <1>10, <3>2, <3>3, <3>4, <3>5, <3>6 DEF UnitStep
  <2>3. UNCHANGED <<buSide, known>>
    BY <1>10 DEF UnitStep, WorkEnds, FuToCloud, FuFromCloud, FuHangs, FuRecovers,
         FuBoots, FuCreatesBox, FuEnds, FuDrops, FuFails
  <2>4. created' \in SUBSET FUs /\ box' \in SUBSET FUs /\ flight' \in SUBSET (FUs \X Runs)
    BY <1>10 DEF UnitStep, WorkEnds, FuToCloud, FuFromCloud, FuHangs, FuRecovers,
         FuBoots, FuCreatesBox, FuEnds, FuDrops, FuFails, BUTypeOK
  <2> QED  BY <2>1, <2>2, <2>3, <2>4 DEF buSide, BUTypeOK
<1>11. ASSUME NEW f \in FUs, NEW r \in Runs, FlightLands(f, r)  PROVE  TypeInv'
  <2>1. fu' \in [FUs -> UnitState]
    BY <1>11, StartType DEF FlightLands, BUTypeOK
  <2>2. known' \in [complete : SUBSET Runs, excused : SUBSET (FUs \X Runs),
                       unlisted : SUBSET Runs, ran : SUBSET (FUs \X Runs),
                       again : SUBSET (FUs \X Runs)]
    BY <1>11, NotedType DEF FlightLands
  <2> QED  BY <1>11, <2>1, <2>2 DEF FlightLands, buSide, BUTypeOK
<1>12. CASE UNCHANGED buVars
  BY <1>12 DEF buVars, BUTypeOK
<1> QED  BY <1>1, <1>2, <1>3, <1>4, <1>5, <1>6, <1>7, <1>8, <1>9, <1>10, <1>11, <1>12, Steps

LEMMA BUTypeInit == Init => TypeInv
BY BUAssumption DEF Init, TypeInv, RangerHasUnit, BUTypeOK, RunnerIdle, RangerIdle, NewRun,
   NoReport, RunnerState, RangerState, RunState, Report, UnitState, FUList

\* What hltd on the builder unit and its filter units keep is of the types that BUState states.
THEOREM BUTypeCorrect == Spec => []BUTypeOK
<1>1. TypeInv => BUTypeOK
  BY DEF TypeInv
<1> QED  BY <1>1, BUTypeInit, TypeStep, PTL DEF Spec

-----------------------------------------------------------------------------
(* The course of a run *)

\* Runs are taken in their order.
Queued(r) == \E i \in DOMAIN cmds : cmds[i] = r
InOrder ==
  /\ \A i, j \in DOMAIN cmds : i < j /\ cmds[i] \in Runs /\ cmds[j] \in Runs => cmds[i] < cmds[j]
  /\ \A r \in Runs : Queued(r) \/ Begun(r) => dir[r] # "none"
  /\ \A q, r \in Runs : Begun(q) /\ Queued(r) => q < r
  /\ \A q, r \in Runs : dir[q] = "none" /\ q < r => dir[r] = "none"
\* Nothing is kept of a run before it is taken.
TakenFirst ==
  /\ \A r \in Runs : r \in listed \/ run[r].joined # {} => Begun(r)
  /\ \A r \in Runs : run[r].async # "none" => run[r].checker # "none"
  /\ ru.pc = "start" => ru.cur \in Runs /\ run[ru.cur].checker = "none"
CourseInv == InOrder /\ TakenFirst

Waiting(r) == run[r].pending \union run[r].todo
Ran(f, r) == <<f, r>> \in known.ran
Asked(f, r) == <<f, r>> \in known.again \* once more than needed
\* Only units that take part are called, and AsyncContact waits for its calls.
CallsInPlace ==
  /\ \A c \in calls : c.to \in run[c.run].joined /\ (c.by = "async" => run[c.run].async = "contact")
  /\ \A f \in FUs, r \in Runs :
       f \in Waiting(r) \/ Ran(f, r) \/ <<f, r>> \in flight => f \in run[r].joined
\* A unit that is not asked once more is asked at one place, and has not begun by then.
AskedOnce ==
  /\ \A f \in FUs : \A r \in fu[f].work : Ran(f, r)
  /\ \A c \in calls : ~Asked(c.to, c.run) =>
       /\ ~Ran(c.to, c.run)
       /\ c.to \notin run[c.run].todo
       /\ c.by # "async" => c.to \notin run[c.run].pending
       /\ \A d \in calls : d.to = c.to /\ d.run = c.run => d = c
  /\ \A r \in Runs : \A f \in Waiting(r) : Ran(f, r) => Asked(f, r)
  /\ flight \subseteq known.again

\* Who is called, or has a request, when a run is complete is excused.
CompleteInv ==
  /\ \A r \in Runs : run[r].checker \in {"poll", "remove", "over"} => AsyncJoined(r)
  /\ \A r \in known.complete :
       /\ run[r].checker \in {"remove", "over"}
       /\ \A c \in calls : c.run = r => <<c.to, r>> \in known.excused
       /\ \A f \in FUs : <<f, r>> \in flight => <<f, r>> \in known.excused
  /\ CompletionTrue

-----------------------------------------------------------------------------
(* The queue of command files *)

QueueInOrder == \A i, j \in DOMAIN cmds : i < j /\ cmds[i] \in Runs /\ cmds[j] \in Runs => cmds[i] < cmds[j]

LEMMA QueueTail ==
  ASSUME cmds \in Seq(Runs \union {Herod}), cmds # <<>>, cmds' = Tail(cmds), QueueInOrder
  PROVE  /\ QueueInOrder'
         /\ \A r : Queued(r)' => Queued(r)
         /\ Queued(Head(cmds))
         /\ Head(cmds) \in Runs => \A r \in Runs : Queued(r)' => Head(cmds) < r
<1>1. /\ Len(cmds) \in Nat \ {0} /\ DOMAIN cmds = 1 .. Len(cmds) /\ DOMAIN cmds' = 1 .. (Len(cmds) - 1)
      /\ \A i \in 1 .. (Len(cmds) - 1) : cmds'[i] = cmds[i + 1] /\ i + 1 \in DOMAIN cmds
      /\ Head(cmds) = cmds[1] /\ 1 \in DOMAIN cmds
  BY HeadTailProperties
<1>2. QueueInOrder'
  <2> SUFFICES ASSUME NEW i \in DOMAIN cmds', NEW j \in DOMAIN cmds',
                      i < j, cmds'[i] \in Runs, cmds'[j] \in Runs
               PROVE  cmds'[i] < cmds'[j]
    BY DEF QueueInOrder
  <2>1. /\ i + 1 \in DOMAIN cmds /\ j + 1 \in DOMAIN cmds /\ i + 1 < j + 1
        /\ cmds'[i] = cmds[i + 1] /\ cmds'[j] = cmds[j + 1]
    BY <1>1
  <2> QED  BY <2>1 DEF QueueInOrder
<1>3. \A r : Queued(r)' => Queued(r)
  BY <1>1 DEF Queued
<1>4. ASSUME Head(cmds) \in Runs, NEW r \in Runs, Queued(r)'  PROVE  Head(cmds) < r
  <2>1. PICK i \in DOMAIN cmds' : cmds'[i] = r
    BY <1>4 DEF Queued
  <2>2. i + 1 \in DOMAIN cmds /\ 1 < i + 1 /\ cmds[i + 1] = r
    BY <1>1, <2>1
  <2> QED  BY <1>1, <1>4, <2>2 DEF QueueInOrder
<1> QED  BY <1>1, <1>2, <1>3, <1>4 DEF Queued

LEMMA QueueAppend ==
  ASSUME cmds \in Seq(Runs \union {Herod}), NEW c \in Runs \union {Herod},
         cmds' = Append(cmds, c), QueueInOrder,
         c \in Runs => \A r \in Runs : Queued(r) => r < c
  PROVE  /\ QueueInOrder'
         /\ \A r : Queued(r)' => Queued(r) \/ r = c
<1>1. /\ Len(cmds) \in Nat /\ DOMAIN cmds = 1 .. Len(cmds) /\ DOMAIN cmds' = 1 .. (Len(cmds) + 1)
      /\ \A i \in 1 .. Len(cmds) : cmds'[i] = cmds[i]
      /\ cmds'[Len(cmds) + 1] = c
  BY AppendProperties
<1>2. QueueInOrder'
  <2> SUFFICES ASSUME NEW i \in DOMAIN cmds', NEW j \in DOMAIN cmds',
                      i < j, cmds'[i] \in Runs, cmds'[j] \in Runs
               PROVE  cmds'[i] < cmds'[j]
    BY DEF QueueInOrder
  <2>1. i \in DOMAIN cmds /\ cmds'[i] = cmds[i]
    BY <1>1
  <2>2. CASE j \in DOMAIN cmds
    BY <1>1, <2>1, <2>2 DEF QueueInOrder
  <2>3. CASE j = Len(cmds) + 1
    BY <1>1, <2>1, <2>3 DEF Queued
  <2> QED  BY <1>1, <2>2, <2>3
<1>3. \A r : Queued(r)' => Queued(r) \/ r = c
  BY <1>1 DEF Queued
<1> QED  BY <1>2, <1>3

-----------------------------------------------------------------------------
(* What a call changes of the runs *)

LEMMA FinishedRuns ==
  ASSUME TypeInv, NEW c \in calls, NEW ok \in BOOLEAN, Finished(c, ok), NEW r \in Runs
  PROVE  /\ run'[r].joined = run[r].joined /\ run'[r].async = run[r].async
         /\ run'[r].checker = run[r].checker /\ run'[r].todo = run[r].todo
         /\ \A f \in run'[r].pending \ run[r].pending :
              c.by = "start" /\ ~ok /\ f = c.to /\ r = c.run
         /\ ok /\ c.by = "async" /\ r = c.run => c.to \notin run'[r].pending
<1>1. c \in Call /\ run \in [Runs -> RunState]
  BY DEF TypeInv, BUTypeOK
<1>2. CASE c.by = "start"
  <2>1. run' = [run EXCEPT ![c.run].pending = IF ok THEN @ ELSE @ \union {c.to}]
    BY <1>2 DEF Finished
  <2> QED  BY <1>1, <1>2, <2>1 DEF RunState
<1>3. CASE c.by = "async"
  <2>1. run' = [run EXCEPT ![c.run].pending = IF ok THEN @ \ {c.to} ELSE @]
    BY <1>3 DEF Finished
  <2> QED  BY <1>1, <1>3, <2>1 DEF RunState
<1>4. CASE c.by = "box"
  BY <1>4 DEF Finished
<1> QED  BY <1>1, <1>2, <1>3, <1>4 DEF Call

LEMMA CallRuns ==
  ASSUME TypeInv, NEW c \in calls, Answered(c) \/ Unanswered(c)
  PROVE  /\ UNCHANGED <<dir, cmds, ru, lists, listed>>
         /\ \A r \in Runs :
              /\ run'[r].joined = run[r].joined /\ run'[r].async = run[r].async
              /\ run'[r].checker = run[r].checker /\ run'[r].todo = run[r].todo
<1>1. CASE Answered(c)
  BY <1>1, FinishedRuns DEF Answered
<1>2. CASE Unanswered(c)
  <2>1. CASE LastAttempt(c)
    BY <1>2, <2>1, FinishedRuns DEF Unanswered
  <2>2. CASE ~LastAttempt(c)
    BY <1>2, <2>2 DEF Unanswered
  <2> QED  BY <1>2, <2>1, <2>2 DEF Unanswered
<1> QED  BY <1>1, <1>2

-----------------------------------------------------------------------------
(* Runs are taken in their order *)

KeepsCourse ==
  /\ UNCHANGED <<cmds, lists>>
  /\ ru.pc = "start" \/ ru'.pc = "start" => UNCHANGED ru
  /\ \A r \in Runs :
       /\ dir'[r] = "none" <=> dir[r] = "none"
       /\ r \in listed' => r \in listed
       /\ run'[r].joined = run[r].joined \/ (Begun(r) /\ AttachBox)
       /\ run'[r].async = run[r].async \/ run[r].checker # "none"
       /\ run'[r].checker = run[r].checker \/ (run[r].checker # "none" /\ run'[r].checker # "none")

LEMMA RunsOrdered == Runs \subseteq Nat
<1>1. Cardinality(Runs) \in Nat
  BY BUAssumption, FS_CardinalityType
<1> QED  BY <1>1, BUAssumption

LEMMA CourseKept ==
  ASSUME CourseInv, KeepsCourse
  PROVE  CourseInv'
<1>1. \A r \in Runs : Begun(r)' <=> Begun(r)
  BY DEF KeepsCourse, Begun
<1>2. \A r : Queued(r)' <=> Queued(r)
  BY DEF KeepsCourse, Queued
<1>3. InOrder'
  BY <1>1, <1>2 DEF CourseInv, InOrder, KeepsCourse
<1>4. TakenFirst'
  BY <1>1 DEF CourseInv, TakenFirst, KeepsCourse
<1> QED  BY <1>3, <1>4 DEF CourseInv

LEMMA NewRunFresh ==
  ASSUME TypeInv, CourseInv, NewRunCmd
  PROVE  LET h == Head(cmds)
         IN  h \in Runs /\ ~Begun(h) /\ run[h].joined = {} /\ run[h].checker = "none"
<1> DEFINE h == Head(cmds)
<1>1. cmds \in Seq(Runs \union {Herod}) /\ cmds # <<>> /\ h \in Runs
  BY CommandsType DEF NewRunCmd, TypeInv, BUTypeOK
<1>2. Queued(h)
  BY <1>1, QueueTail DEF NewRunCmd, CourseInv, InOrder, QueueInOrder
<1>3. Begun(h) => h < h
  BY <1>1, <1>2 DEF CourseInv, InOrder
<1>4. ~(h < h)
  <2>1. h \in Nat
    BY <1>1, RunsOrdered
  <2> HIDE DEF h
  <2> QED  BY <2>1
<1> QED  BY <1>1, <1>3, <1>4 DEF CourseInv, TakenFirst, Begun

LEMMA CourseNewRun ==
  ASSUME TypeInv, CourseInv, NewRunCmd
  PROVE  CourseInv'
<1> DEFINE h == Head(cmds)
<1>1. /\ cmds \in Seq(Runs \union {Herod}) /\ cmds # <<>> /\ cmds' = Tail(cmds)
      /\ h \in Runs /\ QueueInOrder /\ UNCHANGED dir /\ ru.pc = "idle" /\ ru \in RunnerState
  BY CommandsType DEF NewRunCmd, TypeInv, BUTypeOK, CourseInv, InOrder, QueueInOrder
<1>2. /\ QueueInOrder' /\ Queued(h)
      /\ \A r : Queued(r)' => Queued(r)
      /\ \A r \in Runs : Queued(r)' => h < r
  BY <1>1, QueueTail
<1>3. CASE dir[h] = "gone"
  <2>1. UNCHANGED <<ru, listed, run>>
    BY <1>3 DEF NewRunCmd
  <2>2. \A r \in Runs : Begun(r)' <=> Begun(r)
    BY <2>1 DEF Begun
  <2> QED  BY <1>1, <1>2, <2>1, <2>2 DEF CourseInv, InOrder, QueueInOrder, TakenFirst
<1>4. CASE dir[h] # "gone"
  <2>1. PICK F : run' = [run EXCEPT ![h].joined = F]
    BY <1>4 DEF NewRunCmd
  <2>2. listed' = listed \union {h} /\ ru' = [ru EXCEPT !.pc = "start", !.cur = h]
    BY <1>4 DEF NewRunCmd
  <2>3. ru'.pc = "start" /\ ru'.cur = h
    BY <1>1, <2>2 DEF RunnerState
  <2>4. \A r \in Runs : /\ run'[r].checker = run[r].checker /\ run'[r].async = run[r].async
                        /\ r # h => run'[r].joined = run[r].joined
    BY <2>1 DEF TypeInv, BUTypeOK, RunState
  <2>5. \A r \in Runs : Begun(r)' <=> Begun(r) \/ r = h
    BY <1>1, <2>3, <2>4 DEF Begun
  <2>6. run[h].checker = "none"
    BY NewRunFresh
  <2>7. InOrder'
    <3>1. \A q, r \in Runs : Begun(q)' /\ Queued(r)' => q < r
      BY <1>2, <2>5 DEF CourseInv, InOrder
    <3>2. \A r \in Runs : Queued(r)' \/ Begun(r)' => dir[r] # "none"
      BY <1>1, <1>2, <2>5 DEF CourseInv, InOrder
    <3> QED  BY <1>1, <1>2, <3>1, <3>2 DEF CourseInv, InOrder, QueueInOrder
  <2>8. TakenFirst'
    BY <1>1, <2>2, <2>3, <2>4, <2>5, <2>6 DEF CourseInv, TakenFirst
  <2> QED  BY <2>7, <2>8 DEF CourseInv
<1> QED  BY <1>3, <1>4

LEMMA CourseStarted ==
  ASSUME TypeInv, CourseInv, Started
  PROVE  CourseInv'
<1>1. /\ ru.pc = "start" /\ ru'.pc = "idle" /\ ru.cur \in Runs
      /\ UNCHANGED <<dir, cmds, listed>>
  BY DEF Started, RunnerIdle, CourseInv, TakenFirst
<1>2. \A r \in Runs : /\ run'[r].joined = run[r].joined
                      /\ r # ru.cur => run'[r] = run[r]
                      /\ r = ru.cur => run'[r].checker = "eor"
  BY <1>1 DEF Started, TypeInv, BUTypeOK, RunState
<1>3. \A r \in Runs : Begun(r)' <=> Begun(r)
  BY <1>1, <1>2 DEF Begun
<1>4. \A r : Queued(r)' <=> Queued(r)
  BY <1>1 DEF Queued
<1> QED  BY <1>1, <1>2, <1>3, <1>4 DEF CourseInv, InOrder, TakenFirst

\* The other steps on the queue leave the runs alone.
LEMMA CourseQueue ==
  ASSUME TypeInv, CourseInv, HerodCmd \/ HerodCgi \/ \E r \in Runs : BuOpens(r)
  PROVE  CourseInv'
<1>1. cmds \in Seq(Runs \union {Herod}) /\ QueueInOrder /\ Herod \notin Runs
  BY BUAssumption DEF TypeInv, BUTypeOK, CourseInv, InOrder, QueueInOrder
<1>2. UNCHANGED <<run, listed>> /\ \A r \in Runs : Begun(r)' <=> Begun(r)
  BY DEF HerodCmd, HerodCgi, BuOpens, Begun, TypeInv, BUTypeOK, RunnerState
<1>3. TakenFirst'
  BY <1>2 DEF HerodCmd, HerodCgi, BuOpens, CourseInv, TakenFirst, TypeInv, BUTypeOK, RunnerState
<1>4. CASE HerodCmd
  <2>1. QueueInOrder' /\ \A r : Queued(r)' => Queued(r)
    BY <1>1, <1>4, QueueTail DEF HerodCmd
  <2> QED  BY <1>2, <1>3, <1>4, <2>1 DEF HerodCmd, CourseInv, InOrder, QueueInOrder
<1>5. CASE HerodCgi
  <2>1. QueueInOrder' /\ \A r : Queued(r)' => Queued(r) \/ r = Herod
    BY <1>1, <1>5, QueueAppend DEF HerodCgi
  <2> QED  BY <1>1, <1>2, <1>3, <1>5, <2>1 DEF HerodCgi, CourseInv, InOrder, QueueInOrder
<1>6. ASSUME NEW n \in Runs, BuOpens(n)  PROVE  CourseInv'
  <2>1. /\ dir[n] = "none" /\ cmds' = Append(cmds, n)
        /\ \A q \in Runs : q < n => dir[q] # "none"
        /\ \A r \in Runs : dir'[r] = "none" <=> dir[r] = "none" /\ r # n
    BY <1>6 DEF BuOpens, Over, TypeInv, BUTypeOK
  <2>2. \A r \in Runs : Queued(r) \/ Begun(r) => r < n
    BY <2>1, RunsOrdered DEF CourseInv, InOrder
  <2>3. QueueInOrder' /\ \A r : Queued(r)' => Queued(r) \/ r = n
    BY <1>1, <2>1, <2>2, QueueAppend
  <2>4. \A q, r \in Runs : dir'[q] = "none" /\ q < r => dir'[r] = "none"
    BY <2>1, RunsOrdered DEF CourseInv, InOrder
  <2>5. \A q, r \in Runs : Begun(q)' /\ Queued(r)' => q < r
    BY <1>2, <2>2, <2>3 DEF CourseInv, InOrder
  <2>6. \A r \in Runs : Queued(r)' \/ Begun(r)' => dir'[r] # "none"
    BY <1>2, <2>1, <2>3 DEF CourseInv, InOrder
  <2> QED  BY <1>3, <2>3, <2>4, <2>5, <2>6 DEF CourseInv, InOrder, QueueInOrder
<1> QED  BY <1>4, <1>5, <1>6

LEMMA CourseCases ==
  ASSUME TypeInv, CourseInv, [Next]_buVars
  PROVE  \/ NewRunCmd \/ Started \/ HerodCmd \/ HerodCgi \/ \E r \in Runs : BuOpens(r)
         \/ KeepsCourse
<1> USE DEF KeepsCourse
<1>1. CASE RunnerStep
  <2>4. CASE HerodJoined \/ HerodDone
    <3>1. KeepsCourse
      <4>1. ru.pc # "start" /\ ru \in RunnerState
        BY <2>4 DEF HerodJoined, HerodDone, TypeInv, BUTypeOK
      <4>2. ru' = [ru EXCEPT !.pc = "herod", !.cur = NoRun] \/ ru' = RunnerIdle
        BY <2>4 DEF HerodJoined, HerodDone
      <4>3. ru'.pc # "start"
        <5>1. [ru EXCEPT !.pc = "herod", !.cur = NoRun].pc = "herod"
          BY <4>1 DEF RunnerState
        <5>2. RunnerIdle.pc = "idle"
          BY DEF RunnerIdle
        <5> QED  BY <4>2, <5>1, <5>2
      <4>4. UNCHANGED <<dir, cmds, lists, run>> /\ listed' \subseteq listed
        BY <2>4 DEF HerodJoined, HerodDone
      <4> QED  BY <4>1, <4>3, <4>4
    <3> QED  BY <3>1
  <2>5. CASE \E r \in Runs : HerodRun(r)
    <3>1. KeepsCourse
      BY <2>5 DEF HerodRun, WithEoR, TypeInv, BUTypeOK, RunState
    <3> QED  BY <3>1
  <2> QED  BY <1>1, <2>4, <2>5 DEF RunnerStep
<1>2. CASE CallStep
  <2>1. KeepsCourse
    BY <1>2, CallRuns DEF CallStep
  <2> QED  BY <2>1
<1>3. CASE AttachBox
  <2>1. CASE \E r \in Runs : Attached(r, rr.to)
    <3>1. PICK r \in Runs : Attached(r, rr.to)
      BY <2>1
    <3>2. r \in listed /\ run' = [run EXCEPT ![r].joined = @ \union {rr.to}]
      BY <3>1 DEF Attached, Attaches, IsLastRun
    <3>3. Begun(r) /\ UNCHANGED <<dir, cmds, ru, lists, listed>>
      BY <1>3, <3>2 DEF CourseInv, TakenFirst, AttachBox
    <3>4. KeepsCourse
      BY <1>3, <3>2, <3>3 DEF TypeInv, BUTypeOK, RunState
    <3> QED  BY <3>4
  <2>2. CASE UNCHANGED run
    <3>1. KeepsCourse
      BY <1>3, <2>2 DEF AttachBox
    <3> QED  BY <3>1
  <2> QED  BY <1>3, <2>1, <2>2 DEF AttachBox
<1>4. ASSUME NEW r \in Runs, AsyncStep(r)  PROVE  KeepsCourse
  <2>1. run[r].checker # "none"
    BY <1>4 DEF AsyncStep, AsyncWake, AsyncCall, AsyncRest, CourseInv, TakenFirst
  <2>2. /\ UNCHANGED <<dir, cmds, ru, lists, listed>>
        /\ \A q \in Runs : /\ run'[q].joined = run[q].joined /\ run'[q].checker = run[q].checker
                           /\ q # r => run'[q] = run[q]
    <3>1. CASE AsyncWake(r)
      BY <3>1, ZenonT(60) DEF AsyncWake, TypeInv, BUTypeOK, RunState
    <3>2. CASE AsyncCall(r)
      BY <3>2 DEF AsyncCall, TypeInv, BUTypeOK, RunState
    <3>3. CASE AsyncRest(r)
      BY <3>3 DEF AsyncRest, TypeInv, BUTypeOK, RunState
    <3> QED  BY <1>4, <3>1, <3>2, <3>3 DEF AsyncStep
  <2>3. KeepsCourse
    BY <2>1, <2>2
  <2> QED  BY <2>3
<1>5. ASSUME NEW r \in Runs, CompletedChecker(r)  PROVE  KeepsCourse
  <2>1. /\ UNCHANGED <<dir, cmds, ru, lists>> /\ run[r].checker # "none" /\ run'[r].checker # "none"
        /\ listed' \subseteq listed
        /\ \A q \in Runs : /\ run'[q].joined = run[q].joined /\ run'[q].async = run[q].async
                           /\ q # r => run'[q].checker = run[q].checker
    <3>1. CASE CheckerEoR(r)
      BY <3>1 DEF CheckerEoR, TypeInv, BUTypeOK, RunState
    <3>2. CASE CheckerJoined(r)
      BY <3>2 DEF CheckerJoined, CheckerGoto, TypeInv, BUTypeOK, RunState
    <3>3. CASE CheckerPoll(r)
      BY <3>3 DEF CheckerPoll, CheckerGoto, TypeInv, BUTypeOK, RunState
    <3>4. CASE CheckerRemove(r)
      BY <3>4 DEF CheckerRemove, CheckerGoto, TypeInv, BUTypeOK, RunState
    <3> QED  BY <1>5, <3>1, <3>2, <3>3, <3>4 DEF CompletedChecker
  <2>2. KeepsCourse
    BY <2>1
  <2> QED  BY <2>2
<1>6. ASSUME NEW r \in Runs, DirStep(r)  PROVE  BuOpens(r) \/ KeepsCourse
  <2>2. CASE BuEnds(r) \/ BuRemoves(r)
    <3>1. KeepsCourse
      BY <2>2 DEF BuEnds, BuRemoves, TypeInv, BUTypeOK
    <3> QED  BY <3>1
  <2> QED  BY <1>6, <2>2 DEF DirStep
<1>8. CASE UNCHANGED <<dir, cmds, ru, lists, listed, run>>
  <2>1. KeepsCourse
    BY <1>8
  <2> QED  BY <2>1
<1>9. StartIsLong \/ UNCHANGED buVars => UNCHANGED <<dir, cmds, ru, lists, listed, run>>
  BY DEF StartIsLong, buVars
<1>10. ASSUME NEW f \in FUs, BoxStep(f) \/ UnitStep(f) \/ WorkEnds(f) \/ FuFails(f)
                             \/ \E r \in Runs : FlightLands(f, r)
       PROVE  UNCHANGED <<dir, cmds, ru, lists, listed, run>>
  BY <1>10 DEF BoxStep, BoxCreated, BoxRead, BoxDropped, BoxTorn, BoxAges, UnitStep, FuToCloud,
     FuFromCloud, FuHangs, FuRecovers, FuBoots, FuCreatesBox, WorkEnds, FuEnds, FuDrops, FuFails,
     FlightLands, buSide
<1> QED  BY <1>1, <1>2, <1>3, <1>4, <1>5, <1>6, <1>8, <1>9, <1>10, Steps

LEMMA CourseStep ==
  ASSUME TypeInv, CourseInv, [Next]_buVars
  PROVE  CourseInv'
BY CourseCases, CourseNewRun, CourseStarted, CourseQueue, CourseKept

-----------------------------------------------------------------------------
(* Who is called *)

CallInv == CallsInPlace /\ AskedOnce

\* No unit is called, begins a run or has to be called that was not before.
KeepsCalls ==
  /\ UNCHANGED calls /\ flight' \subseteq flight
  /\ known'.ran = known.ran /\ known'.again = known.again
  /\ \A f \in FUs : fu'[f].work \subseteq fu[f].work
  /\ \A r \in Runs :
       /\ run'[r].joined = run[r].joined
       /\ run'[r].pending \subseteq run[r].pending
       /\ \/ run'[r].todo \subseteq run[r].todo
          \/ run'[r].todo \subseteq run[r].pending /\ run[r].async # "contact"
       /\ run[r].async = "contact" => run'[r].async = "contact" \/ ~Contacting(r)

LEMMA CallsKept ==
  ASSUME TypeInv, CallInv, KeepsCalls
  PROVE  CallInv'
<1>1. calls \subseteq Call
  BY DEF TypeInv, BUTypeOK
<1>2. \A r \in Runs : Waiting(r)' \subseteq Waiting(r)
  BY DEF KeepsCalls, Waiting
<1>3. CallsInPlace'
  <2>1. ASSUME NEW c \in calls  PROVE  (c.to \in run[c.run].joined /\ (c.by = "async" => run[c.run].async = "contact"))'
    BY <1>1, <2>1 DEF CallInv, CallsInPlace, KeepsCalls, Call, Contacting
  <2>2. \A f \in FUs, r \in Runs :
          f \in Waiting(r)' \/ Ran(f, r)' \/ <<f, r>> \in flight' => f \in run'[r].joined
    BY <1>2 DEF CallInv, CallsInPlace, KeepsCalls, Ran
  <2> QED  BY <2>1, <2>2 DEF CallsInPlace, KeepsCalls
<1>4. AskedOnce'
  <2>1. \A f, r : (Ran(f, r)' <=> Ran(f, r)) /\ (Asked(f, r)' <=> Asked(f, r))
    BY DEF KeepsCalls, Ran, Asked
  <2>2. \A f \in FUs : \A r \in fu'[f].work : Ran(f, r)'
    BY <2>1 DEF CallInv, AskedOnce, KeepsCalls
  <2>3. ASSUME NEW c \in calls, ~Asked(c.to, c.run)
        PROVE  /\ ~Ran(c.to, c.run)
               /\ c.to \notin run'[c.run].todo
               /\ c.by # "async" => c.to \notin run'[c.run].pending
               /\ \A d \in calls : d.to = c.to /\ d.run = c.run => d = c
    <3>1. c.run \in Runs /\ c.to \in FUs
      BY <1>1 DEF Call
    <3>2. c.by = "async" => run[c.run].async = "contact"
      BY DEF CallInv, CallsInPlace
    <3> QED  BY <2>3, <3>1, <3>2 DEF CallInv, AskedOnce, KeepsCalls
  <2>4. \A r \in Runs : \A f \in Waiting(r)' : Ran(f, r)' => Asked(f, r)'
    BY <1>2, <2>1 DEF CallInv, AskedOnce
  <2>5. flight' \subseteq known'.again
    BY DEF CallInv, AskedOnce, KeepsCalls
  <2> QED  BY <2>1, <2>2, <2>3, <2>4, <2>5 DEF AskedOnce, KeepsCalls
<1> QED  BY <1>3, <1>4 DEF CallInv

\* What a step may not do: the body of StartedOnce.
OnceStep ==
  \A f \in FUs, r \in Runs :
    r \in fu'[f].work \ fu[f].work /\ <<f, r>> \in known.ran => <<f, r>> \in known.again

LEMMA WorkNoted ==
  ASSUME TypeInv, AskedOnce, NEW f \in FUs, NEW r \in Runs, fu' \in {fu, WithStart(f, r)},
         NEW k, k = known \/ k = Repeated(f, r), known' = Noted(k)
  PROVE  /\ \A g \in FUs, q \in Runs : Ran(g, q)' => Ran(g, q) \/ (g = f /\ q = r)
         /\ \A g \in FUs : \A q \in fu'[g].work : Ran(g, q)' /\ (q \in fu[g].work \/ (g = f /\ q = r))
         /\ \A g, q : Asked(g, q)' <=> Asked(g, q) \/ (k # known /\ g = f /\ q = r)
         /\ known'.complete = known.complete /\ known'.excused = known.excused
<1>1. /\ fu \in [FUs -> UnitState] /\ fu' \in [FUs -> UnitState]
      /\ known \in [complete : SUBSET Runs, excused : SUBSET (FUs \X Runs),
                    unlisted : SUBSET Runs, ran : SUBSET (FUs \X Runs), again : SUBSET (FUs \X Runs)]
  BY StartType DEF TypeInv, BUTypeOK
<1>2. /\ k.ran = known.ran /\ k.complete = known.complete /\ k.excused = known.excused
      /\ known'.ran = known.ran \union {p \in FUs \X Runs : p[2] \in fu'[p[1]].work}
      /\ known'.complete = known.complete /\ known'.excused = known.excused
      /\ known'.again = k.again
  BY <1>1 DEF Noted, Repeated
<1>3. k.again = known.again \/ (k # known /\ k.again = known.again \union {<<f, r>>})
  BY <1>1 DEF Repeated
<1>4. ASSUME NEW g \in FUs, NEW q \in fu'[g].work  PROVE  q \in Runs /\ (q \in fu[g].work \/ (g = f /\ q = r))
  BY <1>1, <1>4 DEF WithStart, UnitState
<1>5. \A g \in FUs, q \in Runs : Ran(g, q)' => Ran(g, q) \/ (g = f /\ q = r)
  BY <1>2, <1>4 DEF Ran, AskedOnce
<1>6. \A g \in FUs : \A q \in fu'[g].work : Ran(g, q)'
  BY <1>2, <1>4 DEF Ran
<1>7. \A g, q : Asked(g, q)' <=> Asked(g, q) \/ (k # known /\ g = f /\ q = r)
  <2>1. k # known => k.again = known.again \union {<<f, r>>}
    BY <1>1 DEF Repeated
  <2> QED  BY <1>2, <2>1 DEF Asked
<1> QED  BY <1>2, <1>4, <1>5, <1>6, <1>7

LEMMA CallsAnswered ==
  ASSUME TypeInv, CallInv, NEW c \in calls, Answered(c)
  PROVE  CallInv' /\ OnceStep
<1>1. /\ c.to \in FUs /\ c.run \in Runs /\ calls \subseteq Call /\ calls' = calls \ {c}
      /\ UNCHANGED flight /\ CallsInPlace /\ AskedOnce
  BY DEF TypeInv, BUTypeOK, Call, CallInv, Answered, Finished
<1>2. /\ \A g \in FUs, q \in Runs : Ran(g, q)' => Ran(g, q) \/ (g = c.to /\ q = c.run)
      /\ \A g \in FUs : \A q \in fu'[g].work : Ran(g, q)' /\ (q \in fu[g].work \/ (g = c.to /\ q = c.run))
      /\ \A g, q : Asked(g, q)' <=> Asked(g, q)
  BY <1>1, WorkNoted DEF Answered
<1>3. \A r \in Runs : /\ run'[r].joined = run[r].joined /\ run'[r].async = run[r].async
                      /\ run'[r].todo = run[r].todo /\ run'[r].pending \subseteq run[r].pending
                      /\ c.by = "async" /\ r = c.run => c.to \notin run'[r].pending
  BY FinishedRuns DEF Answered
<1>4. OnceStep
  BY <1>1, <1>2 DEF OnceStep, AskedOnce, Ran, Asked
<1>5. CallsInPlace'
  <2>1. \A r \in Runs : Waiting(r)' \subseteq Waiting(r)
    BY <1>3 DEF Waiting
  <2>2. \A d \in calls' : d \in calls /\ d.run \in Runs
    BY <1>1 DEF Call
  <2> QED  BY <1>1, <1>2, <1>3, <2>1, <2>2 DEF CallsInPlace
<1>6. ASSUME NEW d \in calls', ~Asked(d.to, d.run)'
      PROVE  /\ ~Ran(d.to, d.run)'
             /\ d.to \notin run'[d.run].todo
             /\ d.by # "async" => d.to \notin run'[d.run].pending
             /\ \A e \in calls' : e.to = d.to /\ e.run = d.run => e = d
  <2>1. d \in calls /\ d # c /\ d.to \in FUs /\ d.run \in Runs /\ ~Asked(d.to, d.run)
    BY <1>1, <1>2, <1>6 DEF Call
  <2>2. ~(c.to = d.to /\ c.run = d.run)
    BY <1>1, <2>1 DEF AskedOnce
  <2> QED  BY <1>1, <1>2, <1>3, <2>1, <2>2 DEF AskedOnce
<1>7. ASSUME NEW r \in Runs, NEW f \in Waiting(r)', Ran(f, r)'  PROVE  Asked(f, r)'
  <2>1. f \in Waiting(r) /\ f \in FUs
    BY <1>3, <1>7 DEF Waiting, TypeInv, BUTypeOK, RunState
  <2>2. CASE f = c.to /\ r = c.run
    BY <1>1, <1>2, <1>3, <1>7, <2>2 DEF AskedOnce, Waiting
  <2>3. CASE ~(f = c.to /\ r = c.run)
    BY <1>1, <1>2, <1>7, <2>1, <2>3 DEF AskedOnce
  <2> QED  BY <2>2, <2>3
<1>8. AskedOnce'
  <2>1. known'.again = known.again
    BY <1>1 DEF Answered, Noted, TypeInv, BUTypeOK
  <2> QED  BY <1>1, <1>2, <1>6, <1>7, <2>1 DEF AskedOnce
<1> QED  BY <1>4, <1>5, <1>8 DEF CallInv

LEMMA CallsUnanswered ==
  ASSUME TypeInv, CallInv, NEW c \in calls, Unanswered(c)
  PROVE  CallInv' /\ OnceStep
<1> DEFINE same == fu' = fu /\ flight' = flight
           again == [c EXCEPT !.left = @ - 1]
<1>1. /\ c.to \in FUs /\ c.run \in Runs /\ calls \subseteq Call /\ c \in Call
      /\ CallsInPlace /\ AskedOnce
      /\ fu' \in {fu, WithStart(c.to, c.run)}
      /\ known' = IF same THEN known ELSE Noted(Repeated(c.to, c.run))
  BY DEF TypeInv, BUTypeOK, Call, CallInv, Unanswered
<1>2. flight' \in {flight, flight \union {<<c.to, c.run>>}}
  BY DEF Unanswered
<1>3. /\ \A g \in FUs, q \in Runs : Ran(g, q)' => Ran(g, q) \/ (~same /\ g = c.to /\ q = c.run)
      /\ \A g \in FUs : \A q \in fu'[g].work : Ran(g, q)' /\ (q \in fu[g].work \/ (g = c.to /\ q = c.run))
      /\ \A g, q : Asked(g, q) => Asked(g, q)'
      /\ ~same => Asked(c.to, c.run)'
  <2>1. CASE same
    BY <1>1, <2>1 DEF AskedOnce, Ran, Asked
  <2>2. CASE ~same
    <3>1. /\ known' = Noted(Repeated(c.to, c.run))
          /\ \A g, q : (g = c.to /\ q = c.run) => <<g, q>> \in Repeated(c.to, c.run).again
      BY <1>1, <2>2 DEF Repeated, TypeInv, BUTypeOK
    <3>2. known'.again = Repeated(c.to, c.run).again
      BY <3>1 DEF Noted, Repeated, TypeInv, BUTypeOK
    <3> QED  BY <1>1, <2>2, <3>1, <3>2, WorkNoted DEF Asked
  <2> QED  BY <2>1, <2>2
<1>4. /\ again.to = c.to /\ again.run = c.run /\ again.by = c.by
      /\ calls' \subseteq (calls \ {c}) \union {again}
      /\ LastAttempt(c) => calls' = calls \ {c}
  <2>1. again.to = c.to /\ again.run = c.run /\ again.by = c.by
    BY <1>1 DEF Call
  <2>2. IF LastAttempt(c) THEN calls' = calls \ {c} ELSE calls' = (calls \ {c}) \union {again}
    BY DEF Unanswered, Finished
  <2> HIDE DEF again
  <2> QED  BY <2>1, <2>2
<1>5. \A r \in Runs : /\ run'[r].joined = run[r].joined /\ run'[r].async = run[r].async
                      /\ run'[r].todo = run[r].todo
                      /\ \A f \in run'[r].pending \ run[r].pending :
                           LastAttempt(c) /\ f = c.to /\ r = c.run
  <2>1. CASE LastAttempt(c)
    BY <2>1, FinishedRuns DEF Unanswered
  <2>2. CASE ~LastAttempt(c)
    BY <2>2 DEF Unanswered
  <2> QED  BY <2>1, <2>2
<1> HIDE DEF same, again
<1>6. OnceStep
  BY <1>1, <1>3 DEF OnceStep, AskedOnce, Ran, Asked
<1>7. CallsInPlace'
  <2>1. \A d \in calls' : /\ d.run \in Runs
                          /\ d.to \in run[d.run].joined /\ (d.by = "async" => run[d.run].async = "contact")
    BY <1>1, <1>4 DEF Call, CallsInPlace
  <2>2. ASSUME NEW f \in FUs, NEW r \in Runs,
               f \in Waiting(r)' \/ Ran(f, r)' \/ <<f, r>> \in flight'
        PROVE  f \in run[r].joined
    <3>1. (f = c.to /\ r = c.run) \/ f \in Waiting(r) \/ Ran(f, r) \/ <<f, r>> \in flight
      BY <1>2, <1>3, <1>5, <2>2 DEF Waiting
    <3> QED  BY <1>1, <3>1 DEF CallsInPlace
  <2> QED  BY <1>5, <2>1, <2>2 DEF CallsInPlace
<1>8. ASSUME NEW d \in calls', ~Asked(d.to, d.run)'
      PROVE  /\ ~Ran(d.to, d.run)'
             /\ d.to \notin run'[d.run].todo
             /\ d.by # "async" => d.to \notin run'[d.run].pending
             /\ \A e \in calls' : e.to = d.to /\ e.run = d.run => e = d
  <2>1. ~Asked(d.to, d.run) /\ d.to \in FUs /\ d.run \in Runs
    BY <1>1, <1>3, <1>4, <1>8 DEF Call
  <2>2. CASE d \in calls /\ d # c
    <3>1. ~(c.to = d.to /\ c.run = d.run)
      BY <1>1, <2>1, <2>2 DEF AskedOnce
    <3>2. \A e \in calls' : e.to = d.to /\ e.run = d.run => e \in calls
      BY <1>4, <3>1
    <3> QED  BY <1>1, <1>3, <1>5, <2>1, <2>2, <3>1, <3>2 DEF AskedOnce
  <2>3. CASE d = again /\ ~(d \in calls /\ d # c)
    <3>1. ~LastAttempt(c)
      BY <1>4, <1>8, <2>3
    <3>2. same /\ ~Asked(c.to, c.run)
      BY <1>3, <1>4, <1>8, <2>1, <2>3
    <3>3. ~Ran(c.to, c.run)' /\ c.to \notin run'[c.run].todo
      BY <1>1, <1>3, <1>5, <3>2 DEF AskedOnce
    <3>4. \A e \in calls' : e.to = d.to /\ e.run = d.run => e = d
      BY <1>1, <1>4, <2>3, <3>2 DEF AskedOnce
    <3>5. c.by # "async" => c.to \notin run[c.run].pending
      BY <1>1, <3>2 DEF AskedOnce
    <3>6. c.to \notin run'[c.run].pending \/ c.to \in run[c.run].pending
      BY <1>1, <1>5, <3>1
    <3> QED  BY <1>4, <2>3, <3>3, <3>4, <3>5, <3>6
  <2> QED  BY <1>4, <2>2, <2>3
<1>9. ASSUME NEW r \in Runs, NEW f \in Waiting(r)', Ran(f, r)'  PROVE  Asked(f, r)'
  <2>1. f \in Waiting(r) \/ (f = c.to /\ r = c.run)
    BY <1>5, <1>9 DEF Waiting
  <2>2. CASE f = c.to /\ r = c.run
    BY <1>1, <1>3, <1>9, <2>2 DEF AskedOnce
  <2>3. CASE ~(f = c.to /\ r = c.run)
    <3>1. f \in FUs
      BY <2>1, <2>3 DEF Waiting, TypeInv, BUTypeOK, RunState
    <3> QED  BY <1>1, <1>3, <1>9, <2>1, <2>3, <3>1 DEF AskedOnce
  <2> QED  BY <2>2, <2>3
<1>10. flight' \subseteq known'.again
  <2>1. flight \subseteq FUs \X Runs /\ flight \subseteq known.again
    BY <1>1 DEF AskedOnce, TypeInv, BUTypeOK
  <2>2. <<c.to, c.run>> \in known'.again \/ flight' = flight
    BY <1>3 DEF Asked, same
  <2>3. \A g \in FUs, q \in Runs : <<g, q>> \in flight => <<g, q>> \in known'.again
    BY <1>3, <2>1 DEF Asked
  <2> QED  BY <1>2, <2>1, <2>2, <2>3
<1>11. AskedOnce'
  BY <1>3, <1>8, <1>9, <1>10 DEF AskedOnce
<1> QED  BY <1>6, <1>7, <1>11 DEF CallInv

LEMMA CallsLanded ==
  ASSUME TypeInv, CallInv, NEW f \in FUs, NEW r \in Runs, FlightLands(f, r)
  PROVE  CallInv' /\ OnceStep
<1>1. /\ calls \subseteq Call /\ UNCHANGED <<calls, run>> /\ flight' \subseteq flight
      /\ CallsInPlace /\ AskedOnce /\ <<f, r>> \in flight
  BY DEF TypeInv, BUTypeOK, CallInv, FlightLands, buSide
<1>2. Asked(f, r) /\ f \in run[r].joined
  BY <1>1 DEF AskedOnce, Asked, CallsInPlace
<1>3. /\ \A g \in FUs, q \in Runs : Ran(g, q)' => Ran(g, q) \/ (g = f /\ q = r)
      /\ \A g \in FUs : \A q \in fu'[g].work : Ran(g, q)' /\ (q \in fu[g].work \/ (g = f /\ q = r))
      /\ \A g, q : Asked(g, q)' <=> Asked(g, q)
  BY <1>1, WorkNoted DEF FlightLands
<1>4. OnceStep
  BY <1>1, <1>2, <1>3 DEF OnceStep, AskedOnce, Ran, Asked
<1>5. CallsInPlace'
  BY <1>1, <1>2, <1>3 DEF CallsInPlace, Waiting
<1>6. known'.again = known.again
  BY DEF FlightLands, Noted, TypeInv, BUTypeOK
<1>7. \A d \in calls : d.to \in FUs /\ d.run \in Runs
  BY <1>1 DEF Call
<1>8. \A q \in Runs : Waiting(q)' = Waiting(q) /\ Waiting(q) \subseteq FUs
  BY <1>1 DEF Waiting, TypeInv, BUTypeOK, RunState
<1>9. AskedOnce'
  BY <1>1, <1>2, <1>3, <1>6, <1>7, <1>8 DEF AskedOnce
<1> QED  BY <1>4, <1>5, <1>9 DEF CallInv

\* Calls to the units F about r are added.
LEMMA CallsAdded ==
  ASSUME TypeInv, CallInv, NEW r \in Runs, NEW F \in SUBSET FUs, NEW by,
         calls' = calls \union {Notify(by, r, f) : f \in F},
         UNCHANGED <<fu, flight>>, known'.ran = known.ran, known.again \subseteq known'.again,
         \A q \in Runs : /\ run[q].joined \subseteq run'[q].joined
                         /\ run'[q].pending = run[q].pending
                         /\ run'[q].todo \subseteq run[q].todo
                         /\ run'[q].async = run[q].async,
         F \subseteq run'[r].joined, by = "async" => run[r].async = "contact",
         \A f \in F : ~Asked(f, r)' => /\ ~Ran(f, r) /\ f \notin run'[r].todo
                                       /\ by # "async" => f \notin run[r].pending
                                       /\ \A d \in calls : ~(d.to = f /\ d.run = r)
  PROVE  CallInv' /\ OnceStep
<1>1. calls \subseteq Call /\ CallsInPlace /\ AskedOnce
  BY DEF TypeInv, BUTypeOK, CallInv
<1>2. \A f : Notify(by, r, f).to = f /\ Notify(by, r, f).run = r /\ Notify(by, r, f).by = by
  BY DEF Notify
<1>3. \A d \in calls' : /\ d.to \in FUs /\ d.run \in Runs
                        /\ d \in calls \/ (\E f \in F : d = Notify(by, r, f) /\ d.to = f /\ d.run = r /\ d.by = by)
  BY <1>1, <1>2 DEF Call
<1>4. OnceStep
  BY DEF OnceStep
<1>5. /\ \A f, q : (Ran(f, q)' <=> Ran(f, q)) /\ (Asked(f, q) => Asked(f, q)')
      /\ \A q \in Runs : Waiting(q)' \subseteq Waiting(q) /\ Waiting(q) \subseteq FUs
  BY DEF Ran, Asked, Waiting, TypeInv, BUTypeOK, RunState
<1>6. CallsInPlace'
  <2>1. \A d \in calls' : d.to \in run'[d.run].joined /\ (d.by = "async" => run'[d.run].async = "contact")
    BY <1>1, <1>3 DEF CallsInPlace
  <2>2. \A f \in FUs, q \in Runs :
          f \in Waiting(q)' \/ Ran(f, q)' \/ <<f, q>> \in flight' => f \in run'[q].joined
    BY <1>1, <1>5 DEF CallsInPlace
  <2> QED  BY <2>1, <2>2 DEF CallsInPlace
<1>7. ASSUME NEW d \in calls', ~Asked(d.to, d.run)'
      PROVE  /\ ~Ran(d.to, d.run)
             /\ d.to \notin run'[d.run].todo
             /\ d.by # "async" => d.to \notin run'[d.run].pending
             /\ \A e \in calls' : e.to = d.to /\ e.run = d.run => e = d
  <2>1. CASE d \in calls
    <3>1. ~(d.to \in F /\ d.run = r)
      BY <1>7, <2>1
    <3>2. \A e \in calls' : e.to = d.to /\ e.run = d.run => e \in calls
      BY <1>3, <3>1
    <3> QED  BY <1>1, <1>3, <1>5, <1>7, <2>1, <3>2 DEF AskedOnce
  <2>2. CASE \E f \in F : d = Notify(by, r, f) /\ d.to = f /\ d.run = r /\ d.by = by
    <3>1. \A e \in calls' : e.to = d.to /\ e.run = d.run => e = d
      BY <1>3, <1>7, <2>2
    <3> QED  BY <1>7, <2>2, <3>1
  <2> QED  BY <1>3, <2>1, <2>2
<1>8. AskedOnce'
  <2>1. \A f \in FUs : \A q \in fu'[f].work : Ran(f, q)'
    BY <1>1, <1>5 DEF AskedOnce
  <2>2. \A q \in Runs : \A f \in Waiting(q)' : Ran(f, q)' => Asked(f, q)'
    BY <1>1, <1>5 DEF AskedOnce
  <2>3. flight' \subseteq known'.again
    BY <1>1 DEF AskedOnce
  <2> QED  BY <1>5, <1>7, <2>1, <2>2, <2>3 DEF AskedOnce
<1> QED  BY <1>4, <1>6, <1>8 DEF CallInv

LEMMA CallsNewRun ==
  ASSUME TypeInv, CourseInv, CallInv, NewRunCmd
  PROVE  CallInv' /\ OnceStep
<1> DEFINE h == Head(cmds)
<1>1. cmds \in Seq(Runs \union {Herod}) /\ cmds # <<>> /\ h \in Runs /\ UNCHANGED <<fu, flight, known>>
  BY CommandsType DEF NewRunCmd, TypeInv, BUTypeOK
<1>2. CASE dir[h] = "gone"
  <2>1. KeepsCalls
    BY <1>1, <1>2 DEF NewRunCmd, KeepsCalls
  <2> QED  BY <1>1, <2>1, CallsKept DEF OnceStep
<1>3. CASE dir[h] # "gone"
  <2>1. PICK F \in SUBSET FUs : /\ run' = [run EXCEPT ![h].joined = F]
                                /\ calls' = calls \union {Notify("start", h, f) : f \in F}
    BY <1>3 DEF NewRunCmd, Acquired
  <2>2. run[h].joined = {}
    BY NewRunFresh
  <2> HIDE DEF h
  <2>3. \A q \in Runs : /\ run[q].joined \subseteq run'[q].joined
                        /\ run'[q].pending = run[q].pending
                        /\ run'[q].todo = run[q].todo
                        /\ run'[q].async = run[q].async
    BY <1>1, <2>1, <2>2 DEF TypeInv, BUTypeOK, RunState
  <2>4. run'[h].joined = F
    BY <1>1, <2>1 DEF TypeInv, BUTypeOK, RunState
  <2>5. /\ \A f \in FUs : f \notin Waiting(h) /\ ~Ran(f, h)
        /\ \A d \in calls : d.run # h
    BY <1>1, <2>2 DEF CallInv, CallsInPlace
  <2> QED  BY <1>1, <2>1, <2>3, <2>4, <2>5, CallsAdded DEF Waiting
<1> QED  BY <1>2, <1>3

LEMMA CallsAsync ==
  ASSUME TypeInv, CallInv, NEW r \in Runs, AsyncCall(r)
  PROVE  CallInv' /\ OnceStep
<1>1. PICK f \in run[r].todo : /\ calls' = calls \union {Notify("async", r, f)}
                               /\ run' = [run EXCEPT ![r].todo = @ \ {f}]
  BY DEF AsyncCall
<1>2. f \in FUs /\ f \in Waiting(r) /\ f \in run[r].joined
  BY <1>1 DEF Waiting, TypeInv, BUTypeOK, RunState, CallInv, CallsInPlace
<1>3. \A q \in Runs : /\ run'[q].joined = run[q].joined
                      /\ run'[q].pending = run[q].pending
                      /\ run'[q].todo \subseteq run[q].todo
                      /\ run'[q].async = run[q].async
  BY <1>1 DEF TypeInv, BUTypeOK, RunState
<1>4. f \notin run'[r].todo
  BY <1>1 DEF TypeInv, BUTypeOK, RunState
<1>5. ~Asked(f, r) => ~Ran(f, r) /\ \A d \in calls : ~(d.to = f /\ d.run = r)
  BY <1>1, <1>2 DEF CallInv, AskedOnce
<1>6. UNCHANGED <<fu, flight, known>> /\ run[r].async = "contact"
  BY DEF AsyncCall
<1>7. Asked(f, r)' <=> Asked(f, r)
  BY <1>6 DEF Asked
<1> DEFINE F == {f}
<1>8. calls' = calls \union {Notify("async", r, g) : g \in F} /\ F \in SUBSET FUs
  BY <1>1, <1>2
<1>9. F \subseteq run'[r].joined
  BY <1>2, <1>3
<1>10. \A g \in F : ~Asked(g, r)' => /\ ~Ran(g, r) /\ g \notin run'[r].todo
                                     /\ \A d \in calls : ~(d.to = g /\ d.run = r)
  BY <1>4, <1>5, <1>7
<1> HIDE DEF F
<1> QED  BY <1>3, <1>6, <1>8, <1>9, <1>10, CallsAdded

LEMMA CallsAttached ==
  ASSUME TypeInv, CallInv, AttachBox
  PROVE  CallInv' /\ OnceStep
<1>1. UNCHANGED <<fu, flight>> /\ rr.to \in FUs
  BY DEF AttachBox, TypeInv, RangerHasUnit
<1>2. ASSUME NEW r \in Runs, Attached(r, rr.to)  PROVE  CallInv' /\ OnceStep
  <2>0. PICK f \in FUs : f = rr.to
    BY <1>1
  <2>1. /\ calls' = calls \union {Notify("box", r, f)}
        /\ run' = [run EXCEPT ![r].joined = @ \union {f}]
        /\ f \in run[r].joined => rr.override
    BY <1>2, <2>0 DEF Attached, Attaches, Refused, TakesPart
  <2>2. \A q \in Runs : /\ run[q].joined \subseteq run'[q].joined
                        /\ run'[q].pending = run[q].pending
                        /\ run'[q].todo = run[q].todo
                        /\ run'[q].async = run[q].async
    BY <2>1 DEF TypeInv, BUTypeOK, RunState
  <2>3. f \in run'[r].joined
    BY <2>1 DEF TypeInv, BUTypeOK, RunState
  <2>4. /\ known'.ran = known.ran /\ known.again \subseteq known'.again
        /\ rr.override => Asked(f, r)'
    <3> DEFINE a == IF rr.override THEN known.again \union {<<f, r>>} ELSE known.again
    <3>1. PICK u, e : known' = [known EXCEPT !.again = a, !.unlisted = u, !.excused = e]
      BY <1>2, <2>0 DEF Attached
    <3>2. known.again \subseteq a /\ (rr.override => <<f, r>> \in a)
      OBVIOUS
    <3> HIDE DEF a
    <3>3. known'.ran = known.ran /\ known'.again = a
      BY <3>1 DEF TypeInv, BUTypeOK
    <3> QED  BY <3>2, <3>3 DEF Asked
  <2>5. f \notin run[r].joined => /\ f \notin Waiting(r) /\ ~Ran(f, r)
                                  /\ \A d \in calls : ~(d.to = f /\ d.run = r)
    BY <1>1 DEF CallInv, CallsInPlace
  <2> DEFINE F == {f}
  <2>6. /\ calls' = calls \union {Notify("box", r, g) : g \in F} /\ F \in SUBSET FUs
        /\ F \subseteq run'[r].joined
    BY <1>1, <2>1, <2>3
  <2>7. \A g \in F : ~Asked(g, r)' => /\ ~Ran(g, r) /\ g \notin run'[r].todo
                                      /\ g \notin run[r].pending
                                      /\ \A d \in calls : ~(d.to = g /\ d.run = r)
    BY <2>1, <2>2, <2>4, <2>5 DEF Waiting
  <2> HIDE DEF F
  <2> QED  BY <1>1, <2>2, <2>4, <2>6, <2>7, CallsAdded
<1>3. CASE UNCHANGED <<run, calls, known>>
  <2>1. KeepsCalls
    BY <1>1, <1>3 DEF KeepsCalls
  <2> QED  BY <1>1, <2>1, CallsKept DEF OnceStep
<1> QED  BY <1>2, <1>3 DEF AttachBox

LEMMA UnitsOnlyEnd ==
  ASSUME TypeInv, NEW f \in FUs, UnitStep(f) \/ WorkEnds(f) \/ FuFails(f)
  PROVE  /\ UNCHANGED <<calls, run, known>> /\ flight' \subseteq flight
         /\ \A g \in FUs : fu'[g].work \subseteq fu[g].work
<1>1. UNCHANGED <<calls, run, known>> /\ flight' \subseteq flight
  BY DEF UnitStep, FuToCloud, FuFromCloud, FuHangs, FuRecovers, FuBoots, FuCreatesBox,
     WorkEnds, FuEnds, FuDrops, FuFails, buSide
<1>2. CASE UnitStep(f)
  <2>1. \/ UNCHANGED fu
        \/ \E b : fu' = [fu EXCEPT ![f].cloud = b]
        \/ \E b : fu' = [fu EXCEPT ![f].st = b]
    BY <1>2 DEF UnitStep, FuToCloud, FuFromCloud, FuHangs, FuRecovers, FuBoots, FuCreatesBox
  <2> QED  BY <1>1, <2>1, SMTT(60) DEF TypeInv, BUTypeOK, UnitState
<1>3. CASE WorkEnds(f)
  <2>1. \E r : fu' = [fu EXCEPT ![f].work = @ \ {r}]
    BY <1>3 DEF WorkEnds, FuEnds, FuDrops
  <2> QED  BY <1>1, <2>1 DEF TypeInv, BUTypeOK, UnitState
<1>4. CASE FuFails(f)
  BY <1>1, <1>4 DEF FuFails, TypeInv, BUTypeOK, UnitState
<1> QED  BY <1>2, <1>3, <1>4

LEMMA CallsStep ==
  ASSUME TypeInv, CourseInv, CallInv, [Next]_buVars
  PROVE  CallInv' /\ OnceStep
<1>1. KeepsCalls => CallInv' /\ OnceStep
  BY CallsKept DEF KeepsCalls, OnceStep
<1>2. CASE RunnerStep
  <2>1. CASE NewRunCmd
    BY <2>1, CallsNewRun
  <2>2. CASE Started
    <3>1. ru.cur \in Runs /\ run[ru.cur].async # "contact"
      BY <2>2 DEF Started, CourseInv, TakenFirst
    <3>2. \A r \in Runs : /\ run'[r].joined = run[r].joined /\ run'[r].pending = run[r].pending
                          /\ run'[r].todo = run[r].todo
                          /\ r # ru.cur => run'[r] = run[r]
      BY <2>2, <3>1 DEF Started, TypeInv, BUTypeOK, RunState
    <3>3. KeepsCalls
      BY <2>2, <3>1, <3>2 DEF Started, KeepsCalls
    <3> QED  BY <1>1, <3>3
  <2>3. CASE HerodCmd
    <3>1. \A f \in FUs : fu'[f].work \subseteq fu[f].work
      BY <2>3 DEF HerodCmd, TypeInv, BUTypeOK, UnitState
    <3>2. KeepsCalls
      BY <2>3, <3>1 DEF HerodCmd, KeepsCalls
    <3> QED  BY <1>1, <3>2
  <2>4. CASE HerodJoined \/ HerodDone
    <3>1. KeepsCalls
      BY <2>4 DEF HerodJoined, HerodDone, KeepsCalls
    <3> QED  BY <1>1, <3>1
  <2>5. CASE \E r \in Runs : HerodRun(r)
    <3>1. KeepsCalls
      BY <2>5 DEF HerodRun, KeepsCalls, TypeInv, BUTypeOK, RunState
    <3> QED  BY <1>1, <3>1
  <2> QED  BY <1>2, <2>1, <2>2, <2>3, <2>4, <2>5 DEF RunnerStep
<1>3. CASE CallStep
  BY <1>3, CallsAnswered, CallsUnanswered DEF CallStep
<1>4. CASE AttachBox
  BY <1>4, CallsAttached
<1>5. ASSUME NEW r \in Runs, AsyncStep(r)  PROVE  CallInv' /\ OnceStep
  <2>1. CASE AsyncCall(r)
    BY <2>1, CallsAsync
  <2>2. CASE AsyncWake(r)
    <3>1. KeepsCalls
      BY <2>2 DEF AsyncWake, KeepsCalls, TypeInv, BUTypeOK, RunState
    <3> QED  BY <1>1, <3>1
  <2>3. CASE AsyncRest(r)
    <3>1. KeepsCalls
      BY <2>3 DEF AsyncRest, KeepsCalls, TypeInv, BUTypeOK, RunState
    <3> QED  BY <1>1, <3>1
  <2> QED  BY <1>5, <2>1, <2>2, <2>3 DEF AsyncStep
<1>6. ASSUME NEW r \in Runs, CompletedChecker(r)  PROVE  CallInv' /\ OnceStep
  <2>1. UNCHANGED <<calls, flight, fu>> /\ known'.ran = known.ran /\ known'.again = known.again
    BY <1>6 DEF CompletedChecker, CheckerEoR, CheckerJoined, CheckerPoll, CheckerRemove, TypeInv, BUTypeOK
  <2>2. \A q \in Runs : /\ run'[q].joined = run[q].joined /\ run'[q].todo = run[q].todo
                        /\ run'[q].pending \subseteq run[q].pending /\ run'[q].async = run[q].async
    <3>1. CASE CheckerEoR(r)
      BY <3>1 DEF CheckerEoR, TypeInv, BUTypeOK, RunState
    <3>2. CASE CheckerJoined(r) \/ CheckerPoll(r) \/ CheckerRemove(r)
      <4>1. PICK pc : run' = [run EXCEPT ![r].checker = pc]
        BY <3>2 DEF CheckerJoined, CheckerPoll, CheckerRemove, CheckerGoto
      <4> QED  BY <4>1 DEF TypeInv, BUTypeOK, RunState
    <3> QED  BY <1>6, <3>1, <3>2 DEF CompletedChecker
  <2>3. KeepsCalls
    BY <2>1, <2>2 DEF KeepsCalls
  <2> QED  BY <1>1, <2>3
<1>7. ASSUME UNCHANGED <<calls, run, known>>, flight' \subseteq flight,
             \A f \in FUs : fu'[f].work \subseteq fu[f].work
      PROVE  CallInv' /\ OnceStep
  <2>1. KeepsCalls
    BY <1>7 DEF KeepsCalls
  <2> QED  BY <1>1, <2>1
<1>8. ASSUME StartIsLong \/ HerodCgi \/ UNCHANGED buVars
             \/ (\E r \in Runs : DirStep(r)) \/ (\E f \in FUs : BoxStep(f))
      PROVE  UNCHANGED <<calls, run, known, flight, fu>>
  BY <1>8 DEF StartIsLong, HerodCgi, buVars, DirStep, BuOpens, BuEnds, BuRemoves, BoxStep,
     BoxCreated, BoxRead, BoxDropped, BoxTorn, BoxAges
<1>9. ASSUME NEW f \in FUs, UnitStep(f) \/ WorkEnds(f) \/ FuFails(f)
      PROVE  CallInv' /\ OnceStep
  BY <1>7, <1>9, UnitsOnlyEnd
<1>10. ASSUME NEW f \in FUs, NEW r \in Runs, FlightLands(f, r)  PROVE  CallInv' /\ OnceStep
  BY <1>10, CallsLanded
<1> QED  BY <1>2, <1>3, <1>4, <1>5, <1>6, <1>7, <1>8, <1>9, <1>10, Steps

-----------------------------------------------------------------------------
(* Runs that are complete *)

Late == {"poll", "remove", "over"} \* of the checker
KeepsComplete ==
  /\ known'.complete = known.complete /\ known.excused \subseteq known'.excused
  /\ \A f \in FUs, r \in known.complete :
       /\ r \in fu'[f].work => r \in fu[f].work \/ <<f, r>> \in known'.excused
       /\ <<f, r>> \in flight' => <<f, r>> \in flight \/ <<f, r>> \in known'.excused
  /\ \A c \in calls' : c.run \in known.complete => c \in calls \/ <<c.to, c.run>> \in known'.excused
  /\ \A r \in Runs :
       /\ run'[r].checker \in Late => run[r].checker \in Late \/ AsyncJoined(r)
       /\ run'[r].async = run[r].async \/ run'[r].checker \notin Late
       /\ r \in known.complete => run'[r].checker \in {"remove", "over"}

LEMMA CompleteKept ==
  ASSUME TypeInv, CompleteInv, KeepsComplete
  PROVE  CompleteInv'
<1>1. known.complete \subseteq Runs
  BY DEF TypeInv, BUTypeOK
<1>2. \A r \in Runs : run'[r].checker \in Late => AsyncJoined(r)'
  BY DEF CompleteInv, KeepsComplete, AsyncJoined, Late
<1>3. \A r \in known.complete :
        /\ run'[r].checker \in {"remove", "over"}
        /\ \A c \in calls' : c.run = r => <<c.to, r>> \in known'.excused
        /\ \A f \in FUs : <<f, r>> \in flight' => <<f, r>> \in known'.excused
        /\ \A f \in FUs : r \in fu'[f].work => <<f, r>> \in known'.excused
  BY <1>1 DEF CompleteInv, KeepsComplete, CompletionTrue
<1> QED  BY <1>2, <1>3 DEF CompleteInv, CompletionTrue, KeepsComplete, Late

LEMMA CompletePoll ==
  ASSUME TypeInv, CompleteInv, NEW r \in Runs, CheckerPoll(r)
  PROVE  CompleteInv'
<1>1. /\ UNCHANGED <<calls, flight, fu>>
      /\ known'.complete = known.complete \union {r}
      /\ known'.excused = known.excused \union (Unseen(r) \X {r})
  BY DEF CheckerPoll, TypeInv, BUTypeOK
<1>2. /\ run[r].checker = "poll" /\ run'[r].checker = "remove"
      /\ \A q \in Runs : run'[q].async = run[q].async /\ (q # r => run'[q].checker = run[q].checker)
  BY DEF CheckerPoll, CheckerGoto, TypeInv, BUTypeOK, RunState
<1>3. ASSUME NEW f \in FUs, r \in fu[f].work  PROVE  f \in Unseen(r)
  <2> SUFFICES ASSUME Up(f), ~Barred(lists, f), ~HeldUp  PROVE  FALSE
    BY DEF Unseen
  <2>1. map[f] = Reported(f)
    BY DEF CheckerPoll, Settled
  <2>2. Counted(f) /\ map[f].runs = fu[f].work
    BY <2>1 DEF Counted, Reported
  <2> QED  BY <1>3, <2>2 DEF CheckerPoll, NoBoxShows
<1>4. \A c \in calls : c.run = r => c.to \in Unseen(r)
  BY DEF Unseen, TypeInv, BUTypeOK, Call
<1>5. \A f \in FUs : <<f, r>> \in flight => f \in Unseen(r)
  BY DEF Unseen
<1>6. \A q \in Runs : run'[q].checker \in Late => AsyncJoined(q)'
  BY <1>2 DEF CompleteInv, AsyncJoined, Late
<1>7. \A q \in known'.complete :
        /\ run'[q].checker \in {"remove", "over"}
        /\ \A c \in calls' : c.run = q => <<c.to, q>> \in known'.excused
        /\ \A f \in FUs : <<f, q>> \in flight' => <<f, q>> \in known'.excused
        /\ \A f \in FUs : q \in fu'[f].work => <<f, q>> \in known'.excused
  <2>1. known.complete \subseteq Runs
    BY DEF TypeInv, BUTypeOK
  <2> QED  BY <1>1, <1>2, <1>3, <1>4, <1>5, <2>1 DEF CompleteInv, CompletionTrue
<1> QED  BY <1>6, <1>7 DEF CompleteInv, CompletionTrue, Late

LEMMA CompleteCall ==
  ASSUME TypeInv, CallInv, CompleteInv, NEW c \in calls, Answered(c) \/ Unanswered(c)
  PROVE  CompleteInv'
<1>1. c.to \in FUs /\ c.run \in Runs /\ c \in Call
  BY DEF TypeInv, BUTypeOK, Call
<1>2. c.run \in known.complete => <<c.to, c.run>> \in known.excused
  BY DEF CompleteInv
<1>3. /\ known'.complete = known.complete /\ known'.excused = known.excused
      /\ \A g \in FUs : \A q \in fu'[g].work : q \in fu[g].work \/ (g = c.to /\ q = c.run)
      /\ \A p \in flight' : p \in flight \/ p = <<c.to, c.run>>
  <2>1. CASE Answered(c)
    BY <1>1, <2>1, WorkNoted DEF Answered, CallInv
  <2>2. CASE Unanswered(c)
    <3>1. fu' \in {fu, WithStart(c.to, c.run)} /\ flight' \in {flight, flight \union {<<c.to, c.run>>}}
      BY <2>2 DEF Unanswered
    <3>2. CASE known' = known /\ fu' = fu
      BY <3>1, <3>2
    <3>3. CASE known' = Noted(Repeated(c.to, c.run))
      BY <1>1, <3>1, <3>3, WorkNoted DEF CallInv
    <3> QED  BY <2>2, <3>2, <3>3 DEF Unanswered
  <2> QED  BY <2>1, <2>2
<1>4. \A d \in calls' : d \in calls \/ (d.to = c.to /\ d.run = c.run)
  <2>1. \A d \in calls' : d \in calls \/ d = [c EXCEPT !.left = @ - 1]
    BY DEF Answered, Unanswered, Finished
  <2> QED  BY <1>1, <2>1 DEF Call
<1>5. KeepsComplete
  BY <1>2, <1>3, <1>4, CallRuns DEF KeepsComplete, CompleteInv
<1> QED  BY <1>5, CompleteKept

LEMMA CompleteStep ==
  ASSUME TypeInv, CourseInv, CallInv, CompleteInv, [Next]_buVars
  PROVE  CompleteInv'
<1>1. KeepsComplete => CompleteInv'
  BY CompleteKept
<1>2. CASE RunnerStep
  <2>1. CASE NewRunCmd
    <3> DEFINE h == Head(cmds)
    <3>1. h \in Runs /\ run[h].checker = "none" /\ UNCHANGED <<fu, flight, known>>
      BY <2>1, NewRunFresh DEF NewRunCmd
    <3>2. h \notin known.complete
      BY <3>1 DEF CompleteInv
    <3>3. /\ UNCHANGED run \/ \E F : run' = [run EXCEPT ![h].joined = F]
          /\ \A c \in calls' : c \in calls \/ \E f \in FUs : c = Notify("start", h, f)
      <4>1. CASE dir[h] = "gone"
        BY <2>1, <4>1 DEF NewRunCmd
      <4>2. CASE dir[h] # "gone"
        <5>1. PICK F \in SUBSET FUs : /\ run' = [run EXCEPT ![h].joined = F]
                                      /\ calls' = calls \union {Notify("start", h, f) : f \in F}
          BY <2>1, <4>2 DEF NewRunCmd, Acquired
        <5> HIDE DEF h
        <5> QED  BY <5>1
      <4> QED  BY <4>1, <4>2
    <3> HIDE DEF h
    <3>4. \A r \in Runs : run'[r].checker = run[r].checker /\ run'[r].async = run[r].async
      BY <3>1, <3>3 DEF TypeInv, BUTypeOK, RunState
    <3>5. \A c \in calls' : c \in calls \/ c.run = h
      BY <3>3 DEF Notify
    <3>6. KeepsComplete
      BY <3>1, <3>2, <3>4, <3>5 DEF KeepsComplete, CompleteInv
    <3> QED  BY <1>1, <3>6
  <2>2. CASE Started
    <3>1. ru.cur \in Runs /\ run[ru.cur].checker = "none"
      BY <2>2 DEF Started, CourseInv, TakenFirst
    <3>2. ru.cur \notin known.complete
      BY <3>1 DEF CompleteInv
    <3>3. \A r \in Runs : IF r = ru.cur THEN run'[r].checker = "eor" ELSE run'[r] = run[r]
      BY <2>2, <3>1 DEF Started, TypeInv, BUTypeOK, RunState
    <3>4. KeepsComplete
      BY <2>2, <3>1, <3>2, <3>3 DEF Started, KeepsComplete, CompleteInv, Late
    <3> QED  BY <1>1, <3>4
  <2>3. CASE HerodCmd
    <3>1. \A f \in FUs : fu'[f].work \subseteq fu[f].work
      BY <2>3 DEF HerodCmd, TypeInv, BUTypeOK, UnitState
    <3>2. KeepsComplete
      BY <2>3, <3>1 DEF HerodCmd, KeepsComplete, CompleteInv
    <3> QED  BY <1>1, <3>2
  <2>4. CASE HerodJoined \/ HerodDone
    <3>1. KeepsComplete
      BY <2>4 DEF HerodJoined, HerodDone, KeepsComplete, CompleteInv
    <3> QED  BY <1>1, <3>1
  <2>5. ASSUME NEW q \in Runs, HerodRun(q)  PROVE  CompleteInv'
    <3>1. \A r \in Runs : run'[r].checker = run[r].checker /\ run'[r].async = run[r].async
      BY <2>5 DEF HerodRun, TypeInv, BUTypeOK, RunState
    <3>2. KeepsComplete
      BY <2>5, <3>1 DEF HerodRun, KeepsComplete, CompleteInv
    <3> QED  BY <1>1, <3>2
  <2> QED  BY <1>2, <2>1, <2>2, <2>3, <2>4, <2>5 DEF RunnerStep
<1>3. CASE CallStep
  BY <1>3, CompleteCall DEF CallStep
<1>4. CASE AttachBox
  <2>1. UNCHANGED <<fu, flight>> /\ rr.to \in FUs
    BY <1>4 DEF AttachBox, TypeInv, RangerHasUnit
  <2>2. ASSUME NEW r \in Runs, Attached(r, rr.to)  PROVE  KeepsComplete
    <3>1. \A q \in Runs : run'[q].checker = run[q].checker /\ run'[q].async = run[q].async
      BY <2>2 DEF Attached, TypeInv, BUTypeOK, RunState
    <3>2. \A c \in calls' : c \in calls \/ (c.run = r /\ c.to = rr.to)
      BY <2>2 DEF Attached, Notify
    <3> DEFINE e == IF r \in known.complete THEN known.excused \union {<<rr.to, r>>} ELSE known.excused
    <3>3. PICK a, u : known' = [known EXCEPT !.again = a, !.unlisted = u, !.excused = e]
      BY <2>2 DEF Attached
    <3>4. known.excused \subseteq e /\ (r \in known.complete => <<rr.to, r>> \in e)
      OBVIOUS
    <3> HIDE DEF e
    <3>5. known'.complete = known.complete /\ known'.excused = e
      BY <3>3 DEF TypeInv, BUTypeOK
    <3> QED  BY <2>1, <3>1, <3>2, <3>4, <3>5 DEF KeepsComplete, CompleteInv
  <2>3. CASE UNCHANGED <<run, calls, known>>
    <3>1. KeepsComplete
      BY <2>1, <2>3 DEF KeepsComplete, CompleteInv
    <3> QED  BY <1>1, <3>1
  <2> QED  BY <1>1, <1>4, <2>2, <2>3 DEF AttachBox
<1>5. ASSUME NEW r \in Runs, AsyncStep(r)  PROVE  CompleteInv'
  <2>1. run[r].checker \notin Late
    BY <1>5 DEF AsyncStep, AsyncWake, AsyncCall, AsyncRest, CompleteInv, AsyncJoined, Late
  <2>2. r \notin known.complete
    BY <2>1 DEF CompleteInv, Late
  <2>3. \A q \in Runs : run'[q].checker = run[q].checker /\ (q # r => run'[q] = run[q])
    <3>1. CASE AsyncWake(r)
      BY <3>1 DEF AsyncWake, TypeInv, BUTypeOK, RunState
    <3>2. CASE AsyncCall(r)
      BY <3>2 DEF AsyncCall, TypeInv, BUTypeOK, RunState
    <3>3. CASE AsyncRest(r)
      BY <3>3 DEF AsyncRest, TypeInv, BUTypeOK, RunState
    <3> QED  BY <1>5, <3>1, <3>2, <3>3 DEF AsyncStep
  <2>4. \A c \in calls' : c \in calls \/ c.run = r
    BY <1>5 DEF AsyncStep, AsyncWake, AsyncCall, AsyncRest, Notify
  <2>5. UNCHANGED <<fu, flight, known>>
    BY <1>5 DEF AsyncStep, AsyncWake, AsyncCall, AsyncRest
  <2>6. KeepsComplete
    BY <2>1, <2>2, <2>3, <2>4, <2>5 DEF KeepsComplete, CompleteInv
  <2> QED  BY <1>1, <2>6
<1>6. ASSUME NEW r \in Runs, CompletedChecker(r)  PROVE  CompleteInv'
  <2>1. CASE CheckerPoll(r)
    BY <2>1, CompletePoll
  <2>2. CASE CheckerEoR(r) \/ CheckerJoined(r) \/ CheckerRemove(r)
    <3>1. UNCHANGED <<calls, fu, flight, known>>
      BY <2>2 DEF CheckerEoR, CheckerJoined, CheckerRemove
    <3>2. /\ run'[r].checker \in Late => run[r].checker \in Late \/ AsyncJoined(r)
          /\ r \in known.complete => run'[r].checker \in {"remove", "over"}
          /\ \A q \in Runs : run'[q].async = run[q].async /\ (q # r => run'[q].checker = run[q].checker)
      <4>1. CASE CheckerEoR(r)
        <5>1. r \notin known.complete
          BY <4>1 DEF CheckerEoR, CompleteInv
        <5> QED  BY <4>1, <5>1 DEF CheckerEoR, TypeInv, BUTypeOK, RunState, Late
      <4>2. CASE CheckerJoined(r)
        <5>1. r \notin known.complete
          BY <4>2 DEF CheckerJoined, CompleteInv
        <5> QED  BY <4>2, <5>1 DEF CheckerJoined, CheckerGoto, TypeInv, BUTypeOK, RunState
      <4>3. CASE CheckerRemove(r)
        BY <4>3 DEF CheckerRemove, CheckerGoto, TypeInv, BUTypeOK, RunState, Late
      <4> QED  BY <2>2, <4>1, <4>2, <4>3
    <3>3. KeepsComplete
      BY <3>1, <3>2 DEF KeepsComplete, CompleteInv
    <3> QED  BY <1>1, <3>3
  <2> QED  BY <1>6, <2>1, <2>2 DEF CompletedChecker
<1>7. ASSUME UNCHANGED <<calls, run, known>>, flight' \subseteq flight,
             \A f \in FUs : fu'[f].work \subseteq fu[f].work
      PROVE  CompleteInv'
  <2>1. KeepsComplete
    BY <1>7 DEF KeepsComplete, CompleteInv
  <2> QED  BY <1>1, <2>1
<1>8. ASSUME StartIsLong \/ HerodCgi \/ UNCHANGED buVars
             \/ (\E r \in Runs : DirStep(r)) \/ (\E f \in FUs : BoxStep(f))
      PROVE  UNCHANGED <<calls, run, known, flight, fu>>
  BY <1>8 DEF StartIsLong, HerodCgi, buVars, DirStep, BuOpens, BuEnds, BuRemoves, BoxStep,
     BoxCreated, BoxRead, BoxDropped, BoxTorn, BoxAges
<1>9. ASSUME NEW f \in FUs, UnitStep(f) \/ WorkEnds(f) \/ FuFails(f)
      PROVE  CompleteInv'
  BY <1>7, <1>9, UnitsOnlyEnd
<1>10. ASSUME NEW f \in FUs, NEW r \in Runs, FlightLands(f, r)  PROVE  CompleteInv'
  <2>1. /\ UNCHANGED <<calls, run>> /\ <<f, r>> \in flight /\ flight' \subseteq flight
        /\ known'.complete = known.complete /\ known'.excused = known.excused
        /\ \A g \in FUs : \A q \in fu'[g].work : q \in fu[g].work \/ (g = f /\ q = r)
    BY <1>10, WorkNoted DEF FlightLands, buSide, CallInv
  <2>2. r \in known.complete => <<f, r>> \in known.excused
    BY <2>1 DEF CompleteInv
  <2>3. KeepsComplete
    BY <2>1, <2>2 DEF KeepsComplete, CompleteInv
  <2> QED  BY <1>1, <2>3
<1> QED  BY <1>2, <1>3, <1>4, <1>5, <1>6, <1>7, <1>8, <1>9, <1>10, Steps

-----------------------------------------------------------------------------
(* The lists *)

LEMMA UnlistedKept ==
  ASSUME TypeInv, [Next]_buVars
  PROVE  known.unlisted \subseteq known'.unlisted
<1>1. known \in [complete : SUBSET Runs, excused : SUBSET (FUs \X Runs),
                 unlisted : SUBSET Runs, ran : SUBSET (FUs \X Runs), again : SUBSET (FUs \X Runs)]
  BY DEF TypeInv, BUTypeOK
<1>2. /\ Noted(known).unlisted = known.unlisted
      /\ \A f, r : Noted(Repeated(f, r)).unlisted = known.unlisted
  BY <1>1 DEF Noted, Repeated
<1>3. CASE CallStep
  <2>1. \/ known' = known \/ known' = Noted(known) \/ \E f, r : known' = Noted(Repeated(f, r))
    BY <1>3 DEF CallStep, Answered, Unanswered
  <2> QED  BY <1>2, <2>1
<1>4. CASE \E f \in FUs, r \in Runs : FlightLands(f, r)
  BY <1>2, <1>4 DEF FlightLands
<1>5. CASE AttachBox
  <2>1. ASSUME NEW r \in Runs, Attached(r, rr.to)  PROVE  known.unlisted \subseteq known'.unlisted
    <3> DEFINE u == IF run[r].joined = {} THEN known.unlisted \union {r} ELSE known.unlisted
    <3>1. PICK a, e : known' = [known EXCEPT !.again = a, !.unlisted = u, !.excused = e]
      BY <2>1 DEF Attached
    <3>2. known.unlisted \subseteq u
      OBVIOUS
    <3> HIDE DEF u
    <3> QED  BY <1>1, <3>1, <3>2
  <2> QED  BY <1>5, <2>1 DEF AttachBox
<1>6. CASE \E r \in Runs : CompletedChecker(r)
  BY <1>1, <1>6 DEF CompletedChecker, CheckerEoR, CheckerJoined, CheckerPoll, CheckerRemove
<1>7. CASE RunnerStep
  BY <1>7 DEF RunnerStep, NewRunCmd, Started, HerodCmd, HerodJoined, HerodDone, HerodRun
<1>8. ASSUME StartIsLong \/ HerodCgi \/ UNCHANGED buVars
             \/ (\E r \in Runs : AsyncStep(r) \/ DirStep(r))
             \/ (\E f \in FUs : BoxStep(f) \/ UnitStep(f) \/ WorkEnds(f) \/ FuFails(f))
      PROVE  UNCHANGED known
  BY <1>8 DEF StartIsLong, HerodCgi, buVars, AsyncStep, AsyncWake, AsyncCall, AsyncRest,
     DirStep, BuOpens, BuEnds, BuRemoves, BoxStep, BoxCreated, BoxRead, BoxDropped, BoxTorn,
     BoxAges, UnitStep, FuToCloud, FuFromCloud, FuHangs, FuRecovers, FuBoots, FuCreatesBox,
     WorkEnds, FuEnds, FuDrops, FuFails
<1> QED  BY <1>3, <1>4, <1>5, <1>6, <1>7, <1>8, Steps

LEMMA ListsNewRun ==
  ASSUME TypeInv, CourseInv, ListsRespected, NewRunCmd
  PROVE  ListsRespected'
<1>0. PICK h \in Runs : h = Head(cmds)
  BY NewRunFresh
<1>1. /\ ru.pc = "idle" /\ ru \in RunnerState /\ UNCHANGED known
      /\ cmds \in Seq(Runs \union {Herod}) /\ cmds # <<>>
  BY DEF NewRunCmd, TypeInv, BUTypeOK
<1>2. CASE dir[h] = "gone"
  <2>1. UNCHANGED <<ru, lists, run>>
    BY <1>0, <1>2 DEF NewRunCmd
  <2> QED  BY <1>1, <2>1 DEF ListsRespected, Begun, Barred
<1>3. CASE dir[h] # "gone"
  <2>1. PICK l \in Lists, young \in SUBSET {f \in box : ~Up(f)} :
          lists' = l /\ run' = [run EXCEPT ![h].joined = Acquired(l, young)]
    BY <1>0, <1>3 DEF NewRunCmd
  <2>2. ru' = [ru EXCEPT !.pc = "start", !.cur = h]
    BY <1>0, <1>3 DEF NewRunCmd
  <2>3. Begun(h)'
    <3>1. ru'.pc = "start" /\ ru'.cur = h
      BY <1>1, <2>2 DEF RunnerState
    <3> QED  BY <3>1 DEF Begun
  <2>4. \A q \in Runs : Begun(q)' /\ h <= q => q = h
    <3>1. \A q \in Runs : Begun(q) => q < h
      <4>1. Queued(h)
        BY <1>0, <1>1, QueueTail DEF NewRunCmd, CourseInv, InOrder, QueueInOrder
      <4> QED  BY <1>1, <4>1 DEF CourseInv, InOrder
    <3>2. \A q \in Runs : Begun(q)' => q = h \/ Begun(q)
      <4>1. ru'.pc = "start" /\ ru'.cur = h
        BY <1>1, <2>2 DEF RunnerState
      <4>2. \A q \in Runs : run'[q].checker = run[q].checker
        BY <2>1 DEF TypeInv, BUTypeOK, RunState
      <4> QED  BY <4>1, <4>2 DEF Begun
    <3>3. \A q \in Runs : q < h => ~(h <= q)
      BY RunsOrdered
    <3> QED  BY <3>1, <3>2, <3>3
  <2>5. run'[h].joined = Acquired(l, young)
    BY <1>1, <2>1 DEF TypeInv, BUTypeOK, RunState
  <2>6. \A f \in FUs : Barred(lists, f)' => f \notin Acquired(l, young)
    BY <2>1 DEF Acquired, Barred
  <2> QED  BY <1>1, <2>3, <2>4, <2>5, <2>6 DEF ListsRespected
<1> QED  BY <1>2, <1>3

LEMMA ListsStep ==
  ASSUME TypeInv, CourseInv, ListsRespected, [Next]_buVars
  PROVE  ListsRespected'
<1>1. known.unlisted \subseteq known'.unlisted
  BY UnlistedKept
<1>2. CASE NewRunCmd
  BY <1>2, ListsNewRun
<1>3. CASE AttachBox
  <2>1. UNCHANGED <<ru, lists>>
    BY <1>3 DEF AttachBox
  <2>2. ASSUME NEW n \in Runs, Attached(n, rr.to)  PROVE  ListsRespected'
    <3>1. /\ ~(Barred(lists, rr.to) /\ run[n].joined # {})
          /\ run' = [run EXCEPT ![n].joined = @ \union {rr.to}]
      BY <2>2 DEF Attached, Attaches, Refused
    <3>2. run[n].joined = {} => n \in known'.unlisted
      <4>1. PICK a, e : known' = [known EXCEPT !.again = a,
                          !.unlisted = IF run[n].joined = {} THEN @ \union {n} ELSE @, !.excused = e]
        BY <2>2 DEF Attached
      <4> QED  BY <4>1 DEF TypeInv, BUTypeOK
    <3>3. \A r \in Runs : /\ run'[r].checker = run[r].checker
                          /\ run'[r].joined \subseteq run[r].joined \union {rr.to}
                          /\ r # n => run'[r].joined = run[r].joined
      BY <3>1 DEF TypeInv, BUTypeOK, RunState
    <3>4. /\ \A r \in Runs : Begun(r)' <=> Begun(r)
          /\ \A f \in FUs : Barred(lists, f)' <=> Barred(lists, f)
      BY <2>1, <3>3 DEF Begun, Barred
    <3> QED  BY <1>1, <3>1, <3>2, <3>3, <3>4 DEF ListsRespected
  <2>3. CASE UNCHANGED run
    BY <1>1, <2>1, <2>3 DEF ListsRespected, Begun, Barred
  <2> QED  BY <1>3, <2>2, <2>3 DEF AttachBox
<1>4. CASE ~NewRunCmd /\ ~AttachBox
  <2>1. /\ UNCHANGED lists
        /\ \A r \in Runs : (Begun(r)' <=> Begun(r)) /\ run'[r].joined = run[r].joined
    <3>1. CASE Started
      <4>1. ru.pc = "start" /\ ru'.pc = "idle" /\ ru.cur \in Runs /\ UNCHANGED lists
        BY <3>1 DEF Started, RunnerIdle, CourseInv, TakenFirst
      <4>2. \A r \in Runs : /\ run'[r].joined = run[r].joined
                            /\ r # ru.cur => run'[r] = run[r]
                            /\ r = ru.cur => run'[r].checker = "eor"
        BY <3>1, <4>1 DEF Started, TypeInv, BUTypeOK, RunState
      <4> QED  BY <4>1, <4>2 DEF Begun
    <3>2. CASE HerodCmd \/ HerodCgi \/ \E r \in Runs : BuOpens(r)
      BY <3>2 DEF HerodCmd, HerodCgi, BuOpens, Begun, TypeInv, BUTypeOK, RunnerState
    <3>3. CASE KeepsCourse
      BY <1>4, <3>3 DEF KeepsCourse, Begun
    <3> QED  BY <1>4, <3>1, <3>2, <3>3, CourseCases
  <2>2. \A f \in FUs : Barred(lists, f)' <=> Barred(lists, f)
    BY <2>1 DEF Barred
  <2> QED  BY <1>1, <2>1, <2>2 DEF ListsRespected
<1> QED  BY <1>2, <1>3, <1>4

-----------------------------------------------------------------------------
(* The theorems *)

BUInv == TypeInv /\ CourseInv /\ CallInv /\ CompleteInv /\ ListsRespected

LEMMA BUInductive == /\ Init => BUInv
                     /\ BUInv /\ [Next]_buVars => BUInv' /\ OnceStep
<1>1. ASSUME Init  PROVE  BUInv
  <2>1. TypeInv
    BY <1>1, BUTypeInit
  <2>2. /\ DOMAIN cmds = {} /\ ru.pc = "idle" /\ calls = {} /\ flight = {} /\ listed = {}
        /\ \A r \in Runs : /\ dir[r] = "none" /\ run[r].joined = {} /\ run[r].pending = {}
                           /\ run[r].todo = {} /\ run[r].async = "none" /\ run[r].checker = "none"
        /\ \A f \in FUs : fu[f].work = {}
        /\ known.complete = {} /\ known.ran = {}
    BY <1>1 DEF Init, RunnerIdle, NewRun
  <2>3. \A r : ~Queued(r) /\ (r \in Runs => ~Begun(r))
    BY <2>2 DEF Queued, Begun
  <2>4. CourseInv
    BY <2>2, <2>3 DEF CourseInv, InOrder, TakenFirst
  <2>5. CallInv
    BY <2>2 DEF CallInv, CallsInPlace, AskedOnce, Waiting, Ran
  <2>6. CompleteInv /\ ListsRespected
    BY <2>2, <2>3 DEF CompleteInv, CompletionTrue, ListsRespected
  <2> QED  BY <2>1, <2>4, <2>5, <2>6 DEF BUInv
<1>2. ASSUME BUInv, [Next]_buVars  PROVE  BUInv' /\ OnceStep
  BY <1>2, TypeStep, CourseStep, CallsStep, CompleteStep, ListsStep DEF BUInv
<1> QED  BY <1>1, <1>2

\* No filter unit works on a run that the completion checker has declared complete, but
\* for the units that the boxes do not tell of.
THEOREM BUCompletionTrue == Spec => []CompletionTrue
<1>1. BUInv => CompletionTrue
  BY DEF BUInv, CompleteInv
<1> QED  BY <1>1, BUInductive, PTL DEF Spec

\* No unit that the lists of the last run exclude takes part in it.
THEOREM BUListsRespected == Spec => []ListsRespected
<1>1. BUInv => ListsRespected
  BY DEF BUInv
<1> QED  BY <1>1, BUInductive, PTL DEF Spec

\* No unit starts a run it has had before, unless it was asked once more than needed.
THEOREM BUStartedOnce == Spec => StartedOnce
<1>1. BUInv /\ [Next]_buVars => [OnceStep]_buVars
  BY BUInductive
<1>2. [][OnceStep]_buVars => StartedOnce
  BY PTL DEF StartedOnce, OnceStep
<1> QED  BY <1>1, <1>2, BUInductive, PTL DEF Spec
=============================================================================
