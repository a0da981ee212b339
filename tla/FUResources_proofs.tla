------------------------- MODULE FUResources_proofs -------------------------
(***************************************************************************)
(* The filter unit: the theorems about FUResources for every value of its  *)
(* constants, first those about cores and the processes they are given     *)
(* to, then those about the course of a run and about OngoingListed.       *)
(***************************************************************************)
EXTENDS FUResources, TLAPS, FiniteSetTheorems, SequenceTheorems

-----------------------------------------------------------------------------
(* Operators *)

LEMMA CoresFinite ==
  ASSUME NEW S \in SUBSET Cores
  PROVE  IsFiniteSet(S) /\ Cardinality(S) \in Nat
BY StateAssumption, FS_Subset, FS_CardinalityType

LEMMA MoveToType ==
  ASSUME StateTypeOK, NEW S \in SUBSET Cores, NEW dir \in Dirs, MoveTo(S, dir)
  PROVE  where' \in [Cores -> Dirs] /\ events' \in Seq(Event)
<1>1. where' \in [Cores -> Dirs]
  BY DEF MoveTo, StateTypeOK
<1>2. CASE dir \in Watched
  <2>1. PICK f \in Orders(S) : events' = events \o [i \in 1 .. Cardinality(S) |-> [core |-> f[i], dir |-> dir]]
    BY <1>2 DEF MoveTo
  <2>2. f \in [1 .. Cardinality(S) -> S]
    BY <2>1 DEF Orders
  <2>3. [i \in 1 .. Cardinality(S) |-> [core |-> f[i], dir |-> dir]] \in Seq(Event)
    <3>1. \A i \in 1 .. Cardinality(S) : [core |-> f[i], dir |-> dir] \in Event
      BY <1>2, <2>2 DEF Event
    <3>2. Cardinality(S) \in Nat
      BY CoresFinite
    <3> HIDE DEF Event
    <3> QED  BY <3>1, <3>2
  <2> QED  BY <2>1, <2>3, <1>1 DEF StateTypeOK
<1>3. CASE dir \notin Watched
  BY <1>1, <1>3 DEF MoveTo, StateTypeOK
<1> QED  BY <1>2, <1>3

LEMMA SendType ==
  ASSUME StateTypeOK, NEW op \in {"run", "end", "quarantined", "herod"}, NEW r \in Runs, Send(op, r)
  PROVE  cmds' \in Seq(Command)
BY DEF Send, StateTypeOK, Command

LEMMA LastOngoingRunType ==
  ASSUME StateTypeOK
  PROVE  LastOngoingRun \in Runs \union {NoRun}
BY DEF LastOngoingRun, StateTypeOK

LEMMA OwnersType ==
  ASSUME StateTypeOK, NEW c \in Cores, NEW r \in Runs \union {NoRun}
  PROVE  Owners(c, r) \in SUBSET Res
<1>1. ASSUME NEW s \in Runs  PROVE  OwnersIn(c, r, s) \subseteq Res
  <2>1. run[s].online \subseteq Groups
    BY DEF StateTypeOK, RunState
  <2> SUFFICES ASSUME NEW y \in OwnersIn(c, r, s)  PROVE  y \in Res
    OBVIOUS
  <2>2. PICK g \in run[s].online : y = <<s, g>>
    BY DEF OwnersIn
  <2> QED  BY <2>1, <2>2 DEF Res
<1> QED  BY <1>1 DEF Owners, StateTypeOK

\* What is left of the RunList without its i-th run.
LEMMA WithoutElements ==
  ASSUME runs \in Seq(Runs), NEW i \in DOMAIN runs, runs' = Without(i)
  PROVE  /\ i \in 1 .. Len(runs) /\ Len(runs) \in Nat /\ DOMAIN runs = 1 .. Len(runs)
         /\ runs' \in Seq(Runs) /\ Len(runs') = Len(runs) - 1
         /\ \A k \in 1 .. (Len(runs) - 1) : runs'[k] = IF k <= i - 1 THEN runs[k] ELSE runs[k + 1]
<1> DEFINE a == SubSeq(runs, 1, i - 1)
           b == SubSeq(runs, i + 1, Len(runs))
<1>1. /\ i \in 1 .. Len(runs) /\ Len(runs) \in Nat /\ DOMAIN runs = 1 .. Len(runs)
      /\ \A k \in 1 .. Len(runs) : runs[k] \in Runs
  OBVIOUS
<1>2. /\ a \in Seq(Runs) /\ Len(a) = i - 1
      /\ \A k \in 1 .. (i - 1) : a[k] = runs[k]
  BY <1>1, SubSeqProperties
<1>3. /\ b \in Seq(Runs) /\ Len(b) = Len(runs) - i
      /\ \A k \in 1 .. (Len(runs) - i) : b[k] = runs[i + k]
  BY <1>1, SubSeqProperties
<1>4. runs' = a \o b
  BY DEF Without
<1> HIDE DEF a, b
<1>5. /\ runs' \in Seq(Runs) /\ Len(runs') = Len(runs) - 1
      /\ \A k \in 1 .. (Len(runs) - 1) : runs'[k] = IF k <= i - 1 THEN runs[k] ELSE runs[k + 1]
  <2>1. /\ runs' \in Seq(Runs) /\ Len(runs') = Len(a) + Len(b)
        /\ \A k \in 1 .. (Len(a) + Len(b)) : runs'[k] = IF k <= Len(a) THEN a[k] ELSE b[k - Len(a)]
    <3>1. a \in Seq(Runs) /\ b \in Seq(Runs)
      BY <1>2, <1>3
    <3> QED  BY <3>1, <1>4, ConcatProperties
  <2>2. Len(runs') = Len(runs) - 1
    BY <2>1, <1>1, <1>2, <1>3
  <2>3. ASSUME NEW k \in 1 .. (Len(runs) - 1), k <= i - 1  PROVE  runs'[k] = runs[k]
    BY <2>1, <2>3, <1>1, <1>2, <1>3
  <2>4. ASSUME NEW k \in 1 .. (Len(runs) - 1), k > i - 1  PROVE  runs'[k] = runs[k + 1]
    <3>1. k - (i - 1) \in 1 .. (Len(runs) - i) /\ i + (k - (i - 1)) = k + 1
      BY <2>4, <1>1
    <3>2. runs'[k] = b[k - (i - 1)]
      BY <2>1, <2>4, <1>1, <1>2, <1>3
    <3> QED  BY <3>1, <3>2, <1>3
  <2> QED  BY <2>1, <2>2, <2>3, <2>4, <1>1
<1> QED  BY <1>1, <1>5

\* Removing a run from the RunList removes nothing else.
LEMMA RemoveRunType ==
  ASSUME runs \in Seq(Runs), NEW r \in Runs, RemoveRun(r)
  PROVE  /\ runs' \in Seq(Runs)
         /\ \A s \in Runs : InList(s)' => InList(s)
         /\ \A s \in Runs : InList(s) /\ s # r => InList(s)'
<1>1. CASE ~InList(r)
  BY <1>1 DEF RemoveRun, InList
<1>2. CASE InList(r)
  <2>1. PICK i \in DOMAIN runs : runs[i] = r /\ runs' = Without(i)
    BY <1>2 DEF RemoveRun
  <2>2. i \in 1 .. Len(runs) /\ Len(runs) \in Nat /\ DOMAIN runs = 1 .. Len(runs)
    BY <2>1
  <2>3. /\ runs' \in Seq(Runs) /\ Len(runs') = Len(runs) - 1
        /\ \A k \in 1 .. (Len(runs) - 1) : runs'[k] = IF k <= i - 1 THEN runs[k] ELSE runs[k + 1]
    BY <2>1, WithoutElements
  <2>4. ASSUME NEW s \in Runs, InList(s)'  PROVE  InList(s)
    BY <2>2, <2>3, <2>4, SMTT(60) DEF InList
  <2>5. ASSUME NEW s \in Runs, InList(s), s # r  PROVE  InList(s)'
    <3>1. PICK k \in 1 .. Len(runs) : runs[k] = s
      BY <2>2, <2>5 DEF InList
    <3>2. CASE k <= i - 1
      <4>1. k \in 1 .. (Len(runs) - 1) /\ runs'[k] = s
        BY <3>1, <3>2, <2>2, <2>3
      <4> QED  BY <4>1, <2>3 DEF InList
    <3>3. CASE k > i
      <4>1. k - 1 \in 1 .. (Len(runs) - 1) /\ runs'[k - 1] = s
        BY <3>1, <3>3, <2>2, <2>3
      <4> QED  BY <4>1, <2>3 DEF InList
    <3> QED  BY <3>1, <3>2, <3>3, <2>1, <2>2, <2>5
  <2> QED  BY <2>3, <2>4, <2>5
<1> QED  BY <1>1, <1>2

-----------------------------------------------------------------------------
(* Types *)

\* A watchdog that is about to count a retry has one left, and the run that the
\* RunRanger starts has a number.
MayCount(v) == v.wd = "sleep" => v.retries < RetryLimit
RetriesLeft == \A x \in Res : MayCount(res[x])
RunnerHasRun == cr.pc \in {"newrun", "resize", "acquire"} => cr.run \in Runs
StateInv == StateTypeOK /\ RetriesLeft /\ RunnerHasRun
TypeInv == StateInv /\ spent \in [DOMAIN Bounds -> Nat]

LEMMA ResType ==
  ASSUME NEW x \in Res
  PROVE  x[1] \in Runs /\ x[2] \in Groups /\ x = <<x[1], x[2]>> /\ Cpu(x) \in SUBSET Cores
BY DEF Res, Groups, Cpu

LEMMA ResUpdate ==
  ASSUME StateInv, NEW x \in Res, res' = [res EXCEPT ![x] = res'[x]],
         res'[x] \in ResState, MayCount(res'[x])
  PROVE  res' \in [Res -> ResState] /\ RetriesLeft'
<1>1. res \in [Res -> ResState]
  BY DEF StateInv, StateTypeOK
<1>2. \A y \in Res : y # x => res'[y] = res[y]
  BY <1>1
<1> QED  BY <1>1, <1>2 DEF StateInv, RetriesLeft

LEMMA RunUpdate ==
  ASSUME StateInv, NEW r \in Runs, run' = [run EXCEPT ![r] = run'[r]], run'[r] \in RunState
  PROVE  run' \in [Runs -> RunState]
BY DEF StateInv, StateTypeOK

LEMMA StartType ==
  ASSUME NEW old \in ResState
  PROVE  /\ Forked(old) \in ResState /\ Watch(Forked(old)) \in ResState /\ NewRes \in ResState
         /\ Watch(old) \in ResState
         /\ Forked(old).wd = old.wd /\ Forked(old).retries = old.retries
         /\ Watch(old).wd = "watch" /\ Watch(Forked(old)).wd = "watch" /\ NewRes.wd = "none"
<1>1. Forked(old) \in ResState /\ Forked(old).wd = old.wd /\ Forked(old).retries = old.retries
  BY ZenonT(60) DEF Forked, ResState
<1>2. ASSUME NEW o \in ResState  PROVE  Watch(o) \in ResState /\ Watch(o).wd = "watch"
  BY DEF Watch, ResState
<1>3. NewRes \in ResState /\ NewRes.wd = "none"
  BY StateAssumption DEF NewRes, ResState
<1> QED  BY <1>1, <1>2, <1>3

-----------------------------------------------------------------------------
(* The watchdogs keep the types *)

LEMMA WatchdogRes ==
  ASSUME StateInv, NEW x \in Res, WatchdogNext(x)
  PROVE  res' = [res EXCEPT ![x] = res'[x]] /\ res'[x] \in ResState /\ MayCount(res'[x])
<1>1. res \in [Res -> ResState] /\ res[x] \in ResState /\ MayCount(res[x])
  BY DEF StateInv, StateTypeOK, RetriesLeft
<1>2. Used(x) \in SUBSET Cores
  BY ResType DEF Used
<1> USE DEF ResState, Finishing, MayCount
<1>3. CASE WatchdogLost(x)
  BY <1>1, <1>2, <1>3, StateAssumption, ZenonT(60) DEF WatchdogLost
<1>4. CASE WatchdogAborted(x)
  <2> DEFINE pc == IF Deactivated(x) THEN ReleasePc(x) ELSE "toIdle"
  <2>1. res' = [res EXCEPT ![x].pstate = StateAfter(x), ![x].stray = "no", ![x].wd = pc]
    BY <1>4 DEF WatchdogAborted
  <2>2. StateAfter(x) \in {"ended", "none"} /\ pc \in {"delete", "relQuar", "relIdle", "toIdle"}
    BY DEF StateAfter, ReleasePc
  <2> HIDE DEF pc
  <2> DEFINE after(old, s, p) == [old EXCEPT !.pstate = s, !.stray = "no", !.wd = p]
  <2>3. ASSUME NEW old \in ResState, NEW s \in {"ended", "none"},
               NEW p \in {"delete", "relQuar", "relIdle", "toIdle"}
        PROVE  after(old, s, p) \in ResState /\ after(old, s, p).wd = p
    BY ZenonT(60)
  <2>4. res'[x] = after(res[x], StateAfter(x), pc)
    BY <1>1, <2>1
  <2> HIDE DEF after, ResState
  <2>5. res'[x] \in ResState /\ res'[x].wd = pc
    BY <1>1, <2>2, <2>3, <2>4
  <2> USE DEF ResState
  <2> QED  BY <1>1, <2>1, <2>2, <2>4, <2>5, ZenonT(60)
<1>5. CASE WatchdogError(x)
  <2> DEFINE tries == IF ReturnCode(x) = "quit" /\ ~Deactivated(x) THEN RetryLimit ELSE res[x].retries
             pc == IF Deactivated(x) THEN ReleasePc(x)
                   ELSE IF MayRetry(tries) THEN "sleep" ELSE "toQuar"
  <2>1. res' = [res EXCEPT ![x].pstate = "ended", ![x].retries = tries, ![x].wd = pc]
    BY <1>5 DEF WatchdogError
  <2>2. tries \in 0 .. RetryLimit
    BY <1>1, StateAssumption
  <2>3. pc \in Finishing /\ (pc = "sleep" => tries < RetryLimit)
    BY DEF ReleasePc, MayRetry
  <2> HIDE DEF tries, pc
  <2>4. res' = [res EXCEPT ![x] = [res[x] EXCEPT !.pstate = "ended", !.retries = tries, !.wd = pc]]
    BY <1>1, <2>1
  <2>5. res'[x] = [res[x] EXCEPT !.pstate = "ended", !.retries = tries, !.wd = pc]
    BY <1>1, <2>4
  <2>6. res'[x].wd = pc /\ res'[x].retries = tries
    BY <1>1, <2>5
  <2>7. res'[x] \in ResState
    BY <1>1, <2>2, <2>3, <2>5, ZenonT(60)
  <2> QED  BY <2>3, <2>4, <2>5, <2>6, <2>7
<1>6. CASE WatchdogSuccess(x)
  BY <1>1, <1>2, <1>6, StateAssumption, ZenonT(60) DEF WatchdogSuccess, StateAfter, ReleasePc
<1>7. CASE WatchdogStopSeen(x)
  BY <1>1, <1>2, <1>7, StateAssumption DEF WatchdogStopSeen
<1>8. CASE WatchdogToIdle(x)
  BY <1>1, <1>2, <1>8, StateAssumption DEF WatchdogToIdle
<1>9. CASE WatchdogToBroken(x)
  BY <1>1, <1>2, <1>9, StateAssumption DEF WatchdogToBroken
<1>10. CASE WatchdogToQuarantined(x)
  BY <1>1, <1>2, <1>10, StateAssumption DEF WatchdogToQuarantined
<1>11. CASE WatchdogRemoveMark(x)
  BY <1>1, <1>2, <1>11, StateAssumption DEF WatchdogRemoveMark
<1>12. CASE WatchdogMark(x)
  BY <1>1, <1>2, <1>12, StateAssumption DEF WatchdogMark
<1>13. CASE WatchdogFlag(x)
  BY <1>1, <1>2, <1>13, StateAssumption DEF WatchdogFlag
<1>14. CASE WatchdogDelete(x)
  BY <1>1, <1>2, <1>14, StateAssumption DEF WatchdogDelete
<1>15. CASE WatchdogRelease(x)
  BY <1>1, <1>2, <1>15, StateAssumption DEF WatchdogRelease
<1>16. CASE WatchdogDelist(x)
  BY <1>1, <1>2, <1>16, StateAssumption DEF WatchdogDelist
<1> QED  BY <1>3, <1>4, <1>5, <1>6, <1>7, <1>8, <1>9, <1>10, <1>11, <1>12, <1>13, <1>14, <1>15, <1>16 DEF WatchdogNext

LEMMA WatchdogTypes ==
  ASSUME StateInv, NEW x \in Res, WatchdogNext(x)
  PROVE  StateInv'
<1> DEFINE r == x[1]
<1>1. r \in Runs /\ Used(x) \in SUBSET Cores
  BY ResType DEF Used
<1>2. res' \in [Res -> ResState] /\ RetriesLeft'
  BY WatchdogRes, ResUpdate
<1>3. UNCHANGED <<where, events>> \/ \E dir \in Dirs : MoveTo(Used(x), dir)
  BY DEF WatchdogNext, WatchdogLost, WatchdogAborted, WatchdogError, WatchdogSuccess,
         WatchdogStopSeen, WatchdogToIdle, WatchdogToBroken, WatchdogToQuarantined,
         WatchdogRemoveMark, WatchdogMark, WatchdogFlag, WatchdogDelete, WatchdogRelease,
         WatchdogDelist, Dirs, Watched
<1>4. UNCHANGED cmds \/ Send("end", r) \/ Send("quarantined", r)
  BY DEF WatchdogNext, WatchdogLost, WatchdogAborted, WatchdogError, WatchdogSuccess,
         WatchdogStopSeen, WatchdogToIdle, WatchdogToBroken, WatchdogToQuarantined,
         WatchdogRemoveMark, WatchdogMark, WatchdogFlag, WatchdogDelete, WatchdogRelease,
         WatchdogDelist
<1>5. \/ UNCHANGED run
      \/ \E b \in BOOLEAN : run' = [run EXCEPT ![r].endfile = b] \/ run' = [run EXCEPT ![r].qfile = b]
      \/ \E G \in SUBSET Groups : run' = [run EXCEPT ![r].online = @ \ G]
  BY ResType DEF WatchdogNext, WatchdogLost, WatchdogAborted, WatchdogError, WatchdogSuccess,
         WatchdogStopSeen, WatchdogToIdle, WatchdogToBroken, WatchdogToQuarantined,
         WatchdogRemoveMark, WatchdogMark, WatchdogFlag, WatchdogDelete, WatchdogRelease,
         WatchdogDelist, Cpu
<1>6. UNCHANGED <<lock, rr, cr, runs, we, sh, qlist, cpuchg>>
  BY DEF WatchdogNext, WatchdogLost, WatchdogAborted, WatchdogError, WatchdogSuccess,
         WatchdogStopSeen, WatchdogToIdle, WatchdogToBroken, WatchdogToQuarantined,
         WatchdogRemoveMark, WatchdogMark, WatchdogFlag, WatchdogDelete, WatchdogRelease,
         WatchdogDelist
<1>7. where' \in [Cores -> Dirs] /\ events' \in Seq(Event)
  BY <1>1, <1>3, MoveToType DEF StateInv, StateTypeOK
<1>8. cmds' \in Seq(Command)
  BY <1>1, <1>4, SendType DEF StateInv, StateTypeOK
<1>9. run' \in [Runs -> RunState]
  <2>1. run \in [Runs -> RunState] /\ run[r] \in RunState
    BY <1>1 DEF StateInv, StateTypeOK
  <2>2. run' = [run EXCEPT ![r] = run'[r]]
    BY <1>1, <1>5, <2>1
  <2>3. run'[r] \in RunState
    <3>1. CASE UNCHANGED run
      BY <2>1, <3>1
    <3>2. ASSUME NEW b \in BOOLEAN, run' = [run EXCEPT ![r].endfile = b] \/ run' = [run EXCEPT ![r].qfile = b]
          PROVE  run'[r] \in RunState
      BY <1>1, <2>1, <3>2 DEF RunState
    <3>3. ASSUME NEW G \in SUBSET Groups, run' = [run EXCEPT ![r].online = @ \ G]
          PROVE  run'[r] \in RunState
      BY <1>1, <2>1, <3>3 DEF RunState
    <3> QED  BY <1>5, <3>1, <3>2, <3>3
  <2> QED  BY <1>1, <2>2, <2>3, RunUpdate
<1> QED  BY <1>2, <1>6, <1>7, <1>8, <1>9 DEF StateInv, StateTypeOK, RunnerHasRun

-----------------------------------------------------------------------------
(* The ResourceRanger keeps the types *)

LEMMA RangerTakeTypes ==
  ASSUME StateInv, RangerTake
  PROVE  StateInv'
<1>1. /\ events # <<>> /\ events \in Seq(Event) /\ LastOngoingRun \in Runs \union {NoRun}
      /\ Head(events) \in Event /\ events' \in Seq(Event)
  BY LastOngoingRunType, HeadTailProperties DEF RangerTake, StateInv, StateTypeOK
<1> DEFINE e == Head(events)
<1>2. e.core \in Cores /\ e.dir \in Watched
  BY <1>1 DEF Event
<1>3. ASSUME NEW pc \in {"stop", "acquire"}, NEW x \in Res \union {NoRes}, Taken(pc, x)
      PROVE  rr' \in RangerState /\ lock' = "ranger"
  BY <1>1, <1>2, <1>3 DEF Taken, RangerState
<1>4. rr' \in RangerState /\ lock' \in {"free", "ranger", "runner"}
  <2> DEFINE own == IF where[e.core] = e.dir THEN Owners(e.core, LastOngoingRun) ELSE {}
  <2>1. own \in SUBSET Res
    BY <1>1, <1>2, OwnersType DEF StateInv
  <2>2. \/ UNCHANGED <<rr, lock>>
        \/ \E pc \in {"stop", "acquire"}, x \in Res \union {NoRes} : Taken(pc, x)
    BY <2>1 DEF RangerTake
  <2>3. CASE UNCHANGED <<rr, lock>>
    BY <2>3 DEF StateInv, StateTypeOK
  <2> QED  BY <2>2, <2>3, <1>3
<1> QED  BY <1>1, <1>4 DEF RangerTake, StateInv, StateTypeOK, RetriesLeft, RunnerHasRun

\* Stop with the flags that the RunRanger or the ResourceRanger pass.
LEMMA StopWithTypes ==
  ASSUME StateInv, NEW x, NEW fl \in SUBSET {"remove", "mask", "move_q"}, StopWith(x, fl)
  PROVE  res' \in [Res -> ResState] /\ RetriesLeft'
<1>1. res \in [Res -> ResState]
  BY DEF StateInv, StateTypeOK
<1>2. CASE x \in Res
  <2> DEFINE v == [res[x] EXCEPT !.flags = res[x].flags \union fl, !.stop = res[x].stop \/ Running(x)]
  <2>1. res[x] \in ResState
    BY <1>1, <1>2
  <2>2. v \in ResState /\ v.wd = res[x].wd /\ v.retries = res[x].retries
    BY <2>1 DEF ResState, Running
  <2>3. res' = [res EXCEPT ![x] = v]
    BY <1>1, <1>2 DEF StopWith
  <2> HIDE DEF v
  <2>4. res'[x] = v
    BY <1>1, <1>2, <2>3
  <2> QED  BY <1>2, <2>2, <2>3, <2>4, ResUpdate DEF StateInv, RetriesLeft, MayCount
<1>3. CASE x \notin Res
  BY <1>1, <1>3 DEF StopWith, StateInv, RetriesLeft
<1> QED  BY <1>2, <1>3

LEMMA AcquireResourceTypes ==
  ASSUME StateInv, NEW r \in Runs, NEW g \in Groups, AcquireResource(r, g)
  PROVE  /\ where' \in [Cores -> Dirs] /\ events' \in Seq(Event)
         /\ run' \in [Runs -> RunState] /\ we' \in [Runs -> EndState]
         /\ res' \in [Res -> ResState] /\ RetriesLeft'
<1>1. g \in SUBSET Cores /\ <<r, g>> \in Res
  BY DEF Groups, Res
<1>2. where' \in [Cores -> Dirs] /\ events' \in Seq(Event)
  BY <1>1, MoveToType DEF AcquireResource, Dirs, StateInv
<1>3. run' \in [Runs -> RunState]
  <2>1. run \in [Runs -> RunState] /\ run[r] \in RunState
    BY DEF StateInv, StateTypeOK
  <2>2. run' = [run EXCEPT ![r] = run'[r]]
    BY <2>1 DEF AcquireResource
  <2>3. run'[r] \in RunState
    BY <2>1 DEF AcquireResource, RunState
  <2> QED  BY <2>2, <2>3, RunUpdate
<1>4. we' \in [Runs -> EndState]
  <2>1. we \in [Runs -> EndState] /\ we[r] \in EndState
    BY DEF StateInv, StateTypeOK
  <2>2. UNCHANGED we \/ we' = [we EXCEPT ![r] = [we[r] EXCEPT !.seen = we[r].seen \ {g}]]
    BY <2>1 DEF AcquireResource
  <2>3. [we[r] EXCEPT !.seen = we[r].seen \ {g}] \in EndState
    BY <2>1 DEF EndState
  <2> QED  BY <2>1, <2>2, <2>3
<1>5. res' \in [Res -> ResState] /\ RetriesLeft'
  <2>1. CASE g \in run[r].online
    BY <2>1 DEF AcquireResource, StateInv, StateTypeOK, RetriesLeft
  <2>2. CASE g \notin run[r].online
    <3>1. NewRes \in ResState /\ MayCount(NewRes)
      BY StateAssumption DEF NewRes, ResState, MayCount
    <3>2. res' = [res EXCEPT ![<<r, g>>] = NewRes]
      BY <2>2 DEF AcquireResource
    <3> QED  BY <1>1, <3>1, <3>2, ResUpdate DEF StateInv, StateTypeOK
  <2> QED  BY <2>1, <2>2
<1> QED  BY <1>2, <1>3, <1>4, <1>5

LEMMA RangerTypes ==
  ASSUME StateInv, RangerNext \/ RangerJoinTimeout
  PROVE  StateInv'
<1>1. /\ rr \in RangerState /\ rr.core \in Cores \union {NoCore} /\ rr.dir \in Watched
      /\ rr.run \in Runs \union {NoRun} /\ res \in [Res -> ResState]
  BY DEF StateInv, StateTypeOK, RangerState
<1>2. \A pc \in {"wait", "stop", "join", "acquire", "start", "rejoin"} :
        [rr EXCEPT !.pc = pc] \in RangerState
  BY <1>1 DEF RangerState
<1>3. RangerIdle \in RangerState
  BY DEF RangerIdle, RangerState, Watched
<1>4. CASE RangerTake
  BY <1>4, RangerTakeTypes
<1>5. CASE RangerStop
  <2>1. res' \in [Res -> ResState] /\ RetriesLeft'
    BY <1>5, StopWithTypes DEF RangerStop
  <2> QED  BY <1>2, <1>5, <2>1 DEF RangerStop, Handle, StateInv, StateTypeOK, RunnerHasRun
<1>6. CASE RangerJoined \/ RangerJoinTimeout
  BY <1>2, <1>3, <1>6 DEF RangerJoined, RangerJoinTimeout, RangerJoinReturns, RangerDone, Handle,
         StateInv, StateTypeOK, RunnerHasRun, RetriesLeft
<1>7. CASE RangerAcquire
  <2>1. rr.run \in Runs
    BY <1>1, <1>7 DEF RangerAcquire
  <2>2. PICK g \in Startable(rr.run, In(rr.dir)) :
          AcquireResource(rr.run, g) /\ rr' = [rr EXCEPT !.pc = "start", !.res = <<rr.run, g>>]
    BY <1>7 DEF RangerAcquire
  <2>3. g \in Groups
    BY <2>1, <2>2 DEF Startable, Matched, StateInv, StateTypeOK, RunState
  <2>4. <<rr.run, g>> \in Res
    BY <2>1, <2>3 DEF Res
  <2>5. rr' \in RangerState
    BY <1>1, <2>2, <2>4 DEF RangerState
  <2> QED  BY <1>7, <2>1, <2>2, <2>3, <2>5, AcquireResourceTypes
            DEF RangerAcquire, StateInv, StateTypeOK, RunnerHasRun
<1>8. CASE RangerSkip \/ RangerStartFails
  BY <1>3, <1>8 DEF RangerSkip, RangerStartFails, RangerDone, StateInv, StateTypeOK,
         RunnerHasRun, RetriesLeft
<1>9. CASE RangerUnbreak
  <2>1. UNCHANGED <<where, events>> \/ \E g \in Groups : MoveTo(g, "idle")
    BY <1>9 DEF RangerUnbreak
  <2>2. where' \in [Cores -> Dirs] /\ events' \in Seq(Event)
    BY <2>1, MoveToType DEF StateInv, StateTypeOK, Groups, Dirs, Watched
  <2> QED  BY <1>3, <1>9, <2>2 DEF RangerUnbreak, RangerDone, StateInv, StateTypeOK,
         RunnerHasRun, RetriesLeft
<1>10. CASE RangerStart
  <2>1. rr' \in RangerState /\ lock' = "free"
    BY <1>2, <1>3, <1>10 DEF RangerStart, Handle
  <2>2. res' \in [Res -> ResState] /\ RetriesLeft'
    <3>1. CASE rr.res \in Res
      <4>1. res[rr.res] \in ResState /\ MayCount(res[rr.res])
        BY <1>1, <3>1 DEF StateInv, RetriesLeft
      <4>2. \E v \in ResState : MayCount(v) /\ res' = [res EXCEPT ![rr.res] = v]
        BY <1>1, <1>10, <3>1, <4>1, StartType DEF RangerStart, MayCount
      <4> QED  BY <1>1, <3>1, <4>2, ResUpdate
    <3>2. CASE rr.res \notin Res
      BY <1>1, <1>10, <3>2 DEF RangerStart, StateInv, RetriesLeft
    <3> QED  BY <3>1, <3>2
  <2> QED  BY <1>10, <2>1, <2>2 DEF RangerStart, StateInv, StateTypeOK, RunnerHasRun
<1>11. CASE RangerRestarted
  <2>1. res' \in [Res -> ResState] /\ RetriesLeft'
    <3>1. CASE rr.res \in Res
      <4>1. res[rr.res] \in ResState
        BY <1>1, <3>1
      <4>2. [res[rr.res] EXCEPT !.pstate = "running", !.wd = "none"] \in ResState
        BY <4>1 DEF ResState
      <4>3. \E v \in ResState : MayCount(v) /\ res' = [res EXCEPT ![rr.res] = v]
        <5>1. CASE res[rr.res].obj
          BY <1>1, <1>11, <3>1, <4>1, <5>1, StartType DEF RangerRestarted, MayCount
        <5>2. CASE ~res[rr.res].obj
          <6> DEFINE v == [res[rr.res] EXCEPT !.pstate = "running", !.wd = "none"]
          <6>1. v.wd = "none"
            BY <4>1 DEF ResState
          <6>2. res' = [res EXCEPT ![rr.res] = v]
            BY <1>1, <1>11, <3>1, <5>2 DEF RangerRestarted
          <6> HIDE DEF v
          <6>3. v \in ResState
            BY <4>2 DEF v
          <6> QED  BY <6>1, <6>2, <6>3 DEF MayCount
        <5> QED  BY <5>1, <5>2
      <4> QED  BY <1>1, <3>1, <4>3, ResUpdate
    <3>2. CASE rr.res \notin Res
      BY <1>1, <1>11, <3>2 DEF RangerRestarted, StateInv, RetriesLeft
    <3> QED  BY <3>1, <3>2
  <2> QED  BY <1>3, <1>11, <2>1 DEF RangerRestarted, StateInv, StateTypeOK, RunnerHasRun
<1> QED  BY <1>4, <1>5, <1>6, <1>7, <1>8, <1>9, <1>10, <1>11 DEF RangerNext

-----------------------------------------------------------------------------
(* WaitForEnd and Shutdown keep the types *)

\* A resource that loses its process and some of its quarantined cores.
LEMMA LeftOverUpdate ==
  ASSUME NEW o \in ResState, NEW S, MayCount(o)
  PROVE  /\ [o EXCEPT !.obj = FALSE, !.quar = LeftOver(o.quar, S)] \in ResState
         /\ MayCount([o EXCEPT !.obj = FALSE, !.quar = LeftOver(o.quar, S)])
<1>1. LeftOver(o.quar, S) \in SUBSET Cores
  BY DEF LeftOver, ResState
<1> QED  BY <1>1 DEF ResState, MayCount

LEMMA WaitForEndTypes ==
  ASSUME StateInv, NEW r \in Runs, WaitForEndNext(r)
  PROVE  StateInv'
<1>1. /\ run \in [Runs -> RunState] /\ run[r] \in RunState /\ res \in [Res -> ResState]
      /\ we \in [Runs -> EndState] /\ we[r] \in EndState
  BY DEF StateInv, StateTypeOK
<1> USE DEF StateInv, StateTypeOK, RunnerHasRun
<1>2. CASE WaitForEndJoin(r)
  <2>1. PICK g \in JoinList(r) : we' = [we EXCEPT ![r].pc = "clear", ![r].cur = g]
    BY <1>2 DEF WaitForEndJoin
  <2>2. g \in SUBSET Cores
    BY <1>1 DEF JoinList, EndState, RunState, Groups
  <2>3. we' = [we EXCEPT ![r] = [we[r] EXCEPT !.pc = "clear", !.cur = g]]
    BY <1>1, <2>1
  <2>4. [we[r] EXCEPT !.pc = "clear", !.cur = g] \in EndState
    BY <1>1, <2>2 DEF EndState
  <2>5. we' \in [Runs -> EndState]
    BY <1>1, <2>3, <2>4
  <2> QED  BY <1>2, <2>5 DEF WaitForEndJoin, RetriesLeft
<1>3. CASE WaitForEndClear(r)
  <2> DEFINE x == <<r, we[r].cur>>
  <2>1. PICK S \in Restorable(res[x].quar) :
          /\ MoveTo(S, "idle")
          /\ res' = [res EXCEPT ![x].quar = LeftOver(@, S), ![x].obj = FALSE]
    BY <1>3 DEF WaitForEndClear
  <2>2. S \in SUBSET Cores
    BY DEF Restorable, In
  <2>3. where' \in [Cores -> Dirs] /\ events' \in Seq(Event)
    BY <2>1, <2>2, MoveToType DEF Dirs, Watched
  <2>4. res' \in [Res -> ResState] /\ RetriesLeft'
    <3>1. CASE x \in Res
      <4> DEFINE v == [res[x] EXCEPT !.quar = LeftOver(res[x].quar, S), !.obj = FALSE]
      <4>1. v \in ResState /\ MayCount(v)
        <5>1. v = [res[x] EXCEPT !.obj = FALSE, !.quar = LeftOver(res[x].quar, S)]
          BY <1>1, <3>1 DEF ResState
        <5> HIDE DEF x
        <5> QED  BY <1>1, <3>1, <5>1, LeftOverUpdate DEF RetriesLeft
      <4>2. res' = [res EXCEPT ![x] = v]
        BY <1>1, <2>1, <3>1
      <4> HIDE DEF v, x
      <4> QED  BY <1>1, <3>1, <4>1, <4>2, ResUpdate
    <3>2. CASE x \notin Res
      BY <1>1, <2>1, <3>2 DEF RetriesLeft
    <3> QED  BY <3>1, <3>2
  <2>5. we' \in [Runs -> EndState]
    <3>1. we' = [we EXCEPT ![r] = [we[r] EXCEPT !.pc = "join", !.seen = we[r].seen \union {we[r].cur}]]
      BY <1>1, <1>3 DEF WaitForEndClear
    <3>2. we[r].cur \in SUBSET Cores
      BY <1>1 DEF EndState
    <3>3. [we[r] EXCEPT !.pc = "join", !.seen = we[r].seen \union {we[r].cur}] \in EndState
      BY <1>1, <3>2 DEF EndState
    <3> QED  BY <1>1, <3>1, <3>3
  <2> QED  BY <1>3, <2>3, <2>4, <2>5 DEF WaitForEndClear
<1>4. CASE WaitForEndReset(r)
  <2>1. run' \in [Runs -> RunState]
    <3>1. \E v \in RunState : run' = [run EXCEPT ![r] = v]
      <4>1. CASE run[r].marker = "gone"
        <5>1. [run[r] EXCEPT !.online = {}, !.joinl = {}] \in RunState
          BY <1>1 DEF RunState
        <5>2. run' = [run EXCEPT ![r] = [run[r] EXCEPT !.online = {}, !.joinl = {}]]
          BY <1>1, <1>4, <4>1 DEF WaitForEndReset
        <5> QED  BY <5>1, <5>2
      <4>2. CASE run[r].marker # "gone"
        <5>1. [run[r] EXCEPT !.online = {}, !.joinl = {}, !.marker = "complete", !.endfile = FALSE]
                \in RunState
          BY <1>1 DEF RunState, Marker
        <5>2. run' = [run EXCEPT ![r] = [run[r] EXCEPT !.online = {}, !.joinl = {},
                                                       !.marker = "complete", !.endfile = FALSE]]
          BY <1>1, <1>4, <4>2 DEF WaitForEndReset
        <5> QED  BY <5>1, <5>2
      <4> QED  BY <4>1, <4>2
    <3> QED  BY <1>1, <3>1
  <2>2. we' \in [Runs -> EndState]
    <3>1. PICK pc \in {"done", "tail"} : we' = [we EXCEPT ![r].pc = pc]
      BY <1>4 DEF WaitForEndReset
    <3>2. we' = [we EXCEPT ![r] = [we[r] EXCEPT !.pc = pc]]
      BY <1>1, <3>1
    <3>3. [we[r] EXCEPT !.pc = pc] \in EndState
      BY <1>1 DEF EndState
    <3> QED  BY <1>1, <3>2, <3>3
  <2> QED  BY <1>4, <2>1, <2>2 DEF WaitForEndReset, RetriesLeft
<1>5. CASE WaitForEndRmtree(r)
  <2>1. run' \in [Runs -> RunState]
    BY <1>1, <1>5 DEF WaitForEndRmtree, RunState, Marker
  <2>2. we' \in [Runs -> EndState]
    BY <1>1, <1>5 DEF WaitForEndRmtree, EndState
  <2> QED  BY <1>5, <2>1, <2>2 DEF WaitForEndRmtree, RetriesLeft
<1>6. CASE WaitForEndRemove(r)
  <2>1. we' \in [Runs -> EndState]
    BY <1>1, <1>6 DEF WaitForEndRemove, EndState
  <2> QED  BY <1>6, <2>1, RemoveRunType DEF WaitForEndRemove, RetriesLeft
<1> QED  BY <1>2, <1>3, <1>4, <1>5, <1>6 DEF WaitForEndNext

LEMMA ShutdownTypes ==
  ASSUME StateInv, NEW r \in Runs, ShutdownNext(r)
  PROVE  StateInv'
<1>1. /\ run \in [Runs -> RunState] /\ run[r] \in RunState /\ res \in [Res -> ResState]
      /\ sh \in [Runs -> ShutState] /\ sh[r] \in ShutState
  BY DEF StateInv, StateTypeOK
<1>2. \A pc \in {"begin", "kill", "join", "clear", "reset", "wait", "rmdir", "done"} :
        [sh EXCEPT ![r].pc = pc] \in [Runs -> ShutState]
  BY <1>1 DEF ShutState
<1> USE DEF StateInv, StateTypeOK, RunnerHasRun
<1>3. CASE ShutdownBegin(r)
  <2>1. [NotOngoing(run[r]) EXCEPT !.pending = FALSE, !.marker = ChangeMarker(run[r].marker, "aborted")]
          \in RunState
    BY <1>1 DEF RunState, Marker, NotOngoing, ChangeMarker
  <2>2. run' = [run EXCEPT ![r] = [NotOngoing(run[r]) EXCEPT !.pending = FALSE,
                                     !.marker = ChangeMarker(run[r].marker, "aborted")]]
    BY <1>3 DEF ShutdownBegin
  <2>3. run' \in [Runs -> RunState]
    BY <1>1, <2>1, <2>2
  <2> QED  BY <1>2, <1>3, <2>3 DEF ShutdownBegin, RetriesLeft
<1>4. CASE ShutdownKill(r)
  <2> DEFINE term == {g \in run[r].online : res[<<r, g>>].pstate = "running"}
  <2>1. sh' \in [Runs -> ShutState]
    <3>1. term \in SUBSET Groups
      BY <1>1 DEF RunState
    <3>2. sh' = [sh EXCEPT ![r] = [sh[r] EXCEPT !.pc = "join", !.term = term]]
      BY <1>1, <1>4 DEF ShutdownKill
    <3>3. [sh[r] EXCEPT !.pc = "join", !.term = term] \in ShutState
      BY <1>1, <3>1 DEF ShutState
    <3> HIDE DEF term
    <3> QED  BY <1>1, <3>2, <3>3
  <2>2. ASSUME NEW x \in Res
        PROVE  [res[x] EXCEPT !.proc = "crash"] \in ResState /\ MayCount([res[x] EXCEPT !.proc = "crash"])
    BY <1>1, ZenonT(60) DEF ResState, MayCount, RetriesLeft
  <2>3. res' \in [Res -> ResState] /\ RetriesLeft'
    BY <1>1, <1>4, <2>2 DEF ShutdownKill, RetriesLeft
  <2> QED  BY <1>4, <2>1, <2>3 DEF ShutdownKill
<1>5. CASE ShutdownJoin(r)
  BY <1>2, <1>5 DEF ShutdownJoin, RetriesLeft
<1>6. CASE ShutdownClear(r)
  <2>1. PICK restore \in BOOLEAN, back \in [run[r].online -> SUBSET Cores] : GiveBack(r, restore, back)
    BY <1>6 DEF ShutdownClear
  <2> DEFINE listed == {<<r, g>> : g \in run[r].online}
             quar == UNION {res[x].quar : x \in listed}
             free == UNION {g \ (IF restore THEN back[g] ELSE res[<<r, g>>].quar) : g \in run[r].online}
             moved == (UNION {back[g] : g \in run[r].online}) \union (free \cap In("online"))
  <2>2. run[r].online \in SUBSET Groups /\ listed \in SUBSET Res
    BY <1>1 DEF RunState, Res
  <2>3. moved \in SUBSET Cores
    <3>1. \A g \in run[r].online : back[g] \in SUBSET Cores /\ g \in SUBSET Cores
      BY <2>1, <2>2 DEF Groups
    <3> SUFFICES ASSUME NEW c \in moved  PROVE  c \in Cores
      OBVIOUS
    <3>2. c \in In("online") \/ \E g \in run[r].online : c \in back[g]
      OBVIOUS
    <3> QED  BY <3>1, <3>2 DEF In
  <2>4. where' \in [Cores -> Dirs] /\ events' \in Seq(Event)
    <3>1. MoveTo(moved, "idle")
      BY <2>1 DEF GiveBack
    <3> HIDE DEF moved
    <3> QED  BY <2>3, <3>1, MoveToType DEF Dirs, Watched
  <2>5. quar \in SUBSET Cores
    BY <1>1, <2>2 DEF ResState
  <2>6. qlist' \in SUBSET Cores
    BY <2>1, <2>5 DEF GiveBack
  <2>7. ASSUME NEW x \in Res
        PROVE  /\ [res[x] EXCEPT !.obj = FALSE, !.quar = LeftOver(res[x].quar, back[x[2]])] \in ResState
               /\ MayCount([res[x] EXCEPT !.obj = FALSE, !.quar = LeftOver(res[x].quar, back[x[2]])])
    BY <1>1, LeftOverUpdate DEF RetriesLeft
  <2>8. res' \in [Res -> ResState] /\ RetriesLeft'
    BY <1>1, <2>1, <2>7 DEF RetriesLeft, GiveBack
  <2> QED  BY <1>2, <1>6, <2>4, <2>6, <2>8 DEF ShutdownClear
<1>7. CASE ShutdownReset(r)
  <2>1. [run[r] EXCEPT !.online = {}, !.joinl = {}, !.marker = ChangeMarker(run[r].marker, "abortcomplete")]
          \in RunState
    BY <1>1 DEF RunState, Marker, ChangeMarker
  <2>2. run' = [run EXCEPT ![r] = [run[r] EXCEPT !.online = {}, !.joinl = {},
                                     !.marker = ChangeMarker(run[r].marker, "abortcomplete")]]
    BY <1>1, <1>7 DEF ShutdownReset
  <2>3. run' \in [Runs -> RunState]
    BY <1>1, <2>1, <2>2
  <2>4. we' \in [Runs -> EndState]
    <3>1. we \in [Runs -> EndState] /\ we[r] \in EndState
      OBVIOUS
    <3>2. [we[r] EXCEPT !.cut = TRUE, !.old = run[r].joinl] \in EndState
      BY <1>1, <3>1 DEF EndState, RunState
    <3>3. UNCHANGED we \/ we' = [we EXCEPT ![r] = [we[r] EXCEPT !.cut = TRUE, !.old = run[r].joinl]]
      BY <1>7, <3>1 DEF ShutdownReset
    <3> QED  BY <3>1, <3>2, <3>3
  <2> QED  BY <1>2, <1>7, <2>3, <2>4 DEF ShutdownReset, RetriesLeft
<1>8. CASE ShutdownRemove(r)
  BY <1>2, <1>8, RemoveRunType DEF ShutdownRemove, RetriesLeft
<1>9. CASE ShutdownRmtree(r)
  <2>1. [run[r] EXCEPT !.marker = "gone", !.endfile = FALSE] \in RunState
    BY <1>1 DEF RunState, Marker
  <2>2. UNCHANGED run \/ run' = [run EXCEPT ![r] = [run[r] EXCEPT !.marker = "gone", !.endfile = FALSE]]
    BY <1>1, <1>9 DEF ShutdownRmtree
  <2>3. run' \in [Runs -> RunState]
    BY <1>1, <2>1, <2>2
  <2> QED  BY <1>2, <1>9, <2>3 DEF ShutdownRmtree, RetriesLeft
<1> QED  BY <1>3, <1>4, <1>5, <1>6, <1>7, <1>8, <1>9 DEF ShutdownNext

-----------------------------------------------------------------------------
(* The RunRanger keeps the types *)

LEMMA ResizeTypes ==
  ASSUME StateInv, NEW n \in Int, Shrink(n) \/ Grow(n)
  PROVE  where' \in [Cores -> Dirs] /\ events' \in Seq(Event) /\ cpuchg' \in Int
<1>1. PICK S \in SUBSET Cores, dir \in Dirs :
        MoveTo(S, dir) /\ (cpuchg' = Cardinality(S) - n \/ cpuchg' = 0)
  BY DEF Shrink, Grow, In, Dirs, Watched
<1>2. Cardinality(S) \in Nat
  BY CoresFinite
<1>3. where' \in [Cores -> Dirs] /\ events' \in Seq(Event)
  BY <1>1, MoveToType DEF StateInv
<1> QED  BY <1>1, <1>2, <1>3

LEMMA CommandTypes ==
  ASSUME StateInv, NEW op, Command1(op)
  PROVE  /\ CmdRun \in Runs \union {NoRun} /\ cmds' \in Seq(Command)
         /\ op \in {"run", "end", "quarantined"} => CmdRun \in Runs
<1>1. Head(cmds) \in Command /\ cmds' \in Seq(Command)
  BY HeadTailProperties DEF Command1, StateInv, StateTypeOK
<1> QED  BY <1>1 DEF Command1, CmdRun, Command

LEMMA StartShutdownTypes ==
  ASSUME StateInv, NEW S, StartShutdown(S)
  PROVE  sh' \in [Runs -> ShutState]
<1>1. \A r \in Runs : sh[r] \in ShutState /\ [sh[r] EXCEPT !.pc = "begin"] \in ShutState
  BY DEF StateInv, StateTypeOK, ShutState
<1> QED  BY <1>1 DEF StartShutdown

LEMMA NewRunTypes ==
  ASSUME StateInv, NewRunCmd \/ NewRunTakeChange \/ NewRunResize \/ NewRunStart
  PROVE  StateInv'
<1>1. RunnerIdle \in RunnerState /\ RunnerIdle.pc = "wait" /\ cr \in RunnerState
  BY DEF RunnerIdle, RunnerState, StateInv, StateTypeOK
<1>2. CASE NewRunCmd
  <2>1. CmdRun \in Runs /\ cmds' \in Seq(Command)
    BY <1>2, CommandTypes DEF NewRunCmd
  <2>2. sh' \in [Runs -> ShutState]
    BY <1>2, StartShutdownTypes DEF NewRunCmd
  <2>3. [RunnerIdle EXCEPT !.pc = "newrun", !.run = CmdRun] \in RunnerState
        /\ [RunnerIdle EXCEPT !.pc = "newrun", !.run = CmdRun].run = CmdRun
    BY <1>1, <2>1 DEF RunnerState
  <2>4. cr' \in RunnerState /\ RunnerHasRun'
    BY <1>1, <1>2, <2>1, <2>3 DEF NewRunCmd, RunnerHasRun
  <2> QED  BY <1>2, <2>1, <2>2, <2>4 DEF NewRunCmd, StateInv, StateTypeOK, RetriesLeft
<1>3. CASE NewRunTakeChange
  <2>1. cr' \in RunnerState /\ cpuchg' \in Int /\ RunnerHasRun'
    <3>1. /\ cpuchg \in Int /\ cr.run \in Runs
          /\ cr' = [cr EXCEPT !.pc = "acquire"] \/ cr' = [cr EXCEPT !.pc = "resize", !.left = cpuchg]
          /\ cpuchg' = cpuchg \/ cpuchg' = 0
      BY <1>3 DEF NewRunTakeChange, RunnerHasRun, StateInv, StateTypeOK
    <3>2. cr' \in RunnerState /\ cr'.run = cr.run
      BY <1>1, <3>1 DEF RunnerState
    <3> QED  BY <3>1, <3>2 DEF RunnerHasRun
  <2> QED  BY <1>3, <2>1 DEF NewRunTakeChange, StateInv, StateTypeOK, RetriesLeft
<1>5. CASE NewRunResize
  <2>1. where' \in [Cores -> Dirs] /\ events' \in Seq(Event) /\ cpuchg' \in Int
    <3>1. cr.left \in Int /\ -cr.left \in Int
      BY <1>1 DEF RunnerState
    <3>2. Shrink(-cr.left) \/ Grow(cr.left)
      BY <1>5 DEF NewRunResize
    <3> QED  BY <3>1, <3>2, ResizeTypes
  <2>2. cr' \in RunnerState /\ RunnerHasRun'
    BY <1>1, <1>5 DEF NewRunResize, RunnerState, RunnerHasRun, StateInv
  <2> QED  BY <1>5, <2>1, <2>2 DEF NewRunResize, StateInv, StateTypeOK, RetriesLeft
<1>4. CASE NewRunStart
  <2>1. PICK P \in Partitions :
          /\ MoveTo(UNION P, "online")
          /\ run' = [run EXCEPT ![cr.run] = [@ EXCEPT !.ongoing = TRUE, !.online = P,
                                                      !.joinl = P, !.marker = "active"]]
          /\ res' = [x \in Res |-> IF x[1] = cr.run /\ x[2] \in P THEN Watch(Forked(NewRes)) ELSE res[x]]
    BY <1>4 DEF NewRunStart
  <2>2. P \in SUBSET Groups /\ UNION P \in SUBSET Cores /\ cr.run \in Runs
    BY <1>4 DEF Partitions, Groups, NewRunStart, StateInv, RunnerHasRun
  <2>3. where' \in [Cores -> Dirs] /\ events' \in Seq(Event)
    BY <2>1, <2>2, MoveToType DEF StateInv, Dirs
  <2>4. run' \in [Runs -> RunState]
    <3>1. run \in [Runs -> RunState] /\ run[cr.run] \in RunState
      BY <2>2 DEF StateInv, StateTypeOK
    <3>2. [run[cr.run] EXCEPT !.ongoing = TRUE, !.online = P, !.joinl = P, !.marker = "active"] \in RunState
      BY <2>2, <3>1 DEF RunState, Marker
    <3> QED  BY <2>1, <2>2, <3>1, <3>2
  <2>5. res' \in [Res -> ResState] /\ RetriesLeft'
    <3>1. NewRes \in ResState
      BY StateAssumption DEF NewRes, ResState
    <3>2. Watch(Forked(NewRes)) \in ResState /\ MayCount(Watch(Forked(NewRes)))
      BY <3>1, StartType DEF MayCount
    <3> QED  BY <2>1, <3>2 DEF StateInv, StateTypeOK, RetriesLeft
  <2>6. runs' \in Seq(Runs)
    BY <1>4, <2>2, AppendProperties DEF NewRunStart, StateInv, StateTypeOK
  <2> QED  BY <1>1, <1>4, <2>3, <2>4, <2>5, <2>6 DEF NewRunStart, StateInv, StateTypeOK, RunnerHasRun
<1> QED  BY <1>2, <1>3, <1>4, <1>5

LEMMA EndRunTypes ==
  ASSUME StateInv, EndRunCmd \/ EndRunStart \/ QuarantinedCmd
  PROVE  StateInv'
<1>1. RunnerIdle \in RunnerState /\ RunnerIdle.pc = "wait"
  BY DEF RunnerIdle, RunnerState
<1>2. run \in [Runs -> RunState] /\ we \in [Runs -> EndState]
  BY DEF StateInv, StateTypeOK
<1>3. CASE EndRunCmd
  <2>1. CmdRun \in Runs /\ cmds' \in Seq(Command)
    BY <1>3, CommandTypes DEF EndRunCmd
  <2>2. [RunnerIdle EXCEPT !.pc = "endsleep", !.run = CmdRun] \in RunnerState
        /\ [RunnerIdle EXCEPT !.pc = "endsleep", !.run = CmdRun].pc = "endsleep"
    BY <1>1, <2>1 DEF RunnerState
  <2>3. cr' \in RunnerState /\ RunnerHasRun'
    BY <1>1, <1>3, <2>2 DEF EndRunCmd, RunnerHasRun
  <2>4. NotOngoing(run[CmdRun]) \in RunState /\ [run[CmdRun] EXCEPT !.endfile = FALSE] \in RunState
    BY <1>2, <2>1 DEF NotOngoing, RunState
  <2>5. run' = [run EXCEPT ![CmdRun] = NotOngoing(run[CmdRun])]
        \/ run' = [run EXCEPT ![CmdRun] = [run[CmdRun] EXCEPT !.endfile = FALSE]]
    BY <1>2, <1>3, <2>1 DEF EndRunCmd
  <2>6. run' \in [Runs -> RunState]
    BY <1>2, <2>4, <2>5
  <2> QED  BY <1>3, <2>1, <2>3, <2>6 DEF EndRunCmd, StateInv, StateTypeOK, RetriesLeft
<1>4. CASE EndRunStart
  <2>1. \A r \in Runs : [run[r] EXCEPT !.marker = "stopping"] \in RunState
    BY <1>2 DEF RunState, Marker
  <2>2. run' \in [Runs -> RunState]
    BY <1>2, <1>4, <2>1 DEF EndRunStart
  <2>3. [NoEnd EXCEPT !.pc = "join"] \in EndState
    BY DEF NoEnd, EndState
  <2>4. we' \in [Runs -> EndState]
    BY <1>2, <1>4, <2>3 DEF EndRunStart
  <2> QED  BY <1>1, <1>4, <2>2, <2>4 DEF EndRunStart, StateInv, StateTypeOK, RetriesLeft, RunnerHasRun
<1>5. CASE QuarantinedCmd
  <2>1. CmdRun \in Runs /\ cmds' \in Seq(Command)
    BY <1>5, CommandTypes DEF QuarantinedCmd
  <2>2. sh' \in [Runs -> ShutState]
    BY <1>5, StartShutdownTypes DEF QuarantinedCmd
  <2>3. PICK b \in BOOLEAN :
          run' = [run EXCEPT ![CmdRun] = [run[CmdRun] EXCEPT !.qfile = FALSE, !.pending = run[CmdRun].pending \/ b]]
    <3>1. PICK b : b \in BOOLEAN /\ run' = [run EXCEPT ![CmdRun].qfile = FALSE, ![CmdRun].pending = @ \/ b]
      BY <1>5 DEF QuarantinedCmd, InList, QuarantinedLimit, IsLatestRun
    <3> QED  BY <1>2, <2>1, <3>1
  <2>4. [run[CmdRun] EXCEPT !.qfile = FALSE, !.pending = run[CmdRun].pending \/ b] \in RunState
    BY <1>2, <2>1 DEF RunState
  <2>5. run' \in [Runs -> RunState]
    BY <1>2, <2>1, <2>3, <2>4
  <2> QED  BY <1>5, <2>1, <2>2, <2>5 DEF QuarantinedCmd, StateInv, StateTypeOK, RetriesLeft, RunnerHasRun
<1> QED  BY <1>3, <1>4, <1>5

LEMMA HerodTypes ==
  ASSUME StateInv, HerodCmd \/ (\E r \in Runs : HerodRun(r)) \/ HerodShutdownReturns \/ HerodClear
  PROVE  StateInv'
<1>1. /\ RunnerIdle \in RunnerState /\ RunnerIdle.pc = "wait" /\ cr \in RunnerState
      /\ run \in [Runs -> RunState]
  BY DEF RunnerIdle, RunnerState, StateInv, StateTypeOK
<1>2. CASE HerodCmd
  <2>1. CmdRun \in Runs \union {NoRun} /\ cmds' \in Seq(Command)
    BY <1>2, CommandTypes DEF HerodCmd
  <2>2. ActiveRuns \in SUBSET Runs
    BY DEF ActiveRuns
  <2> DEFINE c == [RunnerIdle EXCEPT !.pc = "herod", !.run = CmdRun, !.todo = ActiveRuns]
  <2>3. c \in RunnerState /\ c.pc = "herod"
    BY <1>1, <2>1, <2>2 DEF RunnerState
  <2>4. cr' = c
    BY <1>2 DEF HerodCmd
  <2> HIDE DEF c
  <2>5. \A r \in Runs : NotOngoing(run[r]) \in RunState
    BY <1>1 DEF NotOngoing, RunState
  <2>6. run' \in [Runs -> RunState]
    BY <1>1, <1>2, <2>5 DEF HerodCmd
  <2> QED  BY <1>2, <2>1, <2>3, <2>4, <2>6 DEF HerodCmd, StateInv, StateTypeOK, RetriesLeft, RunnerHasRun
<1>3. ASSUME NEW r \in Runs, HerodRun(r)  PROVE  StateInv'
  <2> DEFINE a == [cr EXCEPT !.pc = "shutdown", !.todo = @ \ {r}, !.cur = r]
             b == [cr EXCEPT !.todo = @ \ {r}]
  <2>1. a \in RunnerState /\ b \in RunnerState /\ a.pc = "shutdown" /\ b.pc = cr.pc
    BY <1>1 DEF RunnerState
  <2>2. (StartShutdown({r}) /\ cr' = a) \/ (UNCHANGED sh /\ cr' = b)
    BY <1>3 DEF HerodRun
  <2>3. cr.pc = "herod"
    BY <1>3 DEF HerodRun
  <2> HIDE DEF a, b
  <2>4. sh' \in [Runs -> ShutState]
    BY <2>2, StartShutdownTypes DEF StateInv, StateTypeOK
  <2> QED  BY <1>3, <2>1, <2>2, <2>3, <2>4 DEF HerodRun, StateInv, StateTypeOK, RetriesLeft, RunnerHasRun
<1>4. CASE HerodShutdownReturns
  BY <1>1, <1>4 DEF HerodShutdownReturns, RunnerState, StateInv, StateTypeOK, RetriesLeft, RunnerHasRun
<1>5. CASE HerodClear
  <2>1. qlist \cap In("quarantined") \in SUBSET Cores
    BY DEF In
  <2>2. where' \in [Cores -> Dirs] /\ events' \in Seq(Event)
    BY <1>5, <2>1, MoveToType DEF HerodClear, StateInv, Dirs, Watched
  <2> QED  BY <1>1, <1>5, <2>2 DEF HerodClear, StateInv, StateTypeOK, RetriesLeft, RunnerHasRun
<1> QED  BY <1>2, <1>3, <1>4, <1>5

LEMMA UpdateTypes ==
  ASSUME StateInv,
         UpdateCmd \/ (\E g \in Groups : UpdateStop(g)) \/ UpdateUnlock \/ UpdateJoined
           \/ UpdateJoinTimeout \/ UpdateEnd
  PROVE  StateInv'
<1>1. /\ RunnerIdle \in RunnerState /\ RunnerIdle.pc = "wait" /\ cr \in RunnerState /\ cr.left \in Int
      /\ run \in [Runs -> RunState] /\ res \in [Res -> ResState]
  BY DEF RunnerIdle, RunnerState, StateInv, StateTypeOK
<1>2. CASE UpdateCmd
  <2>1. cmds' \in Seq(Command)
    BY <1>2, CommandTypes DEF UpdateCmd
  <2>2. CASE cpuchg = 0 /\ cr' = RunnerIdle /\ UNCHANGED <<where, events, lock, cpuchg>>
    BY <1>1, <1>2, <2>1, <2>2 DEF UpdateCmd, StateInv, StateTypeOK, RetriesLeft, RunnerHasRun
  <2>3. CASE cpuchg > 0 /\ Grow(cpuchg) /\ cr' = RunnerIdle /\ UNCHANGED lock
    <3>1. where' \in [Cores -> Dirs] /\ events' \in Seq(Event) /\ cpuchg' \in Int
      BY <2>3, ResizeTypes DEF StateInv, StateTypeOK
    <3> QED  BY <1>1, <1>2, <2>1, <2>3, <3>1 DEF UpdateCmd, StateInv, StateTypeOK, RetriesLeft, RunnerHasRun
  <2>4. CASE cpuchg < 0
    <3>1. PICK S \in SUBSET (In("idle") \union In("quarantined")) : UpdateShrink(S)
      BY <1>2, <2>4 DEF UpdateCmd, StateInv, StateTypeOK
    <3> DEFINE n == -cpuchg - Cardinality(S)
    <3>2. S \in SUBSET Cores
      BY DEF In
    <3>3. Cardinality(S) \in Nat
      BY <3>2, CoresFinite
    <3>4. n \in Int
      BY <3>1, <3>3 DEF StateInv, StateTypeOK
    <3>5. where' \in [Cores -> Dirs] /\ events' \in Seq(Event)
      BY <3>1, <3>2, MoveToType DEF UpdateShrink, StateInv, Dirs
    <3> DEFINE c == [RunnerIdle EXCEPT !.pc = "update", !.run = LastOngoingRun,
                                !.visit = run[LastOngoingRun].online, !.left = n]
    <3>6. ASSUME LastOngoingRun # NoRun  PROVE  c \in RunnerState /\ c.pc = "update"
      <4>1. LastOngoingRun \in Runs
        BY <3>6, LastOngoingRunType DEF StateInv
      <4>2. run[LastOngoingRun].online \in SUBSET Groups
        BY <1>1, <4>1 DEF RunState
      <4> QED  BY <1>1, <3>4, <4>1, <4>2 DEF RunnerState
    <3>7. /\ cr' = RunnerIdle \/ (LastOngoingRun # NoRun /\ cr' = c)
          /\ cpuchg' \in Int /\ lock' \in {"free", "ranger", "runner"}
      BY <3>1, <3>4 DEF UpdateShrink, StateInv, StateTypeOK
    <3> HIDE DEF c
    <3>8. cr' \in RunnerState /\ RunnerHasRun'
      BY <1>1, <3>6, <3>7 DEF RunnerHasRun
    <3> QED  BY <1>2, <2>1, <3>5, <3>7, <3>8 DEF UpdateCmd, StateInv, StateTypeOK, RetriesLeft
  <2> QED  BY <1>2, <2>2, <2>3, <2>4 DEF UpdateCmd
<1>3. ASSUME NEW g \in Groups, UpdateStop(g)  PROVE  StateInv'
  <2>1. res' \in [Res -> ResState] /\ RetriesLeft'
    BY <1>3, StopWithTypes DEF UpdateStop
  <2>2. PICK l \in Int, st \in SUBSET Groups :
          cr' = [cr EXCEPT !.visit = cr.visit \ {g}, !.left = l, !.stopped = st]
    <3>1. cr.left - NStreams \in Int /\ cr.stopped \in SUBSET Groups
      BY <1>1, StateAssumption DEF RunnerState
    <3>2. cr' = [cr EXCEPT !.visit = cr.visit \ {g},
                   !.left = IF Running(<<cr.run, g>>) THEN cr.left - NStreams ELSE cr.left,
                   !.stopped = IF Running(<<cr.run, g>>) THEN cr.stopped \union {g} ELSE cr.stopped]
      BY <1>3 DEF UpdateStop
    <3> QED  BY <1>1, <3>1, <3>2
  <2>3. cr' \in RunnerState /\ cr'.pc = cr.pc
    BY <1>1, <2>2 DEF RunnerState
  <2> QED  BY <1>3, <2>1, <2>3 DEF UpdateStop, StateInv, StateTypeOK, RunnerHasRun
<1>4. CASE UpdateUnlock \/ UpdateJoined
  <2>1. cr' \in RunnerState /\ cr'.pc \in {"ujoin", "ulock"}
    BY <1>1, <1>4 DEF UpdateUnlock, UpdateJoined, RunnerState
  <2> QED  BY <1>4, <2>1 DEF UpdateUnlock, UpdateJoined, StateInv, StateTypeOK, RetriesLeft, RunnerHasRun
<1>5. CASE UpdateJoinTimeout
  <2>1. cr' \in RunnerState /\ cr'.pc = "ulock"
    BY <1>1, <1>5 DEF UpdateJoinTimeout, RunnerState
  <2>2. ASSUME NEW x \in Res
        PROVE  [res[x] EXCEPT !.proc = "crash"] \in ResState /\ MayCount([res[x] EXCEPT !.proc = "crash"])
    BY <1>1, SMTT(30) DEF ResState, MayCount, StateInv, RetriesLeft
  <2>3. res' \in [Res -> ResState] /\ RetriesLeft'
    BY <1>1, <1>5, <2>2 DEF UpdateJoinTimeout, StateInv, RetriesLeft
  <2> QED  BY <1>5, <2>1, <2>3 DEF UpdateJoinTimeout, StateInv, StateTypeOK, RunnerHasRun
<1>6. CASE UpdateEnd
  <2>1. where' \in [Cores -> Dirs] /\ events' \in Seq(Event) /\ cpuchg' \in Int
    BY <1>1, <1>6, ResizeTypes DEF UpdateEnd, StateInv, StateTypeOK
  <2> QED  BY <1>1, <1>6, <2>1 DEF UpdateEnd, StateInv, StateTypeOK, RetriesLeft, RunnerHasRun
<1> QED  BY <1>2, <1>3, <1>4, <1>5, <1>6

-----------------------------------------------------------------------------
(* Type correctness *)

LEMMA ProcessTypes ==
  ASSUME StateInv, NEW x \in Res, ProcessEnds(x) \/ StrayEnds(x) \/ ProcessCrashes(x)
  PROVE  StateInv'
<1>1. res \in [Res -> ResState] /\ res[x] \in ResState /\ MayCount(res[x])
  BY DEF StateInv, StateTypeOK, RetriesLeft
<1>2. \/ \E p \in {"ok", "crash", "quit"} : res' = [res EXCEPT ![x].proc = p]
      \/ res' = [res EXCEPT ![x].stray = "ended"]
  BY DEF ProcessEnds, StrayEnds, ProcessCrashes
<1>3. res' \in [Res -> ResState] /\ RetriesLeft'
  <2>1. res' = [res EXCEPT ![x] = res'[x]]
    BY <1>1, <1>2
  <2>2. res'[x] \in ResState /\ MayCount(res'[x])
    BY <1>1, <1>2 DEF ResState, MayCount
  <2> QED  BY <2>1, <2>2, ResUpdate
<1> QED  BY <1>3 DEF ProcessEnds, StrayEnds, ProcessCrashes, StateInv, StateTypeOK, RunnerHasRun

LEMMA WorldTypes ==
  ASSUME StateInv,
         \/ \E r \in Runs : NotifyNewRun(r) \/ NotifyEnd(r) \/ Herod(r)
         \/ Herod(NoRun)
         \/ \E d \in {-1, 1} : CpuChange(d)
         \/ \E c \in Cores, dir \in {"idle", "quarantined"} : MoveByHand(c, dir)
  PROVE  StateInv'
<1> USE DEF StateInv, StateTypeOK, RetriesLeft, RunnerHasRun
<1>1. ASSUME NEW r \in Runs, NotifyNewRun(r) \/ NotifyEnd(r)  PROVE  StateInv'
  <2>1. cmds' \in Seq(Command)
    BY <1>1, SendType DEF NotifyNewRun, NotifyEnd
  <2>2. run' \in [Runs -> RunState]
    <3>1. run \in [Runs -> RunState] /\ run[r] \in RunState
      OBVIOUS
    <3>2. [run[r] EXCEPT !.marker = "new"] \in RunState /\ [run[r] EXCEPT !.endfile = TRUE] \in RunState
      BY <3>1 DEF RunState, Marker
    <3> QED  BY <1>1, <3>1, <3>2 DEF NotifyNewRun, NotifyEnd
  <2> QED  BY <1>1, <2>1, <2>2 DEF NotifyNewRun, NotifyEnd
<1>2. ASSUME NEW r \in Runs \union {NoRun}, Herod(r)  PROVE  StateInv'
  BY <1>2 DEF Herod, Send, Command
<1>3. ASSUME NEW d \in {-1, 1}, CpuChange(d)  PROVE  StateInv'
  <2>1. cmds' \in Seq(Command)
    <3>1. CASE UNCHANGED cmds
      BY <3>1
    <3>2. CASE Send("update", NoRun)
      BY <3>2 DEF Send, Command
    <3> QED  BY <1>3, <3>1, <3>2 DEF CpuChange
  <2>2. cpuchg' \in Int
    BY <1>3 DEF CpuChange
  <2> QED  BY <1>3, <2>1, <2>2 DEF CpuChange
<1>4. ASSUME NEW c \in Cores, NEW dir \in {"idle", "quarantined"}, MoveByHand(c, dir)  PROVE  StateInv'
  <2>1. where' \in [Cores -> Dirs] /\ events' \in Seq(Event)
    BY <1>4, MoveToType DEF MoveByHand, Dirs, Watched
  <2> QED  BY <1>4, <2>1 DEF MoveByHand
<1> QED  BY <1>1, <1>2, <1>3, <1>4

LEMMA InitTypes == Init => TypeInv
<1> SUFFICES ASSUME Init  PROVE  TypeInv
  OBVIOUS
<1>1. RunnerIdle \in RunnerState /\ RangerIdle \in RangerState /\ RunnerIdle.pc = "wait"
  BY DEF RunnerIdle, RunnerState, RangerIdle, RangerState, Watched
<1>2. NewRes \in ResState /\ MayCount(NewRes)
  BY StateAssumption DEF NewRes, ResState, MayCount
<1>3. NoEnd \in EndState
  BY DEF NoEnd, EndState
<1>4. where \in [Cores -> Dirs]
  BY DEF Init, Dirs, Watched
<1>5. run \in [Runs -> RunState] /\ sh \in [Runs -> ShutState]
  BY DEF Init, RunState, Marker, ShutState
<1>6. spent \in [DOMAIN Bounds -> Nat]
  BY DEF Init
<1> QED  BY <1>1, <1>2, <1>3, <1>4, <1>5, <1>6
          DEF Init, TypeInv, StateInv, StateTypeOK, RetriesLeft, RunnerHasRun

\* What has been spent of the bounds stays a number: every step leaves it or adds one.
LEMMA SpentTypes ==
  ASSUME TypeInv, [Next]_vars
  PROVE  spent' \in [DOMAIN Bounds -> Nat]
<1>1. UNCHANGED spent \/ \E k \in {"crash", "move", "timeout", "herod", "cpu"} : Spend(k)
  BY DEF Next, vars, Timeouts, ProcessEnds, StrayEnds, ProcessCrashes, NotifyNewRun, NotifyEnd,
         Herod, CpuChange, MoveByHand
<1> QED  BY <1>1 DEF Spend, TypeInv, Bounds

LEMMA TypeInvStep == TypeInv /\ [Next]_vars => TypeInv'
<1> SUFFICES ASSUME TypeInv, [Next]_vars  PROVE  TypeInv'
  OBVIOUS
<1>1. StateInv /\ spent' \in [DOMAIN Bounds -> Nat]
  BY SpentTypes DEF TypeInv
<1>2. StateInv'
  <2>1. CASE \E x \in Res : WatchdogNext(x)
    BY <1>1, <2>1, WatchdogTypes
  <2>2. CASE RangerNext \/ RangerJoinTimeout
    BY <1>1, <2>2, RangerTypes
  <2>3. CASE RunnerNext \/ UpdateJoinTimeout
    BY <1>1, <2>3, NewRunTypes, EndRunTypes, HerodTypes, UpdateTypes DEF RunnerNext
  <2>4. CASE \E r \in Runs : WaitForEndNext(r) \/ ShutdownNext(r)
    BY <1>1, <2>4, WaitForEndTypes, ShutdownTypes
  <2>5. CASE \E x \in Res : ProcessEnds(x) \/ StrayEnds(x) \/ ProcessCrashes(x)
    BY <1>1, <2>5, ProcessTypes
  <2>6. CASE \/ \E r \in Runs : NotifyNewRun(r) \/ NotifyEnd(r) \/ Herod(r)
             \/ Herod(NoRun)
             \/ \E d \in {-1, 1} : CpuChange(d)
             \/ \E c \in Cores, dir \in {"idle", "quarantined"} : MoveByHand(c, dir)
    BY <1>1, <2>6, WorldTypes
  <2>7. CASE UNCHANGED vars
    <3>1. UNCHANGED <<where, events, cmds, lock, rr, cr, runs, run, we, sh, res, qlist, cpuchg>>
      BY <2>7 DEF vars, fuVars
    <3> QED  BY <1>1, <3>1 DEF StateInv, StateTypeOK, RetriesLeft, RunnerHasRun
  <2> QED  BY <2>1, <2>2, <2>3, <2>4, <2>5, <2>6, <2>7 DEF Next, Threads, Timeouts
<1> QED  BY <1>1, <1>2 DEF TypeInv

\* Every variable keeps its type: in particular no watchdog ever counts more
\* retries than process_restart_limit allows.
THEOREM TypeCorrect == Spec => []TypeOK
<1>1. TypeInv => TypeOK
  BY DEF TypeInv, StateInv, TypeOK
<1> QED  BY <1>1, InitTypes, TypeInvStep, PTL DEF Spec

-----------------------------------------------------------------------------
(* resource_lock *)

\* Only the two handlers that keep the lock across steps change their pc or the lock.
LEMMA LockUntouched ==
  ASSUME LockOwned,
         \/ \E x \in Res : WatchdogNext(x) \/ ProcessEnds(x) \/ StrayEnds(x) \/ ProcessCrashes(x)
         \/ \E r \in Runs : WaitForEndNext(r) \/ ShutdownNext(r) \/ NotifyNewRun(r) \/ NotifyEnd(r)
                           \/ Herod(r)
         \/ Herod(NoRun)
         \/ \E d \in {-1, 1} : CpuChange(d)
         \/ \E c \in Cores, dir \in {"idle", "quarantined"} : MoveByHand(c, dir)
  PROVE  UNCHANGED <<lock, rr, cr>> /\ LockOwned'
<1>1. ASSUME NEW x \in Res, WatchdogNext(x)  PROVE  UNCHANGED <<lock, rr, cr>>
  BY <1>1 DEF WatchdogNext, WatchdogLost, WatchdogAborted, WatchdogError, WatchdogSuccess,
         WatchdogStopSeen, WatchdogToIdle, WatchdogToBroken, WatchdogToQuarantined,
         WatchdogRemoveMark, WatchdogMark, WatchdogFlag, WatchdogDelete, WatchdogRelease,
         WatchdogDelist
<1>2. ASSUME NEW r \in Runs, WaitForEndNext(r)  PROVE  UNCHANGED <<lock, rr, cr>>
  BY <1>2 DEF WaitForEndNext, WaitForEndJoin, WaitForEndClear, WaitForEndReset, WaitForEndRmtree,
         WaitForEndRemove
<1>3. ASSUME NEW r \in Runs, ShutdownNext(r)  PROVE  UNCHANGED <<lock, rr, cr>>
  BY <1>3 DEF ShutdownNext, ShutdownBegin, ShutdownKill, ShutdownJoin, ShutdownClear, ShutdownReset,
         ShutdownRemove, ShutdownRmtree
<1>4. UNCHANGED <<lock, rr, cr>>
  BY <1>1, <1>2, <1>3 DEF ProcessEnds, StrayEnds, ProcessCrashes, NotifyNewRun, NotifyEnd, Herod,
         CpuChange, MoveByHand
<1> QED  BY <1>4 DEF LockOwned

LEMMA LockOfRanger ==
  ASSUME StateInv, LockOwned, RangerNext \/ RangerJoinTimeout
  PROVE  LockOwned'
<1> DEFINE Locked == {"stop", "acquire", "start"}
<1>1. \A pc : Handle(pc) => rr'.pc = pc
  BY DEF Handle, StateInv, StateTypeOK, RangerState
<1>2. RangerDone => rr'.pc = "wait" /\ lock' = "free"
  BY DEF RangerDone, RangerIdle
<1>3. lock = "free" => cr.pc # "update" /\ rr.pc \notin Locked
  BY DEF LockOwned
<1>4. rr.pc \in Locked => cr.pc # "update"
  BY DEF LockOwned
<1>5. CASE RangerTake
  BY <1>3, <1>5 DEF RangerTake, Taken, LockOwned
<1>6. CASE RangerStop
  BY <1>1, <1>4, <1>6 DEF RangerStop, LockOwned
<1>7. CASE RangerJoined \/ RangerJoinTimeout
  BY <1>1, <1>2, <1>3, <1>7 DEF RangerJoined, RangerJoinTimeout, RangerJoinReturns, LockOwned
<1>8. CASE RangerAcquire
  <2>1. rr'.pc = "start"
    BY <1>8 DEF RangerAcquire, StateInv, StateTypeOK, RangerState
  <2> QED  BY <1>4, <1>8, <2>1 DEF RangerAcquire, LockOwned
<1>9. CASE RangerSkip \/ RangerStartFails \/ RangerUnbreak
  BY <1>2, <1>4, <1>9 DEF RangerSkip, RangerStartFails, RangerUnbreak, LockOwned
<1>10. CASE RangerStart
  <2>1. rr'.pc \in {"wait", "rejoin"}
    BY <1>1, <1>10 DEF RangerStart, RangerIdle
  <2> QED  BY <1>4, <1>10, <2>1 DEF RangerStart, LockOwned
<1>11. CASE RangerRestarted
  BY <1>3, <1>11 DEF RangerRestarted, RangerIdle, LockOwned
<1> QED  BY <1>5, <1>6, <1>7, <1>8, <1>9, <1>10, <1>11 DEF RangerNext

LEMMA LockOfRunner ==
  ASSUME StateInv, LockOwned, RunnerNext \/ UpdateJoinTimeout
  PROVE  LockOwned'
<1>1. \A pc : [cr EXCEPT !.pc = pc].pc = pc
  BY DEF StateInv, StateTypeOK, RunnerState
<1>2. RunnerIdle.pc = "wait"
  BY DEF RunnerIdle
<1>3. CASE NewRunCmd \/ EndRunCmd \/ HerodCmd
  <2>1. UNCHANGED <<lock, rr>> /\ cr'.pc \in {"wait", "newrun", "endsleep", "herod"} /\ cr.pc = "wait"
    <3>1. CASE NewRunCmd
      BY <3>1 DEF NewRunCmd, Command1, RunnerIdle
    <3>2. CASE EndRunCmd
      <4>1. cr' = RunnerIdle \/ cr' = [RunnerIdle EXCEPT !.pc = "endsleep", !.run = CmdRun]
        BY <3>2 DEF EndRunCmd
      <4>2. \A r : [RunnerIdle EXCEPT !.pc = "endsleep", !.run = r].pc = "endsleep"
        BY DEF RunnerIdle
      <4>3. cr'.pc \in {"wait", "endsleep"}
        BY <1>2, <4>1, <4>2
      <4> QED  BY <3>2, <4>3 DEF EndRunCmd, Command1
    <3>3. CASE HerodCmd
      BY <3>3 DEF HerodCmd, Command1, RunnerIdle
    <3> QED  BY <1>3, <3>1, <3>2, <3>3
  <2> QED  BY <2>1 DEF LockOwned
<1>4. CASE NewRunTakeChange \/ NewRunResize \/ NewRunStart \/ EndRunStart \/ QuarantinedCmd \/ HerodShutdownReturns
           \/ HerodClear \/ UpdateJoined \/ UpdateJoinTimeout \/ UpdateEnd
  <2>1. UNCHANGED <<lock, rr>> /\ cr'.pc # "update" /\ cr.pc # "update"
    BY <1>1, <1>2, <1>4 DEF NewRunTakeChange, NewRunResize, NewRunStart, EndRunStart, QuarantinedCmd, Command1,
           HerodShutdownReturns, HerodClear, UpdateJoined, UpdateJoinTimeout, UpdateEnd
  <2> QED  BY <2>1 DEF LockOwned
<1>5. ASSUME NEW r \in Runs, HerodRun(r)  PROVE  LockOwned'
  <2>1. UNCHANGED <<lock, rr>> /\ cr.pc = "herod" /\ cr'.pc \in {"herod", "shutdown"}
    BY <1>5 DEF HerodRun, StateInv, StateTypeOK, RunnerState
  <2> QED  BY <2>1 DEF LockOwned
<1>6. CASE UpdateCmd
  <2>1. UNCHANGED rr /\ cr.pc = "wait" /\ lock = "free"
    BY <1>6 DEF UpdateCmd, Command1
  <2>2. \/ cr' = RunnerIdle /\ UNCHANGED lock
        \/ cr'.pc = "update" /\ lock' = "runner"
    BY <1>6 DEF UpdateCmd, UpdateShrink, RunnerIdle
  <2> QED  BY <1>2, <2>1, <2>2 DEF LockOwned
<1>7. ASSUME NEW g \in Groups, UpdateStop(g)  PROVE  LockOwned'
  <2>1. UNCHANGED <<lock, rr>> /\ cr.pc = "update" /\ cr'.pc = "update"
    BY <1>7 DEF UpdateStop, StateInv, StateTypeOK, RunnerState
  <2> QED  BY <2>1 DEF LockOwned
<1>8. CASE UpdateUnlock
  BY <1>1, <1>8 DEF UpdateUnlock, LockOwned
<1> QED  BY <1>3, <1>4, <1>5, <1>6, <1>7, <1>8 DEF RunnerNext

LEMMA LockOwnedStep == TypeInv /\ LockOwned /\ [Next]_vars => LockOwned'
<1> SUFFICES ASSUME TypeInv, LockOwned, [Next]_vars  PROVE  LockOwned'
  OBVIOUS
<1>1. CASE RangerNext \/ RangerJoinTimeout
  BY <1>1, LockOfRanger DEF TypeInv
<1>2. CASE RunnerNext \/ UpdateJoinTimeout
  BY <1>2, LockOfRunner DEF TypeInv
<1>3. CASE UNCHANGED vars
  BY <1>3 DEF vars, fuVars, LockOwned
<1> QED  BY <1>1, <1>2, <1>3, LockUntouched DEF Next, Threads, Timeouts

\* resource_lock is held across steps by exactly the handler that is inside its
\* locked section, on every path through that handler.
THEOREM LockCorrect == Spec => []LockOwned
<1>1. Init => LockOwned
  BY DEF Init, LockOwned, RangerIdle, RunnerIdle
<1> QED  BY <1>1, InitTypes, TypeInvStep, LockOwnedStep, PTL DEF Spec

-----------------------------------------------------------------------------
(* The course of a run *)

\* An end file has its command, or else the run is on its way out or has left.
EndUnderway ==
  \A r \in Runs : run[r].endfile => EndAsked(r) \/ we[r].pc # "none" \/ sh[r].pc # "none"

\* The inductive invariant.
RunInv == RunsInOrder /\ OngoingListed /\ EndUnderway

\* The flags of the runs that the invariant speaks of stay as they are.
SameCourse == \A r \in Runs : /\ run'[r].marker = run[r].marker
                              /\ run'[r].ongoing = run[r].ongoing
                              /\ we'[r].pc = we[r].pc
\* What the threads of the resources refer to has been started.
RefersToStarted ==
  /\ \A x \in Res : res[x].wd # "none" => Started(x[1])
  /\ rr.run \in Runs => Started(rr.run)
  /\ rr.res \in Res => Started(rr.res[1])

-----------------------------------------------------------------------------
(* The queue of command files *)

LEMMA QueuedAppend ==
  ASSUME cmds \in Seq(Command), NEW c \in Command, cmds' = Append(cmds, c)
  PROVE  /\ \A op, r : Queued(op, r)' <=> Queued(op, r) \/ c = [op |-> op, run |-> r]
         /\ c.op # "run" /\ CommandsInOrder =>
              \A i, j \in DOMAIN cmds' : cmds'[i].op = "run" /\ cmds'[i] = cmds'[j] => i = j
<1>1. /\ Len(cmds) \in Nat /\ DOMAIN cmds = 1 .. Len(cmds) /\ DOMAIN cmds' = 1 .. (Len(cmds) + 1)
      /\ \A i \in 1 .. Len(cmds) : cmds'[i] = cmds[i]
      /\ cmds'[Len(cmds) + 1] = c
  BY AppendProperties
<1>2. ASSUME NEW op, NEW r, Queued(op, r)  PROVE  Queued(op, r)'
  BY <1>1, <1>2 DEF Queued
<1>3. ASSUME NEW op, NEW r, c = [op |-> op, run |-> r]  PROVE  Queued(op, r)'
  <2>1. Len(cmds) + 1 \in DOMAIN cmds'
    BY <1>1
  <2> QED  BY <1>1, <1>3, <2>1 DEF Queued
<1>4. ASSUME NEW op, NEW r, Queued(op, r)'  PROVE  Queued(op, r) \/ c = [op |-> op, run |-> r]
  BY <1>1, <1>4 DEF Queued
<1>5. ASSUME c.op # "run", CommandsInOrder, NEW i \in DOMAIN cmds', NEW j \in DOMAIN cmds',
             cmds'[i].op = "run", cmds'[i] = cmds'[j]
      PROVE  i = j
  BY <1>1, <1>5 DEF CommandsInOrder
<1> QED  BY <1>2, <1>3, <1>4, <1>5

LEMMA QueuedTail ==
  ASSUME cmds \in Seq(Command), cmds # <<>>, cmds' = Tail(cmds), CommandsInOrder
  PROVE  /\ \A op, r : Queued(op, r)' => Queued(op, r)
         /\ \A op, r : Queued(op, r) /\ Head(cmds) # [op |-> op, run |-> r] => Queued(op, r)'
         /\ \A i, j \in DOMAIN cmds' : cmds'[i].op = "run" /\ cmds'[i] = cmds'[j] => i = j
         /\ Queued(Head(cmds).op, Head(cmds).run)
         /\ \A r : Head(cmds) = [op |-> "run", run |-> r] => ~Queued("run", r)'
<1>1. /\ Len(cmds) \in Nat \ {0} /\ DOMAIN cmds = 1 .. Len(cmds) /\ DOMAIN cmds' = 1 .. (Len(cmds) - 1)
      /\ \A i \in 1 .. (Len(cmds) - 1) : cmds'[i] = cmds[i + 1] /\ i + 1 \in DOMAIN cmds
      /\ Head(cmds) = cmds[1] /\ 1 \in DOMAIN cmds /\ cmds[1] \in Command
  BY HeadTailProperties
<1>2. cmds[1] = [op |-> cmds[1].op, run |-> cmds[1].run]
  BY <1>1 DEF Command
<1>3. ASSUME NEW op, NEW r, Queued(op, r)'  PROVE  Queued(op, r)
  BY <1>1, <1>3 DEF Queued
<1>4. ASSUME NEW op, NEW r, Queued(op, r), Head(cmds) # [op |-> op, run |-> r]  PROVE  Queued(op, r)'
  <2>1. PICK i \in DOMAIN cmds : cmds[i] = [op |-> op, run |-> r]
    BY <1>4 DEF Queued
  <2>2. i - 1 \in DOMAIN cmds' /\ cmds'[i - 1] = [op |-> op, run |-> r]
    BY <1>1, <1>4, <2>1
  <2> QED  BY <2>2 DEF Queued
<1>5. ASSUME NEW i \in DOMAIN cmds', NEW j \in DOMAIN cmds', cmds'[i].op = "run", cmds'[i] = cmds'[j]
      PROVE  i = j
  <2>1. i + 1 = j + 1
    BY <1>1, <1>5 DEF CommandsInOrder
  <2> QED  BY <1>1, <2>1
<1>6. ASSUME NEW r, Head(cmds) = [op |-> "run", run |-> r], Queued("run", r)'  PROVE  FALSE
  <2>1. PICK i \in DOMAIN cmds' : cmds'[i] = [op |-> "run", run |-> r]
    BY <1>6 DEF Queued
  <2>2. i + 1 = 1
    BY <1>1, <1>6, <2>1 DEF CommandsInOrder
  <2> QED  BY <1>1, <2>2
<1>7. Queued(Head(cmds).op, Head(cmds).run)
  BY <1>1, <1>2 DEF Queued
<1> QED  BY <1>3, <1>4, <1>5, <1>6, <1>7

-----------------------------------------------------------------------------
(* A step that changes neither the RunList nor the course of a run *)

LEMMA SameCommands ==
  ASSUME RunInv, SameCourse, UNCHANGED cmds
  PROVE  CommandsInOrder' /\ \A op, r : Queued(op, r)' <=> Queued(op, r)
<1>1. \A op, r : Queued(op, r)' <=> Queued(op, r)
  BY DEF Queued
<1>2. \A r \in Runs : Started(r)' <=> Started(r)
  BY DEF Started, SameCourse
<1> QED  BY <1>1, <1>2 DEF CommandsInOrder, SameCourse, RunInv, RunsInOrder

LEMMA SameRunner ==
  ASSUME StateInv, RunInv, SameCourse, UNCHANGED cr, \A r : Queued("run", r)' => Queued("run", r)
  PROVE  RunnerInOrder'
<1>1. \A r \in Runs : Started(r)' <=> Started(r)
  BY DEF Started, SameCourse
<1> QED  BY <1>1 DEF RunnerInOrder, RunInv, RunsInOrder, SameCourse, StateInv, StateTypeOK, RunnerState

LEMMA QuietStep ==
  ASSUME StateInv, RunInv, UNCHANGED <<runs, sh>>, SameCourse,
         RefersToStarted', CommandsInOrder', RunnerInOrder',
         \A r \in Runs : run'[r].endfile => Queued("end", r)' \/ run[r].endfile,
         \A r \in Runs : Queued("end", r) => Queued("end", r)',
         cr.pc = "endsleep" => cr' = cr
  PROVE  RunInv'
<1>1. \A r \in Runs : (InList(r)' <=> InList(r)) /\ (Started(r)' <=> Started(r))
  BY DEF InList, Started, SameCourse
<1>2. ThreadsInOrder'
  BY <1>1 DEF ThreadsInOrder, RefersToStarted, RunInv, RunsInOrder, SameCourse
<1>3. EndingInOrder'
  BY DEF EndingInOrder, RunInv, RunsInOrder, SameCourse
<1>4. OngoingListed'
  BY <1>1 DEF OngoingListed, RunInv, SameCourse
<1>5. EndUnderway'
  BY DEF EndUnderway, EndAsked, RunInv, SameCourse
<1> QED  BY <1>2, <1>3, <1>4, <1>5 DEF RunInv, RunsInOrder

\* The same when the RunRanger does not move either, but for a command file that
\* appears, which ends a run only if that was started.
LEMMA QuietAppend ==
  ASSUME StateInv, RunInv, UNCHANGED <<cr, runs, sh>>, SameCourse, RefersToStarted',
         NEW c \in Command, c.op # "run", c.op \in {"end", "quarantined"} => Started(c.run),
         cmds' = cmds \/ cmds' = Append(cmds, c),
         \A r \in Runs : run'[r].endfile => Queued("end", r)' \/ run[r].endfile
  PROVE  RunInv'
<1>1. \A r \in Runs : Started(r)' <=> Started(r)
  BY DEF Started, SameCourse
<1>2. /\ CommandsInOrder' /\ \A r : Queued("run", r)' => Queued("run", r)
      /\ \A r : Queued("end", r) => Queued("end", r)'
  <2>1. CASE cmds' = cmds
    BY <2>1, SameCommands
  <2>2. CASE cmds' = Append(cmds, c)
    <3>1. /\ cmds \in Seq(Command) /\ CommandsInOrder
      BY DEF StateInv, StateTypeOK, RunInv, RunsInOrder
    <3>2. /\ \A op, r : Queued(op, r)' <=> Queued(op, r) \/ c = [op |-> op, run |-> r]
          /\ \A i, j \in DOMAIN cmds' : cmds'[i].op = "run" /\ cmds'[i] = cmds'[j] => i = j
      BY <2>2, <3>1, QueuedAppend
    <3>3. \A op, r : c = [op |-> op, run |-> r] => op = c.op /\ r = c.run
      OBVIOUS
    <3> QED  BY <1>1, <3>1, <3>2, <3>3 DEF CommandsInOrder, SameCourse
  <2> QED  BY <2>1, <2>2
<1>3. RunnerInOrder'
  BY <1>2, SameRunner
<1> QED  BY <1>2, <1>3, QuietStep

-----------------------------------------------------------------------------
(* The threads of the resources, the processes and the world *)

LEMMA WatchdogRuns ==
  ASSUME StateInv, RunInv, NEW x \in Res, WatchdogNext(x)
  PROVE  RunInv'
<1>1. x[1] \in Runs /\ res \in [Res -> ResState] /\ run \in [Runs -> RunState]
  BY ResType DEF StateInv, StateTypeOK
<1>2. UNCHANGED <<rr, cr, runs, we, sh>> /\ res[x].wd # "none" /\ \A y \in Res \ {x} : res'[y] = res[y]
  BY <1>1 DEF WatchdogNext, WatchdogLost, WatchdogAborted, WatchdogError, WatchdogSuccess, Ended,
       WatchdogStopSeen, WatchdogToIdle, WatchdogToBroken, WatchdogToQuarantined, WatchdogRemoveMark,
       WatchdogMark, WatchdogFlag, WatchdogDelete, WatchdogRelease, WatchdogDelist
<1>3. Started(x[1])
  BY <1>2 DEF RunInv, RunsInOrder, ThreadsInOrder
<1>4. \/ cmds' = cmds /\ \A r \in Runs : run'[r].endfile = run[r].endfile
      \/ Send("quarantined", x[1]) /\ \A r \in Runs : run'[r].endfile = run[r].endfile
      \/ Send("end", x[1]) /\ \A r \in Runs \ {x[1]} : run'[r].endfile = run[r].endfile
  <2>1. CASE WatchdogSuccess(x)
    BY <1>1, <2>1 DEF WatchdogSuccess
  <2>2. CASE WatchdogMark(x)
    BY <1>1, <2>2 DEF WatchdogMark, RunState
  <2>3. CASE WatchdogRemoveMark(x) \/ WatchdogDelist(x)
    BY <1>1, <2>3 DEF WatchdogRemoveMark, WatchdogDelist, RunState
  <2>4. CASE ~(WatchdogSuccess(x) \/ WatchdogMark(x) \/ WatchdogRemoveMark(x) \/ WatchdogDelist(x))
    <3>1. UNCHANGED <<cmds, run>>
      BY <2>4 DEF WatchdogNext, WatchdogLost, WatchdogAborted, WatchdogError, WatchdogStopSeen, WatchdogToIdle,
           WatchdogToBroken, WatchdogToQuarantined, WatchdogFlag, WatchdogDelete, WatchdogRelease
    <3> QED  BY <3>1
  <2> QED  BY <2>1, <2>2, <2>3, <2>4
<1>5. SameCourse
  <2>1. CASE WatchdogSuccess(x) \/ WatchdogMark(x)
    BY <1>1, <1>2, <2>1 DEF SameCourse, WatchdogSuccess, WatchdogMark, RunState
  <2>2. CASE WatchdogRemoveMark(x) \/ WatchdogDelist(x)
    BY <1>1, <1>2, <2>2 DEF SameCourse, WatchdogRemoveMark, WatchdogDelist, RunState
  <2>3. CASE ~(WatchdogSuccess(x) \/ WatchdogMark(x) \/ WatchdogRemoveMark(x) \/ WatchdogDelist(x))
    <3>1. UNCHANGED run
      BY <2>3 DEF WatchdogNext, WatchdogLost, WatchdogAborted, WatchdogError, WatchdogStopSeen, WatchdogToIdle,
           WatchdogToBroken, WatchdogToQuarantined, WatchdogFlag, WatchdogDelete, WatchdogRelease
    <3> QED  BY <1>2, <3>1 DEF SameCourse
  <2> QED  BY <2>1, <2>2, <2>3
<1>6. RefersToStarted'
  BY <1>1, <1>2, <1>3, <1>5 DEF RefersToStarted, Started, SameCourse, RunInv, RunsInOrder, ThreadsInOrder,
       StateInv, StateTypeOK, RangerState, Res
<1>7. PICK op \in {"end", "quarantined"} :
        /\ cmds' = cmds \/ cmds' = Append(cmds, [op |-> op, run |-> x[1]])
        /\ \A r \in Runs : run'[r].endfile => Queued("end", r)' \/ run[r].endfile
  <2>1. CASE Send("end", x[1]) /\ \A r \in Runs \ {x[1]} : run'[r].endfile = run[r].endfile
    <3>1. cmds \in Seq(Command) /\ [op |-> "end", run |-> x[1]] \in Command
      BY <1>1 DEF StateInv, StateTypeOK, Command
    <3>2. Queued("end", x[1])'
      BY <1>2, <2>1, <3>1 DEF Send, Queued
    <3> QED  BY <2>1, <3>2 DEF Send
  <2> QED  BY <1>4, <2>1 DEF Send
<1> DEFINE c == [op |-> op, run |-> x[1]]
<1>8. c \in Command /\ c.op \in {"end", "quarantined"} /\ c.run = x[1]
  BY <1>1 DEF Command
<1>9. cmds' = cmds \/ cmds' = Append(cmds, c)
  BY <1>7
<1> HIDE DEF c
<1> QED  BY <1>2, <1>3, <1>5, <1>6, <1>7, <1>8, <1>9, QuietAppend

LEMMA ProcessRuns ==
  ASSUME StateInv, RunInv, NEW x \in Res, ProcessEnds(x) \/ StrayEnds(x) \/ ProcessCrashes(x)
  PROVE  RunInv'
<1>1. UNCHANGED <<cmds, rr, cr, runs, run, we, sh>>
  BY DEF ProcessEnds, StrayEnds, ProcessCrashes
<1>2. \A y \in Res : res'[y].wd = res[y].wd
  <2>1. \A p : [res[x] EXCEPT !.proc = p].wd = res[x].wd /\ [res[x] EXCEPT !.stray = p].wd = res[x].wd
    BY DEF StateInv, StateTypeOK, ResState
  <2>2. \E p : \/ res' = [res EXCEPT ![x] = [res[x] EXCEPT !.proc = p]]
               \/ res' = [res EXCEPT ![x] = [res[x] EXCEPT !.stray = p]]
    BY DEF ProcessEnds, StrayEnds, ProcessCrashes
  <2>3. PICK v : res' = [res EXCEPT ![x] = v] /\ v.wd = res[x].wd
    BY <2>1, <2>2
  <2> QED  BY <2>3 DEF StateInv, StateTypeOK
<1>3. RefersToStarted' /\ SameCourse
  BY <1>1, <1>2 DEF RefersToStarted, SameCourse, Started, RunInv, RunsInOrder, ThreadsInOrder
<1>4. CommandsInOrder' /\ RunnerInOrder' /\ \A r \in Runs : Queued("end", r) => Queued("end", r)'
  BY <1>1, <1>3, SameCommands, SameRunner
<1> QED  BY <1>1, <1>3, <1>4, QuietStep

LEMMA LastOngoingListed ==
  ASSUME runs \in Seq(Runs)
  PROVE  LastOngoingRun = NoRun \/ InList(LastOngoingRun)
BY DEF LastOngoingRun, InList

LEMMA OwnersListed ==
  ASSUME NEW c, NEW r, NEW x \in Owners(c, r)
  PROVE  InList(x[1])
<1>1. PICK i \in DOMAIN runs : x \in OwnersIn(c, r, runs[i])
  BY DEF Owners
<1>2. PICK g : x = <<runs[i], g>>
  BY <1>1 DEF OwnersIn
<1> QED  BY <1>2 DEF InList

LEMMA RangerRuns ==
  ASSUME StateInv, RunInv, RangerNext \/ RangerJoinTimeout
  PROVE  RunInv'
<1>1. /\ UNCHANGED <<cmds, cr, runs, sh>>
      /\ rr \in RangerState /\ rr.run \in Runs \union {NoRun} /\ rr.res \in Res \union {NoRes}
      /\ res \in [Res -> ResState] /\ run \in [Runs -> RunState] /\ we \in [Runs -> EndState]
  BY DEF RangerNext, RangerTake, RangerStop, RangerJoined, RangerJoinTimeout, RangerJoinReturns,
       RangerAcquire, RangerSkip, RangerUnbreak, RangerStartFails, RangerStart, RangerRestarted,
       StateInv, StateTypeOK, RangerState
<1>2. SameCourse /\ \A r \in Runs : run'[r].endfile = run[r].endfile
  <2>1. CASE UNCHANGED <<run, we>>
    BY <2>1 DEF SameCourse
  <2>2. CASE RangerAcquire
    <3>1. PICK g : AcquireResource(rr.run, g)
      BY <2>2 DEF RangerAcquire
    <3>2. rr.run \in Runs /\ run[rr.run] \in RunState /\ we[rr.run] \in EndState
      BY <1>1, <2>2 DEF RangerAcquire
    <3>3. run' = [run EXCEPT ![rr.run] = [run[rr.run] EXCEPT !.online = @ \union {g}, !.joinl = @ \union {g}]]
      BY <3>1 DEF AcquireResource
    <3>4. we' = we \/ we' = [we EXCEPT ![rr.run] = [we[rr.run] EXCEPT !.seen = @ \ {g}]]
      BY <3>1 DEF AcquireResource
    <3> QED  BY <1>1, <3>2, <3>3, <3>4 DEF SameCourse, RunState, EndState
  <2> QED  BY <2>1, <2>2 DEF RangerNext, RangerTake, RangerStop, RangerJoined, RangerJoinTimeout,
               RangerJoinReturns, RangerSkip, RangerUnbreak, RangerStartFails, RangerStart, RangerRestarted
<1>3. \A r \in Runs : Started(r)' <=> Started(r)
  BY <1>2 DEF SameCourse, Started
<1>4. /\ \A r \in Runs : InList(r) => Started(r)
      /\ \A x \in Res : res[x].wd # "none" => Started(x[1])
      /\ rr.run \in Runs => Started(rr.run)
      /\ rr.res \in Res => Started(rr.res[1])
  BY DEF RunInv, RunsInOrder, ThreadsInOrder
<1>5. /\ rr'.run \in Runs => Started(rr'.run)
      /\ rr'.res \in Res => Started(rr'.res[1])
  <2>1. CASE RangerTake
    <3>1. PICK x : /\ \/ UNCHANGED rr
                      \/ rr'.run = LastOngoingRun /\ rr'.res = x
                   /\ x = NoRes \/ x \in Owners(Head(events).core, LastOngoingRun)
      BY <2>1, SMTT(30) DEF RangerTake, Taken
    <3>2. LastOngoingRun \in Runs => InList(LastOngoingRun)
      BY LastOngoingListed, StateAssumption DEF StateInv, StateTypeOK
    <3>3. x \in Res => x = NoRes \/ InList(x[1])
      BY <3>1, OwnersListed
    <3> QED  BY <1>4, <3>1, <3>2, <3>3, StateAssumption, ResType
  <2>2. CASE RangerAcquire
    <3>1. PICK g : rr' = [rr EXCEPT !.pc = "start", !.res = <<rr.run, g>>]
      BY <2>2 DEF RangerAcquire
    <3>2. rr'.run = rr.run /\ rr'.res[1] = rr.run /\ rr.run \in Runs
      BY <1>1, <2>2, <3>1 DEF RangerAcquire, RangerState
    <3> QED  BY <1>4, <3>2
  <2>3. CASE \E pc : rr' = [rr EXCEPT !.pc = pc]
    BY <1>1, <1>4, <2>3 DEF RangerState
  <2>4. CASE rr' = RangerIdle
    BY <2>4, StateAssumption DEF RangerIdle
  <2> QED  BY <2>1, <2>2, <2>3, <2>4 DEF RangerNext, RangerStop, RangerJoined, RangerJoinTimeout, RangerDone,
         Handle, RangerJoinReturns, RangerSkip, RangerUnbreak, RangerStartFails, RangerStart, RangerRestarted
<1>6. \A x \in Res : res'[x].wd # "none" => Started(x[1])
  <2>1. ASSUME NEW y, NEW v, res' = [res EXCEPT ![y] = v], y \in Res /\ v.wd # "none" => Started(y[1])
        PROVE  \A x \in Res : res'[x].wd # "none" => Started(x[1])
    BY <1>1, <1>4, <2>1
  <2>2. CASE RangerAcquire
    <3>1. PICK g : AcquireResource(rr.run, g)
      BY <2>2 DEF RangerAcquire
    <3>2. res' = res \/ res' = [res EXCEPT ![<<rr.run, g>>] = NewRes]
      BY <3>1 DEF AcquireResource
    <3> QED  BY <1>4, <2>1, <3>2 DEF NewRes
  <2>3. CASE RangerStop \/ RangerStart \/ RangerRestarted
    <3>1. PICK v : res' = [res EXCEPT ![rr.res] = v]
      <4>1. CASE RangerStop
        <5>1. PICK fl : StopWith(rr.res, fl)
          BY <4>1 DEF RangerStop
        <5> QED  BY <5>1 DEF StopWith
      <4>2. CASE RangerStart
        BY <4>2 DEF RangerStart
      <4>3. CASE RangerRestarted
        BY <4>3 DEF RangerRestarted
      <4> QED  BY <2>3, <4>1, <4>2, <4>3
    <3> QED  BY <1>4, <2>1, <3>1
  <2>4. CASE UNCHANGED res
    BY <1>4, <2>4
  <2> QED  BY <2>2, <2>3, <2>4 DEF RangerNext, RangerTake, RangerJoined, RangerJoinTimeout,
               RangerJoinReturns, RangerSkip, RangerUnbreak, RangerStartFails
<1>7. RefersToStarted'
  BY <1>3, <1>5, <1>6, ResType, StateAssumption, RangerTypes DEF RefersToStarted
<1>8. CommandsInOrder' /\ RunnerInOrder' /\ \A r \in Runs : Queued("end", r) => Queued("end", r)'
  BY <1>1, <1>2, SameCommands, SameRunner
<1> QED  BY <1>1, <1>2, <1>7, <1>8, QuietStep

-----------------------------------------------------------------------------
(* The end of a run *)

\* A step of WaitForEnd or Shutdown of r, as far as the invariant can tell.
LeavingStep(r) ==
  /\ UNCHANGED <<cmds, cr, rr>>
  /\ we[r].pc # "none" \/ sh[r].pc # "none"
  /\ \A x \in Res : res'[x].wd = res[x].wd
  /\ \A s \in Runs : we'[s].pc = "none" <=> we[s].pc = "none"
  /\ \A s \in Runs : sh'[s].pc = "none" <=> sh[s].pc = "none"
  /\ \A s \in Runs \ {r} : run'[s] = run[s] /\ sh'[s] = sh[s]
  /\ run'[r].marker \notin {"none", "new"}
  /\ run'[r].endfile => run[r].endfile
  /\ run'[r].ongoing => run[r].ongoing /\ sh'[r] = sh[r]
  /\ \A s \in Runs : InList(s)' => InList(s)
  /\ \A s \in Runs : InList(s) /\ run'[s].ongoing => InList(s)'

LEMMA LeavingRuns ==
  ASSUME StateInv, RunInv, NEW r \in Runs, LeavingStep(r)
  PROVE  RunInv'
<1>1. Started(r) /\ Started(r)'
  BY DEF LeavingStep, Started, RunInv, RunsInOrder, ThreadsInOrder
<1>2. \A s \in Runs : Started(s)' <=> Started(s)
  BY <1>1 DEF LeavingStep, Started
<1>3. \A op, s : Queued(op, s)' <=> Queued(op, s)
  BY DEF LeavingStep, Queued
<1>4. CommandsInOrder'
  BY <1>1, <1>2, <1>3 DEF LeavingStep, Started, CommandsInOrder, RunInv, RunsInOrder
<1>5. RunnerInOrder'
  BY <1>1, <1>2, <1>3 DEF LeavingStep, Started, RunnerInOrder, RunInv, RunsInOrder,
     StateInv, StateTypeOK, RunnerState
<1>6. ThreadsInOrder'
  BY <1>2, ResType DEF LeavingStep, ThreadsInOrder, RunInv, RunsInOrder
<1>7. EndingInOrder'
  BY DEF LeavingStep, EndingInOrder, RunInv, RunsInOrder
<1>8. OngoingListed'
  BY DEF LeavingStep, OngoingListed, RunInv
<1>9. EndUnderway'
  BY <1>3 DEF LeavingStep, EndUnderway, EndAsked, RunInv
<1> QED  BY <1>4, <1>5, <1>6, <1>7, <1>8, <1>9 DEF RunInv, RunsInOrder

LEMMA WaitForEndRuns ==
  ASSUME StateInv, RunInv, NEW r \in Runs, WaitForEndNext(r)
  PROVE  RunInv'
<1>1. /\ run \in [Runs -> RunState] /\ run[r] \in RunState /\ res \in [Res -> ResState]
      /\ we \in [Runs -> EndState] /\ we[r] \in EndState /\ runs \in Seq(Runs)
  BY DEF StateInv, StateTypeOK
<1>2. UNCHANGED <<cmds, cr, rr, sh>> /\ we[r].pc # "none"
  BY DEF WaitForEndNext, WaitForEndJoin, WaitForEndClear, WaitForEndReset, WaitForEndRmtree, WaitForEndRemove
<1>3. Started(r) /\ ~run[r].ongoing
  BY <1>2 DEF RunInv, RunsInOrder, ThreadsInOrder, EndingInOrder
<1>4. \A s \in Runs : we'[s].pc = "none" <=> we[s].pc = "none"
  <2>1. we'[r].pc # "none" /\ \A s \in Runs \ {r} : we'[s] = we[s]
    <3>1. CASE WaitForEndJoin(r)
      <4>1. PICK g : we' = [we EXCEPT ![r].pc = "clear", ![r].cur = g]
        BY <3>1 DEF WaitForEndJoin
      <4> QED  BY <1>1, <4>1 DEF EndState
    <3>2. CASE WaitForEndClear(r)
      <4>1. we' = [we EXCEPT ![r].pc = "join", ![r].seen = we[r].seen \union {we[r].cur}]
        BY <3>2 DEF WaitForEndClear
      <4> QED  BY <1>1, <4>1 DEF EndState
    <3>3. CASE WaitForEndReset(r) \/ WaitForEndRmtree(r) \/ WaitForEndRemove(r)
      <4>1. PICK pc \in {"done", "tail", "remove"} : we' = [we EXCEPT ![r].pc = pc]
        BY <3>3 DEF WaitForEndReset, WaitForEndRmtree, WaitForEndRemove
      <4> QED  BY <1>1, <4>1 DEF EndState
    <3> QED  BY <3>1, <3>2, <3>3 DEF WaitForEndNext
  <2> QED  BY <1>2, <2>1
<1>5. \A x \in Res : res'[x].wd = res[x].wd
  <2>1. CASE UNCHANGED res
    BY <2>1
  <2>2. CASE WaitForEndClear(r)
    <3> DEFINE y == <<r, we[r].cur>>
    <3>1. PICK S : res' = [res EXCEPT ![y].quar = LeftOver(res[y].quar, S), ![y].obj = FALSE]
      BY <2>2 DEF WaitForEndClear
    <3>2. \A q : [[res[y] EXCEPT !.quar = q] EXCEPT !.obj = FALSE].wd = res[y].wd \/ y \notin Res
      BY <1>1 DEF ResState
    <3> HIDE DEF y
    <3> QED  BY <1>1, <3>1, <3>2
  <2> QED  BY <2>1, <2>2 DEF WaitForEndNext, WaitForEndJoin, WaitForEndReset, WaitForEndRmtree, WaitForEndRemove
<1>6. PICK v : /\ run' = [run EXCEPT ![r] = v]
               /\ ~v.ongoing /\ v.marker \notin {"none", "new"} /\ (v.endfile => run[r].endfile)
  <2>1. CASE UNCHANGED run
    <3>1. run' = [run EXCEPT ![r] = run[r]]
      BY <1>1, <2>1
    <3> QED  BY <1>3, <3>1 DEF Started
  <2>2. CASE WaitForEndReset(r)
    <3>1. \/ run' = [run EXCEPT ![r] = [run[r] EXCEPT !.online = {}, !.joinl = {}]]
          \/ run' = [run EXCEPT ![r] = [run[r] EXCEPT !.online = {}, !.joinl = {},
                                              !.marker = "complete", !.endfile = FALSE]]
      BY <2>2 DEF WaitForEndReset
    <3> DEFINE u == [run[r] EXCEPT !.online = {}, !.joinl = {}]
               w == [run[r] EXCEPT !.online = {}, !.joinl = {}, !.marker = "complete", !.endfile = FALSE]
    <3>2. /\ u.ongoing = run[r].ongoing /\ u.marker = run[r].marker /\ u.endfile = run[r].endfile
          /\ w.ongoing = run[r].ongoing /\ w.marker = "complete" /\ ~w.endfile
      BY <1>1 DEF RunState
    <3>3. run' = [run EXCEPT ![r] = u] \/ run' = [run EXCEPT ![r] = w]
      BY <3>1
    <3> HIDE DEF u, w
    <3> QED  BY <1>3, <3>2, <3>3 DEF Started
  <2>3. CASE WaitForEndRmtree(r)
    <3>1. run' = [run EXCEPT ![r] = [run[r] EXCEPT !.marker = "gone"]]
      BY <2>3 DEF WaitForEndRmtree
    <3> DEFINE v == [run[r] EXCEPT !.marker = "gone"]
    <3>2. v.ongoing = run[r].ongoing /\ v.marker = "gone" /\ v.endfile = run[r].endfile
      BY <1>1 DEF RunState
    <3> HIDE DEF v
    <3>3. run' = [run EXCEPT ![r] = v]
      BY <3>1 DEF v
    <3> QED  BY <1>3, <3>2, <3>3
  <2> QED  BY <2>1, <2>2, <2>3 DEF WaitForEndNext, WaitForEndJoin, WaitForEndClear, WaitForEndRemove
<1>7. /\ \A s \in Runs : InList(s)' => InList(s)
      /\ \A s \in Runs : InList(s) /\ s # r => InList(s)'
  <2>1. CASE UNCHANGED runs
    BY <2>1 DEF InList
  <2>2. CASE RemoveRun(r)
    BY <1>1, <2>2, RemoveRunType
  <2> QED  BY <2>1, <2>2 DEF WaitForEndNext, WaitForEndJoin, WaitForEndClear, WaitForEndReset,
             WaitForEndRmtree, WaitForEndRemove
<1>8. LeavingStep(r)
  BY <1>1, <1>2, <1>4, <1>5, <1>6, <1>7 DEF LeavingStep
<1> QED  BY <1>8, LeavingRuns

LEMMA ShutdownRuns ==
  ASSUME StateInv, RunInv, NEW r \in Runs, ShutdownNext(r)
  PROVE  RunInv'
<1>1. /\ run \in [Runs -> RunState] /\ run[r] \in RunState /\ res \in [Res -> ResState]
      /\ we \in [Runs -> EndState] /\ we[r] \in EndState /\ runs \in Seq(Runs)
      /\ sh \in [Runs -> ShutState] /\ sh[r] \in ShutState
  BY DEF StateInv, StateTypeOK
<1>2. UNCHANGED <<cmds, cr, rr>> /\ sh[r].pc # "none"
  BY DEF ShutdownNext, ShutdownBegin, ShutdownKill, ShutdownJoin, ShutdownClear, ShutdownReset,
     ShutdownRemove, ShutdownRmtree
<1>3. Started(r) /\ (sh[r].pc # "begin" => ~run[r].ongoing)
  BY <1>2 DEF RunInv, RunsInOrder, ThreadsInOrder, EndingInOrder
<1>4. sh'[r].pc # "none" /\ \A s \in Runs \ {r} : sh'[s] = sh[s]
  <2>1. CASE ShutdownKill(r)
    <3>1. PICK t : sh' = [sh EXCEPT ![r].pc = "join", ![r].term = t]
      BY <2>1 DEF ShutdownKill
    <3> QED  BY <1>1, <3>1 DEF ShutState
  <2>2. CASE ~ShutdownKill(r)
    <3>1. PICK pc \in {"kill", "clear", "reset", "wait", "rmdir", "done"} : sh' = [sh EXCEPT ![r].pc = pc]
      BY <2>2 DEF ShutdownNext, ShutdownBegin, ShutdownJoin, ShutdownClear, ShutdownReset,
         ShutdownRemove, ShutdownRmtree
    <3> QED  BY <1>1, <3>1 DEF ShutState
  <2> QED  BY <2>1, <2>2
<1>5. \A s \in Runs : we'[s].pc = we[s].pc
  <2>1. CASE UNCHANGED we
    BY <2>1
  <2>2. CASE ShutdownReset(r)
    <3> DEFINE w == [we[r] EXCEPT !.cut = TRUE, !.old = run[r].joinl]
    <3>1. w.pc = we[r].pc
      BY <1>1 DEF EndState
    <3>2. we' = [we EXCEPT ![r] = IF we[r].pc \in {"join", "clear"} /\ ~we[r].cut THEN w ELSE we[r]]
      BY <2>2 DEF ShutdownReset
    <3> HIDE DEF w
    <3> QED  BY <1>1, <3>1, <3>2
  <2> QED  BY <2>1, <2>2 DEF ShutdownNext, ShutdownBegin, ShutdownKill, ShutdownJoin, ShutdownClear,
              ShutdownRemove, ShutdownRmtree
<1>6. \A x \in Res : res'[x].wd = res[x].wd
  <2>1. CASE UNCHANGED res
    BY <2>1
  <2>2. CASE ShutdownKill(r)
    <3>1. PICK t : res' = [x \in Res |->
             IF x[1] = r /\ x[2] \in t /\ res[x].obj /\ res[x].proc = "alive"
             THEN [res[x] EXCEPT !.proc = "crash"] ELSE res[x]]
      BY <2>2 DEF ShutdownKill
    <3> QED  BY <1>1, <3>1 DEF ResState
  <2>3. CASE ShutdownClear(r)
    <3>1. PICK restore, back : GiveBack(r, restore, back)
      BY <2>3 DEF ShutdownClear
    <3>2. \A x \in Res : \/ res'[x] = res[x]
                         \/ res'[x] = [res[x] EXCEPT !.obj = FALSE, !.quar = LeftOver(res[x].quar, back[x[2]])]
      BY <3>1 DEF GiveBack
    <3>3. \A o \in ResState : \A q : [o EXCEPT !.obj = FALSE, !.quar = q].wd = o.wd
      BY DEF ResState
    <3> TAKE x \in Res
    <3> DEFINE q == LeftOver(res[x].quar, back[x[2]])
               o == res[x]
    <3>4. res'[x] = o \/ res'[x] = [o EXCEPT !.obj = FALSE, !.quar = q]
      BY <3>2
    <3>5. o \in ResState
      BY <1>1
    <3>6. [o EXCEPT !.obj = FALSE, !.quar = q].wd = o.wd
      BY <3>3, <3>5
    <3> QED  BY <3>4, <3>6
  <2> QED  BY <2>1, <2>2, <2>3 DEF ShutdownNext, ShutdownBegin, ShutdownJoin, ShutdownReset,
              ShutdownRemove, ShutdownRmtree
<1>7. PICK v : /\ run' = [run EXCEPT ![r] = v]
               /\ ~v.ongoing /\ v.marker \notin {"none", "new"} /\ (v.endfile => run[r].endfile)
  <2>1. CASE UNCHANGED run /\ sh[r].pc # "begin"
    <3>1. run' = [run EXCEPT ![r] = run[r]]
      BY <1>1, <2>1
    <3> QED  BY <1>3, <2>1, <3>1 DEF Started
  <2>2. CASE ShutdownBegin(r)
    <3> DEFINE v == [NotOngoing(run[r]) EXCEPT !.pending = FALSE,
                                               !.marker = ChangeMarker(run[r].marker, "aborted")]
    <3>1. ~v.ongoing /\ v.marker \in {"aborted", "gone"} /\ v.endfile = run[r].endfile
      BY <1>1 DEF RunState, NotOngoing, ChangeMarker
    <3>2. run' = [run EXCEPT ![r] = v]
      BY <2>2 DEF ShutdownBegin
    <3> HIDE DEF v
    <3> QED  BY <3>1, <3>2
  <2>3. CASE ShutdownReset(r)
    <3> DEFINE v == [run[r] EXCEPT !.online = {}, !.joinl = {},
                                   !.marker = ChangeMarker(run[r].marker, "abortcomplete")]
    <3>1. v.ongoing = run[r].ongoing /\ v.marker \in {"abortcomplete", "gone"} /\ v.endfile = run[r].endfile
      BY <1>1 DEF RunState, ChangeMarker
    <3>2. run' = [run EXCEPT ![r] = v] /\ sh[r].pc # "begin"
      BY <2>3 DEF ShutdownReset
    <3> HIDE DEF v
    <3> QED  BY <1>3, <3>1, <3>2
  <2>4. CASE ShutdownRmtree(r)
    <3> DEFINE v == [run[r] EXCEPT !.marker = "gone", !.endfile = FALSE]
    <3>1. v.ongoing = run[r].ongoing /\ v.marker = "gone" /\ ~v.endfile
      BY <1>1 DEF RunState
    <3>2. (run' = [run EXCEPT ![r] = v] \/ UNCHANGED run) /\ sh[r].pc # "begin"
      BY <2>4 DEF ShutdownRmtree
    <3> HIDE DEF v
    <3> QED  BY <1>3, <2>1, <3>1, <3>2
  <2> QED  BY <2>1, <2>2, <2>3, <2>4 DEF ShutdownNext, ShutdownKill, ShutdownJoin, ShutdownClear, ShutdownRemove
<1>8. /\ \A s \in Runs : InList(s)' => InList(s)
      /\ \A s \in Runs : InList(s) /\ s # r => InList(s)'
  <2>1. CASE UNCHANGED runs
    BY <2>1 DEF InList
  <2>2. CASE RemoveRun(r)
    BY <1>1, <2>2, RemoveRunType
  <2> QED  BY <2>1, <2>2 DEF ShutdownNext, ShutdownBegin, ShutdownKill, ShutdownJoin, ShutdownClear,
              ShutdownReset, ShutdownRemove, ShutdownRmtree
<1>9. LeavingStep(r)
  BY <1>1, <1>2, <1>4, <1>5, <1>6, <1>7, <1>8 DEF LeavingStep
<1> QED  BY <1>9, LeavingRuns

-----------------------------------------------------------------------------
(* The commands *)

LEMMA StartShutdownRuns ==
  ASSUME StateInv, NEW S, StartShutdown(S), NEW r \in Runs
  PROVE  /\ sh'[r].pc # "none" <=> sh[r].pc # "none" \/ r \in S
         /\ sh'[r].pc \in {"none", "begin"} \/ sh'[r] = sh[r]
<1>1. [sh[r] EXCEPT !.pc = "begin"].pc = "begin"
  BY DEF StateInv, StateTypeOK, ShutState
<1> QED  BY <1>1 DEF StartShutdown

LEMMA TakeCommand ==
  ASSUME StateInv, RunInv, NEW op, Command1(op)
  PROVE  /\ cr.pc = "wait" /\ Queued(op, CmdRun)
         /\ \A o, r : Queued(o, r)' => Queued(o, r)
         /\ \A o, r : Queued(o, r) /\ ~(o = op /\ r = CmdRun) => Queued(o, r)'
         /\ \A i, j \in DOMAIN cmds' : cmds'[i].op = "run" /\ cmds'[i] = cmds'[j] => i = j
         /\ op = "run" => \A r : r = CmdRun => ~Queued("run", r)'
<1>1. /\ cmds \in Seq(Command) /\ cmds # <<>> /\ cmds' = Tail(cmds) /\ CommandsInOrder
      /\ Head(cmds).op = op /\ cr.pc = "wait"
  BY DEF Command1, StateInv, StateTypeOK, RunInv, RunsInOrder
<1>2. Head(cmds) = [op |-> op, run |-> CmdRun]
  <2>1. Head(cmds) \in Command
    BY <1>1
  <2> QED  BY <1>1, <2>1 DEF Command, CmdRun
<1>3. \A o, r : Head(cmds) = [op |-> o, run |-> r] => o = op /\ r = CmdRun
  BY <1>2
<1> QED  BY <1>1, <1>2, <1>3, QueuedTail DEF CmdRun

LEMMA NewRunRuns ==
  ASSUME StateInv, RunInv, NewRunCmd
  PROVE  RunInv'
<1>1. /\ CmdRun \in Runs /\ UNCHANGED <<rr, runs, run, we, res>> /\ Command1("run")
      /\ StartShutdown({r \in ActiveRuns : run[r].pending})
      /\ cr' = RunnerIdle \/ cr' = [RunnerIdle EXCEPT !.pc = "newrun", !.run = CmdRun]
  BY CommandTypes DEF NewRunCmd
<1>2. /\ cr.pc = "wait" /\ Queued("run", CmdRun)
      /\ \A o, r : Queued(o, r)' => Queued(o, r)
      /\ \A r : Queued("end", r) => Queued("end", r)'
      /\ \A i, j \in DOMAIN cmds' : cmds'[i].op = "run" /\ cmds'[i] = cmds'[j] => i = j
      /\ \A r : r = CmdRun => ~Queued("run", r)'
  BY <1>1, TakeCommand
<1>3. \A r \in Runs : /\ (Started(r)' <=> Started(r)) /\ (InList(r)' <=> InList(r))
                      /\ InList(r) => Started(r)
                      /\ sh'[r].pc # "none" <=> sh[r].pc # "none" \/ (InList(r) /\ run[r].pending)
                      /\ sh'[r].pc \in {"none", "begin"} \/ sh'[r] = sh[r]
  BY <1>1, StartShutdownRuns DEF Started, InList, ActiveRuns, RunInv, RunsInOrder, ThreadsInOrder
<1>4. CommandsInOrder'
  BY <1>1, <1>2, <1>3 DEF CommandsInOrder, RunInv, RunsInOrder
<1>5. RunnerInOrder'
  <2>1. /\ cr'.pc \in {"wait", "newrun"} /\ cr'.todo = {}
        /\ cr'.pc = "newrun" => cr'.run = CmdRun
    <3>1. \A r : /\ [RunnerIdle EXCEPT !.pc = "newrun", !.run = r].pc = "newrun"
                 /\ [RunnerIdle EXCEPT !.pc = "newrun", !.run = r].run = r
                 /\ [RunnerIdle EXCEPT !.pc = "newrun", !.run = r].todo = {}
                 /\ RunnerIdle.pc = "wait" /\ RunnerIdle.todo = {}
      BY DEF RunnerIdle
    <3> QED  BY <1>1, <3>1
  <2>2. run[CmdRun].marker = "new"
    BY <1>1, <1>2 DEF RunInv, RunsInOrder, CommandsInOrder
  <2> QED  BY <1>1, <1>2, <2>1, <2>2 DEF RunnerInOrder
<1>6. ThreadsInOrder'
  BY <1>1, <1>3, ResType DEF ThreadsInOrder, RunInv, RunsInOrder
<1>7. EndingInOrder' /\ OngoingListed' /\ EndUnderway'
  BY <1>1, <1>2, <1>3 DEF EndingInOrder, OngoingListed, EndUnderway, EndAsked, RunInv, RunsInOrder
<1> QED  BY <1>4, <1>5, <1>6, <1>7 DEF RunInv, RunsInOrder

LEMMA NewRunStartRuns ==
  ASSUME StateInv, RunInv, NewRunTakeChange \/ NewRunResize \/ NewRunStart
  PROVE  RunInv'
<1>1. /\ cr \in RunnerState /\ run \in [Runs -> RunState] /\ runs \in Seq(Runs)
      /\ UNCHANGED <<cmds, rr, we, sh>>
  BY DEF StateInv, StateTypeOK, NewRunTakeChange, NewRunResize, NewRunStart
<1>2. /\ cr.run \in Runs /\ run[cr.run].marker = "new" /\ ~Queued("run", cr.run)
      /\ we[cr.run].pc = "none" /\ sh[cr.run].pc = "none" /\ ~InList(cr.run)
  <2>1. cr.pc \in {"newrun", "resize", "acquire"}
    BY DEF NewRunTakeChange, NewRunResize, NewRunStart
  <2> QED  BY <2>1 DEF RunInv, RunsInOrder, RunnerInOrder, ThreadsInOrder, Started
<1>3. CASE NewRunTakeChange \/ NewRunResize
  <2>1. UNCHANGED <<runs, run, res>> /\ cr.pc \in {"newrun", "resize"}
    BY <1>3 DEF NewRunTakeChange, NewRunResize
  <2>2. cr'.run = cr.run /\ cr'.pc \in {"resize", "acquire"} /\ cr'.todo = cr.todo
    BY <1>1, <1>3 DEF RunnerState, NewRunTakeChange, NewRunResize
  <2>3. SameCourse
    BY <1>1, <2>1 DEF SameCourse
  <2>4. CommandsInOrder' /\ \A op, r : Queued(op, r)' <=> Queued(op, r)
    BY <1>1, <2>3, SameCommands
  <2>5. RunnerInOrder'
    BY <1>2, <2>1, <2>2, <2>4 DEF RunnerInOrder, RunInv, RunsInOrder, Started
  <2>6. RefersToStarted'
    BY <1>1, <2>1 DEF RefersToStarted, Started, RunInv, RunsInOrder, ThreadsInOrder
  <2> QED  BY <1>1, <2>1, <2>3, <2>4, <2>5, <2>6, QuietStep
<1>4. CASE NewRunStart
  <2>1. PICK P \in Partitions :
          /\ run' = [run EXCEPT ![cr.run] = [run[cr.run] EXCEPT !.ongoing = TRUE, !.online = P,
                                              !.joinl = P, !.marker = "active"]]
          /\ res' = [x \in Res |-> IF x[1] = cr.run /\ x[2] \in P THEN Watch(Forked(NewRes)) ELSE res[x]]
    BY <1>4 DEF NewRunStart
  <2>2. runs' = Append(runs, cr.run) /\ cr' = RunnerIdle
    BY <1>4 DEF NewRunStart
  <2>3. \A r \in Runs : InList(r)' <=> InList(r) \/ r = cr.run
    <3>1. /\ Len(runs) \in Nat /\ DOMAIN runs = 1 .. Len(runs) /\ DOMAIN runs' = 1 .. (Len(runs) + 1)
          /\ \A i \in 1 .. Len(runs) : runs'[i] = runs[i]
          /\ runs'[Len(runs) + 1] = cr.run
      BY <1>1, <1>2, <2>2, AppendProperties
    <3>2. Len(runs) + 1 \in DOMAIN runs'
      BY <3>1
    <3> QED  BY <3>1, <3>2 DEF InList
  <2> DEFINE v == [run[cr.run] EXCEPT !.ongoing = TRUE, !.online = P, !.joinl = P, !.marker = "active"]
  <2>4. v.ongoing /\ v.marker = "active" /\ v.endfile = run[cr.run].endfile
    BY <1>1, <1>2 DEF RunState
  <2>5. run' = [run EXCEPT ![cr.run] = v]
    BY <2>1
  <2> HIDE DEF v
  <2>6. \A r \in Runs : /\ Started(r)' <=> Started(r) \/ r = cr.run
                        /\ r # cr.run => run'[r] = run[r]
                        /\ run'[r].endfile = run[r].endfile
    BY <1>1, <1>2, <2>4, <2>5 DEF Started
  <2>7. run'[cr.run].marker = "active" /\ run'[cr.run].ongoing
    BY <1>1, <1>2, <2>4, <2>5
  <2>8. \A x \in Res : res'[x] = res[x] \/ x[1] = cr.run
    BY <2>1
  <2>9. \A op, r : Queued(op, r)' <=> Queued(op, r)
    BY <1>1 DEF Queued
  <2>10. CommandsInOrder'
    BY <1>1, <1>2, <2>6, <2>9 DEF CommandsInOrder, RunInv, RunsInOrder
  <2>11. RunnerInOrder'
    BY <2>2 DEF RunnerInOrder, RunnerIdle
  <2>12. ThreadsInOrder'
    BY <1>1, <2>3, <2>6, <2>8, ResType DEF ThreadsInOrder, RunInv, RunsInOrder
  <2>13. EndingInOrder' /\ OngoingListed'
    BY <1>1, <1>2, <2>3, <2>6, <2>7 DEF EndingInOrder, OngoingListed, RunInv, RunsInOrder
  <2>14. EndUnderway'
    <3>1. cr.pc = "acquire"
      BY <1>4 DEF NewRunStart
    <3> QED  BY <1>1, <2>6, <2>9, <3>1 DEF EndUnderway, EndAsked, RunInv
  <2> QED  BY <2>10, <2>11, <2>12, <2>13, <2>14 DEF RunInv, RunsInOrder
<1> QED  BY <1>3, <1>4

LEMMA EndRunRuns ==
  ASSUME StateInv, RunInv, EndRunCmd
  PROVE  RunInv'
<1>1. /\ CmdRun \in Runs /\ UNCHANGED <<rr, runs, we, sh, res>> /\ Command1("end")
      /\ run \in [Runs -> RunState] /\ run[CmdRun] \in RunState
  BY CommandTypes DEF EndRunCmd, StateInv, StateTypeOK
<1>2. /\ cr.pc = "wait" /\ Queued("end", CmdRun)
      /\ \A o, r : Queued(o, r)' => Queued(o, r)
      /\ \A r : Queued("end", r) /\ r # CmdRun => Queued("end", r)'
      /\ \A i, j \in DOMAIN cmds' : cmds'[i].op = "run" /\ cmds'[i] = cmds'[j] => i = j
  BY <1>1, TakeCommand
<1>3. Started(CmdRun)
  BY <1>1, <1>2 DEF RunInv, RunsInOrder, CommandsInOrder
<1>4. /\ \A r \in Runs \ {CmdRun} : run'[r] = run[r]
      /\ run'[CmdRun].marker = run[CmdRun].marker
      /\ \/ /\ cr'.pc = "endsleep" /\ cr'.run = CmdRun
            /\ ~run'[CmdRun].ongoing /\ run'[CmdRun].endfile = run[CmdRun].endfile
         \/ /\ cr'.pc = "wait" /\ ~run'[CmdRun].endfile /\ run'[CmdRun].ongoing = run[CmdRun].ongoing
      /\ cr'.todo = {}
  <2>1. CASE InList(CmdRun)
    <3>1. run' = [run EXCEPT ![CmdRun] = NotOngoing(run[CmdRun])]
      BY <2>1 DEF EndRunCmd
    <3>2. cr' = [RunnerIdle EXCEPT !.pc = "endsleep", !.run = CmdRun]
      BY <2>1 DEF EndRunCmd
    <3>3. \A r : /\ [RunnerIdle EXCEPT !.pc = "endsleep", !.run = r].pc = "endsleep"
                 /\ [RunnerIdle EXCEPT !.pc = "endsleep", !.run = r].run = r
                 /\ [RunnerIdle EXCEPT !.pc = "endsleep", !.run = r].todo = {}
      BY DEF RunnerIdle
    <3>4. LET o == NotOngoing(run[CmdRun])
          IN o.marker = run[CmdRun].marker /\ ~o.ongoing /\ o.endfile = run[CmdRun].endfile
      BY <1>1 DEF NotOngoing, RunState
    <3> QED  BY <1>1, <3>1, <3>2, <3>3, <3>4
  <2>2. CASE ~InList(CmdRun)
    <3>1. run' = [run EXCEPT ![CmdRun] = [run[CmdRun] EXCEPT !.endfile = FALSE]] /\ cr' = RunnerIdle
      BY <2>2 DEF EndRunCmd
    <3>2. cr'.pc = "wait" /\ cr'.todo = {}
      BY <3>1 DEF RunnerIdle
    <3> QED  BY <1>1, <3>1, <3>2 DEF RunState
  <2> QED  BY <2>1, <2>2
<1>5. \A r \in Runs : Started(r)' <=> Started(r)
  BY <1>4 DEF Started
<1>6. CommandsInOrder'
  BY <1>1, <1>2, <1>4, <1>5 DEF CommandsInOrder, RunInv, RunsInOrder
<1>7. RunnerInOrder'
  BY <1>1, <1>3, <1>4, <1>5 DEF RunnerInOrder
<1>8. ThreadsInOrder'
  BY <1>1, <1>5, ResType DEF ThreadsInOrder, InList, RunInv, RunsInOrder
<1>9. EndingInOrder' /\ OngoingListed'
  BY <1>1, <1>4 DEF EndingInOrder, OngoingListed, InList, RunInv, RunsInOrder
<1>10. EndUnderway'
  BY <1>1, <1>2, <1>4 DEF EndUnderway, EndAsked, RunInv
<1> QED  BY <1>6, <1>7, <1>8, <1>9, <1>10 DEF RunInv, RunsInOrder

LEMMA EndRunStartRuns ==
  ASSUME StateInv, RunInv, EndRunStart
  PROVE  RunInv'
<1>1. /\ UNCHANGED <<cmds, rr, runs, sh, res>> /\ cr.pc = "endsleep" /\ cr' = RunnerIdle
      /\ run \in [Runs -> RunState] /\ we \in [Runs -> EndState]
  BY DEF EndRunStart, StateInv, StateTypeOK
<1>2. cr.run \in Runs /\ Started(cr.run) /\ ~run[cr.run].ongoing
  BY <1>1 DEF RunInv, RunsInOrder, RunnerInOrder
<1>3. cr'.pc = "wait" /\ cr'.todo = {}
  BY <1>1 DEF RunnerIdle
<1>4. /\ we'[cr.run].pc # "none" \/ sh[cr.run].pc # "none"
      /\ \A r \in Runs \ {cr.run} : run'[r] = run[r] /\ we'[r] = we[r]
      /\ run'[cr.run].marker \in {"gone", "stopping"} /\ ~run'[cr.run].ongoing
  <2>1. CASE run[cr.run].marker = "gone"
    <3>1. UNCHANGED <<run, we>>
      BY <2>1 DEF EndRunStart
    <3> QED  BY <1>2, <2>1, <3>1 DEF RunInv, RunsInOrder, EndingInOrder
  <2>2. CASE run[cr.run].marker # "gone"
    <3>1. /\ run' = [run EXCEPT ![cr.run] = [run[cr.run] EXCEPT !.marker = "stopping"]]
          /\ we' = [we EXCEPT ![cr.run] = [NoEnd EXCEPT !.pc = "join"]]
      BY <2>2 DEF EndRunStart
    <3>2. LET o == [run[cr.run] EXCEPT !.marker = "stopping"]
          IN o.marker = "stopping" /\ o.ongoing = run[cr.run].ongoing
      BY <1>1, <1>2 DEF RunState
    <3>3. [NoEnd EXCEPT !.pc = "join"].pc = "join"
      BY DEF NoEnd
    <3> QED  BY <1>1, <1>2, <3>1, <3>2, <3>3
  <2> QED  BY <2>1, <2>2
<1>5. \A r \in Runs : (Started(r)' <=> Started(r)) /\ (InList(r)' <=> InList(r))
  BY <1>1, <1>2, <1>4 DEF Started, InList
<1>6. \A op, r : Queued(op, r)' <=> Queued(op, r)
  BY <1>1 DEF Queued
<1>7. CommandsInOrder'
  BY <1>1, <1>2, <1>4, <1>5, <1>6 DEF CommandsInOrder, Started, RunInv, RunsInOrder
<1>8. RunnerInOrder'
  BY <1>3 DEF RunnerInOrder
<1>9. ThreadsInOrder'
  BY <1>1, <1>2, <1>4, <1>5, ResType DEF ThreadsInOrder, RunInv, RunsInOrder
<1>10. EndingInOrder' /\ OngoingListed'
  BY <1>1, <1>4, <1>5 DEF EndingInOrder, OngoingListed, RunInv, RunsInOrder
<1>11. EndUnderway'
  <2>1. \A r \in Runs \ {cr.run} : run'[r].endfile =>
           Queued("end", r)' \/ we'[r].pc # "none" \/ sh'[r].pc # "none"
    BY <1>1, <1>4, <1>6 DEF EndUnderway, EndAsked, RunInv
  <2> QED  BY <1>1, <1>4, <2>1 DEF EndUnderway, EndAsked
<1> QED  BY <1>7, <1>8, <1>9, <1>10, <1>11 DEF RunInv, RunsInOrder

LEMMA QuarantinedRuns ==
  ASSUME StateInv, RunInv, QuarantinedCmd
  PROVE  RunInv'
<1>1. /\ CmdRun \in Runs /\ UNCHANGED <<rr, cr, runs, we, res>> /\ Command1("quarantined")
      /\ run \in [Runs -> RunState] /\ run[CmdRun] \in RunState
  BY CommandTypes DEF QuarantinedCmd, StateInv, StateTypeOK
<1>2. /\ cr.pc = "wait" /\ Queued("quarantined", CmdRun)
      /\ \A o, r : Queued(o, r)' => Queued(o, r)
      /\ \A r : Queued("end", r) => Queued("end", r)'
      /\ \A i, j \in DOMAIN cmds' : cmds'[i].op = "run" /\ cmds'[i] = cmds'[j] => i = j
  BY <1>1, TakeCommand
<1>3. Started(CmdRun)
  BY <1>1, <1>2 DEF RunInv, RunsInOrder, CommandsInOrder
<1>4. /\ \A r \in Runs : /\ run'[r].marker = run[r].marker /\ run'[r].ongoing = run[r].ongoing
                         /\ run'[r].endfile = run[r].endfile
  <2>1. PICK p : run' = [run EXCEPT ![CmdRun].qfile = FALSE, ![CmdRun].pending = p]
    BY DEF QuarantinedCmd
  <2>2. \A r \in Runs \ {CmdRun} : run'[r] = run[r]
    BY <1>1, <2>1
  <2>3. LET o == [run[CmdRun] EXCEPT !.qfile = FALSE, !.pending = p]
        IN run'[CmdRun] = o
    BY <1>1, <2>1
  <2> QED  BY <1>1, <2>2, <2>3, ZenonT(60) DEF RunState
<1>5. PICK S \in SUBSET {CmdRun} : StartShutdown(S)
  BY DEF QuarantinedCmd
<1>6. \A r \in Runs : /\ (Started(r)' <=> Started(r)) /\ (InList(r)' <=> InList(r))
                      /\ sh'[r].pc # "none" <=> sh[r].pc # "none" \/ r \in S
                      /\ sh'[r].pc \in {"none", "begin"} \/ sh'[r] = sh[r]
  BY <1>1, <1>4, <1>5, StartShutdownRuns DEF Started, InList
<1>7. CommandsInOrder'
  BY <1>1, <1>2, <1>4, <1>6 DEF CommandsInOrder, RunInv, RunsInOrder
<1>8. RunnerInOrder'
  BY <1>1, <1>2, <1>6 DEF RunnerInOrder, RunInv, RunsInOrder, StateInv, StateTypeOK, RunnerState
<1>9. ThreadsInOrder'
  BY <1>1, <1>3, <1>5, <1>6, ResType DEF ThreadsInOrder, RunInv, RunsInOrder
<1>10. EndingInOrder' /\ OngoingListed'
  BY <1>1, <1>4, <1>6 DEF EndingInOrder, OngoingListed, RunInv, RunsInOrder
<1>11. EndUnderway'
  BY <1>1, <1>2, <1>4, <1>6 DEF EndUnderway, EndAsked, RunInv
<1> QED  BY <1>7, <1>8, <1>9, <1>10, <1>11 DEF RunInv, RunsInOrder

LEMMA HerodRuns ==
  ASSUME StateInv, RunInv, HerodCmd
  PROVE  RunInv'
<1>1. /\ UNCHANGED <<rr, runs, we, sh, res>> /\ Command1("herod")
      /\ run \in [Runs -> RunState]
      /\ cr' = [RunnerIdle EXCEPT !.pc = "herod", !.run = CmdRun, !.todo = ActiveRuns]
  BY DEF HerodCmd, StateInv, StateTypeOK
<1>2. /\ cr.pc = "wait"
      /\ \A o, r : Queued(o, r)' => Queued(o, r)
      /\ \A r : Queued("end", r) => Queued("end", r)'
      /\ \A i, j \in DOMAIN cmds' : cmds'[i].op = "run" /\ cmds'[i] = cmds'[j] => i = j
  BY <1>1, TakeCommand
<1>3. cr'.pc = "herod" /\ cr'.todo = ActiveRuns
  BY <1>1 DEF RunnerIdle
<1>4. \A r \in Runs : /\ run'[r].marker = run[r].marker /\ run'[r].endfile = run[r].endfile
                      /\ run'[r].ongoing => run[r].ongoing
  <2>1. \A r \in Runs : run'[r] = run[r] \/ run'[r] = NotOngoing(run[r])
    BY DEF HerodCmd
  <2>2. \A o \in RunState : /\ NotOngoing(o).marker = o.marker /\ NotOngoing(o).endfile = o.endfile
                            /\ ~NotOngoing(o).ongoing
    BY DEF NotOngoing, RunState
  <2> QED  BY <1>1, <2>1, <2>2
<1>5. \A r \in Runs : /\ (Started(r)' <=> Started(r)) /\ (InList(r)' <=> InList(r))
                      /\ InList(r) => Started(r)
  BY <1>1, <1>4 DEF Started, InList, RunInv, RunsInOrder, ThreadsInOrder
<1>6. CommandsInOrder'
  BY <1>1, <1>2, <1>4, <1>5 DEF CommandsInOrder, RunInv, RunsInOrder
<1>7. RunnerInOrder'
  BY <1>3, <1>5 DEF RunnerInOrder, ActiveRuns
<1>8. ThreadsInOrder'
  BY <1>1, <1>5, ResType DEF ThreadsInOrder, RunInv, RunsInOrder
<1>9. EndingInOrder' /\ OngoingListed'
  BY <1>1, <1>4, <1>5 DEF EndingInOrder, OngoingListed, RunInv, RunsInOrder
<1>10. EndUnderway'
  BY <1>1, <1>2, <1>4 DEF EndUnderway, EndAsked, RunInv
<1> QED  BY <1>6, <1>7, <1>8, <1>9, <1>10 DEF RunInv, RunsInOrder

LEMMA HerodRunRuns ==
  ASSUME StateInv, RunInv, NEW r \in Runs, HerodRun(r)
  PROVE  RunInv'
<1>1. /\ UNCHANGED <<cmds, rr, runs, run, we, res>> /\ cr.pc = "herod" /\ r \in cr.todo
      /\ cr \in RunnerState
  BY DEF HerodRun, StateInv, StateTypeOK
<1>2. Started(r) /\ \A s \in cr.todo : Started(s)
  BY <1>1 DEF RunInv, RunsInOrder, RunnerInOrder
<1>3. PICK S \in SUBSET {r} : UNCHANGED sh \/ StartShutdown(S)
  BY DEF HerodRun
<1>4. cr'.pc \in {"herod", "shutdown"} /\ cr'.todo \subseteq cr.todo
  <2>1. \/ cr' = [cr EXCEPT !.pc = "shutdown", !.todo = cr.todo \ {r}, !.cur = r]
        \/ cr' = [cr EXCEPT !.todo = cr.todo \ {r}]
    BY DEF HerodRun
  <2> QED  BY <1>1, <2>1 DEF RunnerState
<1>5. \A s \in Runs : /\ (Started(s)' <=> Started(s)) /\ (InList(s)' <=> InList(s))
                      /\ sh'[s].pc # "none" => sh[s].pc # "none" \/ s = r
                      /\ sh[s].pc # "none" => sh'[s].pc # "none"
                      /\ sh'[s].pc \in {"none", "begin"} \/ sh'[s] = sh[s]
  BY <1>1, <1>3, StartShutdownRuns DEF Started, InList
<1>6. SameCourse
  BY <1>1 DEF SameCourse
<1>7. CommandsInOrder' /\ \A op, s : Queued(op, s)' <=> Queued(op, s)
  BY <1>1, <1>6, SameCommands
<1>8. RunnerInOrder'
  BY <1>1, <1>2, <1>4, <1>5 DEF RunnerInOrder, RunnerState
<1>9. ThreadsInOrder'
  BY <1>1, <1>2, <1>5, ResType DEF ThreadsInOrder, RunInv, RunsInOrder
<1>10. EndingInOrder' /\ OngoingListed'
  BY <1>1, <1>5 DEF EndingInOrder, OngoingListed, RunInv, RunsInOrder
<1>11. EndUnderway'
  BY <1>1, <1>5, <1>7 DEF EndUnderway, EndAsked, RunInv
<1> QED  BY <1>7, <1>8, <1>9, <1>10, <1>11 DEF RunInv, RunsInOrder

\* The end of a herod command and the resource update leave the runs alone.
LEMMA UpdateRuns ==
  ASSUME StateInv, RunInv,
         \/ HerodShutdownReturns \/ HerodClear \/ UpdateCmd \/ (\E g \in Groups : UpdateStop(g))
         \/ UpdateUnlock \/ UpdateJoined \/ UpdateJoinTimeout \/ UpdateEnd
  PROVE  RunInv'
<1>1. /\ UNCHANGED <<rr, runs, run, we, sh>> /\ cr.pc # "endsleep"
      /\ res \in [Res -> ResState] /\ cr \in RunnerState
  BY DEF HerodShutdownReturns, HerodClear, UpdateCmd, Command1, UpdateStop, UpdateUnlock, UpdateJoined,
     UpdateJoinTimeout, UpdateEnd, StateInv, StateTypeOK
<1>2. SameCourse
  BY <1>1 DEF SameCourse
<1>3. CommandsInOrder' /\ (\A r : Queued("end", r) => Queued("end", r)')
      /\ (\A r : Queued("run", r)' => Queued("run", r))
  <2>1. CASE UNCHANGED cmds
    BY <1>2, <2>1, SameCommands
  <2>2. CASE Command1("update")
    <3>1. /\ \A o, r : Queued(o, r)' => Queued(o, r)
          /\ \A r : Queued("end", r) => Queued("end", r)'
          /\ \A i, j \in DOMAIN cmds' : cmds'[i].op = "run" /\ cmds'[i] = cmds'[j] => i = j
      BY <2>2, TakeCommand
    <3> QED  BY <1>1, <3>1 DEF CommandsInOrder, Started, RunInv, RunsInOrder
  <2> QED  BY <2>1, <2>2 DEF HerodShutdownReturns, HerodClear, UpdateCmd, UpdateStop, UpdateUnlock,
         UpdateJoined, UpdateJoinTimeout, UpdateEnd
<1>4. cr'.pc \in {"wait", "herod", "update", "ujoin", "ulock"} /\ (cr'.todo = {} \/ cr'.todo = cr.todo)
  <2>1. RunnerIdle.pc = "wait" /\ RunnerIdle.todo = {}
    BY DEF RunnerIdle
  <2>2. CASE HerodShutdownReturns \/ UpdateUnlock \/ UpdateJoined \/ UpdateJoinTimeout
    <3>1. PICK pc \in {"herod", "ujoin", "ulock"} : cr' = [cr EXCEPT !.pc = pc]
      BY <2>2 DEF HerodShutdownReturns, UpdateUnlock, UpdateJoined, UpdateJoinTimeout
    <3> QED  BY <1>1, <3>1 DEF RunnerState
  <2>3. CASE HerodClear \/ UpdateEnd
    BY <2>1, <2>3 DEF HerodClear, UpdateEnd
  <2>4. CASE UpdateCmd
    <3>1. \/ cr' = RunnerIdle
          \/ \E v, n : cr' = [RunnerIdle EXCEPT !.pc = "update", !.run = LastOngoingRun,
                                !.visit = v, !.left = n]
      BY <2>4 DEF UpdateCmd, UpdateShrink
    <3>2. ASSUME NEW v, NEW n,
                 cr' = [RunnerIdle EXCEPT !.pc = "update", !.run = LastOngoingRun, !.visit = v, !.left = n]
          PROVE  cr'.pc = "update" /\ cr'.todo = {}
      BY <3>2 DEF RunnerIdle
    <3> QED  BY <2>1, <3>1, <3>2
  <2>5. ASSUME NEW g \in Groups, UpdateStop(g)
        PROVE  cr'.pc = "update" /\ cr'.todo = cr.todo
    BY <1>1, <2>5 DEF UpdateStop, RunnerState
  <2> QED  BY <2>2, <2>3, <2>4, <2>5
<1>5. RunnerInOrder'
  BY <1>1, <1>2, <1>4 DEF RunnerInOrder, Started, RunInv, RunsInOrder
<1>6. \A x \in Res : res'[x].wd = res[x].wd
  <2>1. CASE UNCHANGED res
    BY <2>1
  <2>2. ASSUME NEW g \in Groups, UpdateStop(g)
        PROVE  \A x \in Res : res'[x].wd = res[x].wd
    <3>1. PICK y, fl : StopWith(y, fl)
      BY <2>2 DEF UpdateStop
    <3>2. \A o \in ResState : \A a, b : [[o EXCEPT !.flags = a] EXCEPT !.stop = b].wd = o.wd
      BY DEF ResState
    <3>3. \E a, b : res' = [res EXCEPT ![y] = [[res[y] EXCEPT !.flags = a] EXCEPT !.stop = b]]
      BY <1>1, <3>1 DEF StopWith
    <3> QED  BY <1>1, <3>2, <3>3
  <2>3. CASE UpdateJoinTimeout
    <3>1. \A x \in Res : res'[x] = res[x] \/ res'[x] = [res[x] EXCEPT !.proc = "crash"]
      BY <2>3 DEF UpdateJoinTimeout
    <3>2. \A o \in ResState : [o EXCEPT !.proc = "crash"].wd = o.wd
      BY DEF ResState
    <3> QED  BY <1>1, <3>1, <3>2
  <2> QED  BY <2>1, <2>2, <2>3 DEF HerodShutdownReturns, HerodClear, UpdateCmd, UpdateUnlock,
         UpdateJoined, UpdateEnd
<1>7. RefersToStarted'
  BY <1>1, <1>6 DEF RefersToStarted, Started, RunInv, RunsInOrder, ThreadsInOrder
<1> QED  BY <1>1, <1>2, <1>3, <1>5, <1>7, QuietStep

-----------------------------------------------------------------------------
(* The world *)

LEMMA NotifyNewRunRuns ==
  ASSUME StateInv, RunInv, NEW r \in Runs, NotifyNewRun(r)
  PROVE  RunInv'
<1>1. /\ UNCHANGED <<rr, cr, runs, we, sh, res>> /\ run \in [Runs -> RunState] /\ run[r] \in RunState
      /\ run[r].marker = "none" /\ cmds' = Append(cmds, [op |-> "run", run |-> r])
      /\ run' = [run EXCEPT ![r] = [run[r] EXCEPT !.marker = "new"]]
      /\ cmds \in Seq(Command) /\ [op |-> "run", run |-> r] \in Command
  BY DEF NotifyNewRun, Send, StateInv, StateTypeOK, Command
<1>2. /\ \A s \in Runs \ {r} : run'[s] = run[s]
      /\ run'[r].marker = "new" /\ run'[r].ongoing = run[r].ongoing /\ run'[r].endfile = run[r].endfile
  BY <1>1 DEF RunState
<1>3. \A op, s : Queued(op, s)' <=> Queued(op, s) \/ (op = "run" /\ s = r)
  <2>1. \A op, s : [op |-> "run", run |-> r] = [op |-> op, run |-> s] <=> op = "run" /\ s = r
    OBVIOUS
  <2> QED  BY <1>1, <2>1, QueuedAppend
<1>4. ~Started(r) /\ \A s \in Runs : Started(s)' <=> Started(s)
  BY <1>1, <1>2 DEF Started
<1>5. CommandsInOrder'
  <2>1. ~Queued("run", r)
    BY <1>1 DEF RunInv, RunsInOrder, CommandsInOrder
  <2>2. \A i, j \in DOMAIN cmds' : cmds'[i].op = "run" /\ cmds'[i] = cmds'[j] => i = j
    <3>1. /\ Len(cmds) \in Nat /\ DOMAIN cmds = 1 .. Len(cmds) /\ DOMAIN cmds' = 1 .. (Len(cmds) + 1)
          /\ \A i \in 1 .. Len(cmds) : cmds'[i] = cmds[i]
          /\ cmds'[Len(cmds) + 1] = [op |-> "run", run |-> r]
      BY <1>1, AppendProperties
    <3>2. \A i \in 1 .. Len(cmds) : cmds[i] # [op |-> "run", run |-> r]
      BY <2>1, <3>1 DEF Queued
    <3> QED  BY <3>1, <3>2 DEF RunInv, RunsInOrder, CommandsInOrder
  <2> QED  BY <1>1, <1>2, <1>3, <1>4, <2>2 DEF RunInv, RunsInOrder, CommandsInOrder
<1>6. RunnerInOrder'
  BY <1>1, <1>2, <1>3, <1>4 DEF RunnerInOrder, RunInv, RunsInOrder, StateInv, StateTypeOK, RunnerState
<1>7. ThreadsInOrder'
  BY <1>1, <1>4, ResType DEF ThreadsInOrder, InList, RunInv, RunsInOrder
<1>8. EndingInOrder' /\ OngoingListed'
  BY <1>1, <1>2 DEF EndingInOrder, OngoingListed, InList, RunInv, RunsInOrder
<1>9. EndUnderway'
  BY <1>1, <1>2, <1>3 DEF EndUnderway, EndAsked, RunInv
<1> QED  BY <1>5, <1>6, <1>7, <1>8, <1>9 DEF RunInv, RunsInOrder

LEMMA WorldRuns ==
  ASSUME StateInv, RunInv,
         \/ \E r \in Runs : NotifyEnd(r)
         \/ \E r \in Runs \union {NoRun} : Herod(r)
         \/ \E d \in {-1, 1} : CpuChange(d)
         \/ \E c \in Cores, dir \in {"idle", "quarantined"} : MoveByHand(c, dir)
  PROVE  RunInv'
<1>1. UNCHANGED <<rr, cr, runs, we, sh, res>> /\ run \in [Runs -> RunState] /\ cmds \in Seq(Command)
  BY DEF NotifyEnd, Herod, CpuChange, MoveByHand, StateInv, StateTypeOK
<1>2. CASE UNCHANGED run
  <2>1. PICK c \in Command : (cmds' = cmds \/ cmds' = Append(cmds, c)) /\ c.op \in {"herod", "update"}
    <3>1. \A r \in Runs \union {NoRun} :
            [op |-> "herod", run |-> r] \in Command /\ [op |-> "update", run |-> NoRun] \in Command
      BY DEF Command
    <3>2. CASE \E r \in Runs : NotifyEnd(r)
      BY <1>1, <1>2, <3>2 DEF NotifyEnd, RunState
    <3>3. CASE \E r \in Runs \union {NoRun} : Herod(r)
      BY <3>1, <3>3 DEF Herod, Send
    <3>4. CASE ~ \E r \in Runs \union {NoRun} : Herod(r)
      BY <3>1, <3>2, <3>4 DEF CpuChange, MoveByHand, Send
    <3> QED  BY <3>3, <3>4
  <2>2. SameCourse /\ RefersToStarted'
    BY <1>1, <1>2 DEF SameCourse, RefersToStarted, Started, RunInv, RunsInOrder, ThreadsInOrder
  <2> QED  BY <1>1, <1>2, <2>1, <2>2, QuietAppend
<1>3. ASSUME NEW r \in Runs, NotifyEnd(r)
      PROVE  RunInv'
  <2>1. /\ run' = [run EXCEPT ![r] = [run[r] EXCEPT !.endfile = TRUE]] /\ run[r] \in RunState
        /\ run[r].marker = "active"
    BY <1>1, <1>3 DEF NotifyEnd
  <2>2. SameCourse /\ \A s \in Runs \ {r} : run'[s] = run[s]
    BY <1>1, <2>1 DEF SameCourse, RunState
  <2>3. Started(r) /\ RefersToStarted'
    BY <1>1, <2>1, <2>2 DEF SameCourse, RefersToStarted, Started, RunInv, RunsInOrder, ThreadsInOrder
  <2> DEFINE c == [op |-> "end", run |-> r]
  <2>4. c \in Command /\ c.op = "end" /\ c.run = r
    BY DEF Command
  <2>5. cmds' = Append(cmds, c)
    BY <1>3 DEF NotifyEnd, Send
  <2>6. Queued("end", r)'
    BY <1>1, <2>4, <2>5, QueuedAppend
  <2> HIDE DEF c
  <2> QED  BY <1>1, <2>2, <2>3, <2>4, <2>5, <2>6, QuietAppend
<1>4. CASE ~ \E r \in Runs : NotifyEnd(r)
  BY <1>2, <1>4 DEF Herod, CpuChange, MoveByHand
<1> QED  BY <1>3, <1>4

-----------------------------------------------------------------------------
(* The invariant *)

LEMMA InitRuns == Init => RunInv
<1> SUFFICES ASSUME Init  PROVE  RunInv
  OBVIOUS
<1>1. CommandsInOrder /\ RunnerInOrder
  BY DEF Init, CommandsInOrder, RunnerInOrder, Queued, RunnerIdle
<1>2. ThreadsInOrder
  BY StateAssumption DEF Init, ThreadsInOrder, InList, NoEnd, NewRes, RangerIdle
<1>3. EndingInOrder /\ OngoingListed /\ EndUnderway
  BY DEF Init, EndingInOrder, OngoingListed, EndUnderway, EndAsked, NoEnd
<1> QED  BY <1>1, <1>2, <1>3 DEF RunInv, RunsInOrder

LEMMA RunInvStep == TypeInv /\ RunInv /\ [Next]_vars => RunInv'
<1> SUFFICES ASSUME TypeInv, RunInv, [Next]_vars  PROVE  RunInv'
  OBVIOUS
<1>1. StateInv
  BY DEF TypeInv
<1>2. CASE UNCHANGED vars
  <2>1. UNCHANGED <<cmds, cr, rr, runs, run, we, sh, res>>
    BY <1>2 DEF vars, fuVars
  <2>2. SameCourse /\ RefersToStarted'
    BY <2>1 DEF SameCourse, RefersToStarted, Started, RunInv, RunsInOrder, ThreadsInOrder
  <2> QED  BY <1>1, <2>1, <2>2, SameCommands, SameRunner, QuietStep
<1>3. CASE RunnerNext \/ UpdateJoinTimeout
  BY <1>1, <1>3, NewRunRuns, NewRunStartRuns, EndRunRuns, EndRunStartRuns, QuarantinedRuns, HerodRuns,
     HerodRunRuns, UpdateRuns DEF RunnerNext
<1>4. CASE RangerNext \/ RangerJoinTimeout
  BY <1>1, <1>4, RangerRuns
<1>5. CASE \E x \in Res : WatchdogNext(x) \/ ProcessEnds(x) \/ StrayEnds(x) \/ ProcessCrashes(x)
  BY <1>1, <1>5, WatchdogRuns, ProcessRuns
<1>6. CASE \E r \in Runs : WaitForEndNext(r) \/ ShutdownNext(r) \/ NotifyNewRun(r)
  BY <1>1, <1>6, WaitForEndRuns, ShutdownRuns, NotifyNewRunRuns
<1>7. CASE \/ \E r \in Runs : NotifyEnd(r)
           \/ \E r \in Runs \union {NoRun} : Herod(r)
           \/ \E d \in {-1, 1} : CpuChange(d)
           \/ \E c \in Cores, dir \in {"idle", "quarantined"} : MoveByHand(c, dir)
  BY <1>1, <1>7, WorldRuns
<1> QED  BY <1>2, <1>3, <1>4, <1>5, <1>6, <1>7 DEF Next, Threads, Timeouts

\* A run goes through its life in the order the threads rely on without a lock: it
\* is announced once, nothing touches it before it has started, and once its end
\* or its shutdown has begun to act it is no longer ongoing.
THEOREM RunsCorrect == Spec => []RunsInOrder
<1>1. RunInv => RunsInOrder
  BY DEF RunInv
<1> QED  BY <1>1, InitTypes, TypeInvStep, InitRuns, RunInvStep, PTL DEF Spec

\* Only a run of the RunList is ever the one that resources are started for.
THEOREM OngoingRunsListed == Spec => []OngoingListed
<1>1. RunInv => OngoingListed
  BY DEF RunInv
<1> QED  BY <1>1, InitTypes, TypeInvStep, InitRuns, RunInvStep, PTL DEF Spec
=============================================================================
