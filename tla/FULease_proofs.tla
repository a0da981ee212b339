---------------------------- MODULE FULease_proofs ----------------------------
(***************************************************************************)
(* The filter unit: the theorems about FUResources that speak of cores and *)
(* the processes they are given to.  Each holds for every value of the     *)
(* constants as long as what breaks it has not happened yet (Undisturbed,  *)
(* Uncut); without the condition TLC refutes it.                           *)
(***************************************************************************)
EXTENDS FUResources_proofs

-----------------------------------------------------------------------------
(* The cores of a process, as long as nobody moves core files by hand and no *)
(* run is shut down                                                          *)

\* So far nobody has moved a core file by hand, and no run has been shut down.
Undisturbed == spent["move"] = 0 /\ \A r \in Runs : sh[r].pc = "none"

\* Watchdog pcs in which the cores of the resource have yet to be moved.
Leaving == {"delete", "relIdle", "relQuar"}
Moving == {"sleep", "stopwait", "toIdle", "toQuar"} \union Leaving
\* The cores of x are in use: nobody but its threads may move them.
Held(x) == \/ res[x].wd \in Moving \union {"watch"} \/ Alive(x)
           \/ res[x].pstate = "running" \/ Starting(x)
OneHolder ==
  /\ \A x \in Res : Held(x) => Cpu(x) \subseteq In("online")
  /\ \A x, y \in Res : x # y /\ Held(x) /\ Held(y) => Cpu(x) \cap Cpu(y) = {}
MovesInOrder ==
  \A x \in Res : /\ res[x].stray = "no"
                 /\ res[x].wd \in Moving => ~Alive(x) /\ res[x].pstate # "running" /\ ~Starting(x)
                 /\ res[x].wd = "watch" => ~Starting(x)
HeldInv == OneHolder /\ MovesInOrder

\* What has been disturbed stays disturbed.
LEMMA UndisturbedBefore ==
  ASSUME TypeInv, [Next]_vars, Undisturbed'
  PROVE  Undisturbed
<1>1. UNCHANGED spent \/ \E k \in DOMAIN Bounds : Spend(k)
  BY DEF Next, vars, Timeouts, ProcessEnds, StrayEnds, ProcessCrashes, NotifyNewRun, NotifyEnd,
         Herod, CpuChange, MoveByHand, Bounds
<1>2. spent["move"] = 0
  BY <1>1 DEF Spend, TypeInv, Bounds, Undisturbed
<1>3. ASSUME NEW r \in Runs, sh[r].pc # "none"  PROVE  sh'[r].pc # "none"
  <2>1. sh \in [Runs -> ShutState] /\ sh[r] \in ShutState
    BY DEF TypeInv, StateInv, StateTypeOK
  <2>2. CASE UNCHANGED sh
    BY <1>3, <2>2
  <2>3. ASSUME NEW S, StartShutdown(S)  PROVE  sh'[r].pc # "none"
    BY <1>3, <2>3 DEF StartShutdown
  <2>4. ASSUME NEW s \in Runs, ShutdownNext(s)  PROVE  sh'[r].pc # "none"
    <3>1. sh[s] \in ShutState
      BY DEF TypeInv, StateInv, StateTypeOK
    <3> QED  BY <1>3, <2>1, <2>4, <3>1 DEF ShutdownNext, ShutdownBegin, ShutdownKill, ShutdownJoin, ShutdownClear,
                 ShutdownReset, ShutdownRemove, ShutdownRmtree, ShutState
  <2>5. UNCHANGED sh \/ (\E S : StartShutdown(S)) \/ \E s \in Runs : ShutdownNext(s)
    <3>1. CASE RunnerNext
      BY <3>1 DEF RunnerNext, NewRunCmd, NewRunTakeChange, NewRunResize, NewRunStart, EndRunCmd, EndRunStart,
           QuarantinedCmd, HerodCmd, HerodRun, HerodShutdownReturns, HerodClear, UpdateCmd, UpdateStop,
           UpdateUnlock, UpdateJoined, UpdateEnd
    <3>2. CASE RangerNext
      BY <3>2 DEF RangerNext, RangerTake, RangerStop, RangerJoined, RangerJoinReturns, RangerAcquire, RangerSkip,
           RangerUnbreak, RangerStartFails, RangerStart, RangerRestarted
    <3>3. ASSUME NEW x \in Res, WatchdogNext(x)  PROVE  UNCHANGED sh
      BY <3>3 DEF WatchdogNext, WatchdogLost, WatchdogAborted, WatchdogError, WatchdogSuccess,
         WatchdogStopSeen, WatchdogToIdle, WatchdogToBroken, WatchdogToQuarantined,
         WatchdogRemoveMark, WatchdogMark, WatchdogFlag, WatchdogDelete, WatchdogRelease, WatchdogDelist
    <3>4. ASSUME NEW s \in Runs, WaitForEndNext(s)  PROVE  UNCHANGED sh
      BY <3>4 DEF WaitForEndNext, WaitForEndJoin, WaitForEndClear, WaitForEndReset, WaitForEndRmtree, WaitForEndRemove
    <3>5. CASE ~Threads
      BY <3>5 DEF Next, vars, fuVars, Timeouts, RangerJoinTimeout, RangerJoinReturns, UpdateJoinTimeout,
           ProcessEnds, StrayEnds, ProcessCrashes, NotifyNewRun, NotifyEnd, Herod, CpuChange, MoveByHand
    <3> QED  BY <3>1, <3>2, <3>3, <3>4, <3>5 DEF Threads
  <2> QED  BY <2>2, <2>3, <2>4, <2>5
<1> QED  BY <1>2, <1>3 DEF Undisturbed

-----------------------------------------------------------------------------
(* What the steps do to the cores *)

Moved(S, dir) == where' = [c \in Cores |-> IF c \in S THEN dir ELSE where[c]]

\* What a step of the watchdog of x does, as far as the invariants can tell.
WatchdogEffect(x) ==
  LET old == res[x]
      new == res'[x]
  IN /\ UNCHANGED <<rr, cr, runs, we, sh, qlist, cpuchg>>
     /\ res' = [res EXCEPT ![x] = res'[x]]
     /\ new.proc = old.proc /\ new.stray = "no" /\ new.flags = old.flags
     /\ new.obj => old.obj
     /\ new.retries >= old.retries
     /\ \/ /\ old.wd = "watch" /\ old.proc # "alive" /\ UNCHANGED where
           /\ new.obj = old.obj /\ new.quar = old.quar
           /\ \/ new.wd = "dead" /\ new.pstate = old.pstate /\ ~old.obj
              \/ new.wd \in Moving /\ new.pstate = "ended" /\ (old.flags = {} => new.wd \notin Leaving)
        \/ /\ old.wd \in Moving /\ new.wd \in Moving \ Leaving /\ new.pstate = old.pstate /\ UNCHANGED where
           /\ new.quar = old.quar
        \/ /\ old.wd \in Moving /\ new.wd \notin Moving \union {"watch", "none"} /\ new.pstate = old.pstate
           /\ new.wd = "delist" => old.wd \in Leaving
           /\ \E dir \in Dirs \ {"online"} :
                 Moved(Used(x), dir) /\ new.quar \in IF dir = "quarantined" THEN {old.quar, old.quar \union Used(x)}
                                                    ELSE {old.quar}
        \/ /\ old.wd \in {"rmMark", "mark", "flag", "delist"} /\ new.wd \in {"mark", "flag", "dead"} 
           /\ new.pstate = old.pstate /\ UNCHANGED where
           /\ new.obj = old.obj /\ new.quar = old.quar /\ new.retries = old.retries
     /\ \A r \in Runs : /\ run'[r].marker = run[r].marker /\ run'[r].ongoing = run[r].ongoing
                        /\ run'[r].joinl = run[r].joinl
                        /\ old.wd # "delist" => run'[r].online = run[r].online

LEMMA WatchdogEffects ==
  ASSUME StateInv, NEW x \in Res, res[x].stray = "no", WatchdogNext(x)
  PROVE  WatchdogEffect(x)
<1>1. /\ res \in [Res -> ResState] /\ res[x] \in ResState /\ MayCount(res[x])
      /\ run \in [Runs -> RunState] /\ x[1] \in Runs /\ run[x[1]] \in RunState
      /\ StateAfter(x) = "ended" /\ ReturnCode(x) = res[x].proc /\ (Ended(x) => res[x].proc # "alive" /\ res[x].wd = "watch")
      /\ \A S, dir : MoveTo(S, dir) => Moved(S, dir)
      /\ ReleasePc(x) \in Leaving /\ (Deactivated(x) => res[x].flags # {})
      /\ RetryLimit \in Nat /\ res[x].retries \in 0 .. RetryLimit
  BY ResType, StateAssumption DEF StateInv, StateTypeOK, RetriesLeft, StateAfter, ReturnCode, Ended, MoveTo, Moved,
       ReleasePc, Leaving, Deactivated, ResState
<1>2. res' = [res EXCEPT ![x] = res'[x]] /\ res'[x] \in ResState
  BY WatchdogRes
<1>3. \A r \in Runs : /\ run'[r].marker = run[r].marker /\ run'[r].ongoing = run[r].ongoing
                      /\ run'[r].joinl = run[r].joinl
                      /\ res[x].wd # "delist" => run'[r].online = run[r].online
  <2>1. \/ UNCHANGED run
        \/ \E b \in BOOLEAN : run' = [run EXCEPT ![x[1]].endfile = b] \/ run' = [run EXCEPT ![x[1]].qfile = b]
        \/ res[x].wd = "delist" /\ run' = [run EXCEPT ![x[1]].online = @ \ {Cpu(x)}]
    BY DEF WatchdogNext, WatchdogLost, WatchdogAborted, WatchdogError, WatchdogSuccess,
         WatchdogStopSeen, WatchdogToIdle, WatchdogToBroken, WatchdogToQuarantined,
         WatchdogRemoveMark, WatchdogMark, WatchdogFlag, WatchdogDelete, WatchdogRelease, WatchdogDelist
  <2>2. CASE UNCHANGED run
    BY <2>2
  <2>3. ASSUME NEW b \in BOOLEAN, run' = [run EXCEPT ![x[1]].endfile = b] \/ run' = [run EXCEPT ![x[1]].qfile = b]
        PROVE  \A r \in Runs : /\ run'[r].marker = run[r].marker /\ run'[r].ongoing = run[r].ongoing
                               /\ run'[r].joinl = run[r].joinl /\ run'[r].online = run[r].online
    BY <1>1, <2>3 DEF RunState
  <2>4. CASE res[x].wd = "delist" /\ run' = [run EXCEPT ![x[1]].online = @ \ {Cpu(x)}]
    BY <1>1, <2>4 DEF RunState
  <2> QED  BY <2>1, <2>2, <2>3, <2>4
<1>4. UNCHANGED <<rr, cr, runs, we, sh, qlist, cpuchg>>
  BY DEF WatchdogNext, WatchdogLost, WatchdogAborted, WatchdogError, WatchdogSuccess,
         WatchdogStopSeen, WatchdogToIdle, WatchdogToBroken, WatchdogToQuarantined,
         WatchdogRemoveMark, WatchdogMark, WatchdogFlag, WatchdogDelete, WatchdogRelease, WatchdogDelist
<1>5. ASSUME NEW v \in ResState
      PROVE  /\ \A p, q : LET n == [v EXCEPT !.pstate = p, !.stray = "no", !.wd = q]
                          IN /\ n.pstate = p /\ n.stray = "no" /\ n.wd = q /\ n.proc = v.proc /\ n.obj = v.obj
                             /\ n.flags = v.flags /\ n.quar = v.quar /\ n.retries = v.retries
             /\ \A p, q, k : LET n == [v EXCEPT !.pstate = p, !.retries = k, !.wd = q]
                             IN /\ n.pstate = p /\ n.stray = v.stray /\ n.wd = q /\ n.proc = v.proc /\ n.obj = v.obj
                                /\ n.flags = v.flags /\ n.quar = v.quar /\ n.retries = k
  BY ZenonT(60) DEF ResState
<1>6. CASE WatchdogLost(x)
  <2>1. res'[x] = [res[x] EXCEPT !.wd = "dead", !.stray = "no"] /\ UNCHANGED where
    BY <1>1, <1>6 DEF WatchdogLost
  <2>3. /\ res'[x].pstate = res[x].pstate /\ res'[x].stray = "no" /\ res'[x].wd = "dead" /\ res'[x].proc = res[x].proc
        /\ res'[x].obj = res[x].obj /\ res'[x].flags = res[x].flags /\ res'[x].quar = res[x].quar
        /\ res'[x].retries = res[x].retries
    BY <1>1, <1>5, <2>1 DEF ResState
  <2> QED  BY <1>1, <1>2, <1>3, <1>4, <1>6, <2>1, <2>3 DEF WatchdogLost, WatchdogEffect
<1>7. CASE WatchdogAborted(x)
  <2> DEFINE pc == IF Deactivated(x) THEN ReleasePc(x) ELSE "toIdle"
  <2>1. res'[x] = [res[x] EXCEPT !.pstate = "ended", !.stray = "no", !.wd = pc]
    BY <1>1, <1>7 DEF WatchdogAborted
  <2>2. pc \in Moving /\ (res[x].flags = {} => pc \notin Leaving)
    BY <1>1 DEF Moving, Leaving
  <2> HIDE DEF pc
  <2>3. /\ res'[x].pstate = "ended" /\ res'[x].stray = "no" /\ res'[x].wd = pc /\ res'[x].proc = res[x].proc
        /\ res'[x].obj = res[x].obj /\ res'[x].flags = res[x].flags /\ res'[x].quar = res[x].quar
        /\ res'[x].retries = res[x].retries
    BY <1>1, <1>5, <2>1
  <2>4. Ended(x) /\ UNCHANGED where
    BY <1>7 DEF WatchdogAborted
  <2> QED  BY <1>1, <1>2, <1>3, <1>4, <2>2, <2>3, <2>4 DEF WatchdogEffect
<1>8. CASE WatchdogError(x)
  <2> DEFINE tries == IF ReturnCode(x) = "quit" /\ ~Deactivated(x) THEN RetryLimit ELSE res[x].retries
             pc == IF Deactivated(x) THEN ReleasePc(x)
                   ELSE IF MayRetry(tries) THEN "sleep" ELSE "toQuar"
  <2>1. res'[x] = [res[x] EXCEPT !.pstate = "ended", !.retries = tries, !.wd = pc] /\ UNCHANGED where
    BY <1>1, <1>8 DEF WatchdogError
  <2>2. pc \in Moving /\ (res[x].flags = {} => pc \notin Leaving) /\ tries >= res[x].retries
    BY <1>1 DEF Moving, Leaving
  <2> HIDE DEF pc, tries
  <2>3. /\ res'[x].pstate = "ended" /\ res'[x].stray = "no" /\ res'[x].wd = pc /\ res'[x].proc = res[x].proc
        /\ res'[x].obj = res[x].obj /\ res'[x].flags = res[x].flags /\ res'[x].quar = res[x].quar
        /\ res'[x].retries = tries
    BY <1>1, <1>5, <2>1
  <2> QED  BY <1>1, <1>2, <1>3, <1>4, <1>8, <2>1, <2>2, <2>3 DEF WatchdogError, WatchdogEffect
<1>9. CASE WatchdogSuccess(x)
  <2> DEFINE pc == IF Deactivated(x) THEN ReleasePc(x) ELSE "stopwait"
  <2>1. res'[x] = [res[x] EXCEPT !.pstate = "ended", !.stray = "no", !.wd = pc]
    BY <1>1, <1>9 DEF WatchdogSuccess
  <2>2. pc \in Moving /\ (res[x].flags = {} => pc \notin Leaving)
    BY <1>1 DEF Moving, Leaving
  <2> HIDE DEF pc
  <2>3. /\ res'[x].pstate = "ended" /\ res'[x].stray = "no" /\ res'[x].wd = pc /\ res'[x].proc = res[x].proc
        /\ res'[x].obj = res[x].obj /\ res'[x].flags = res[x].flags /\ res'[x].quar = res[x].quar
        /\ res'[x].retries = res[x].retries
    BY <1>1, <1>5, <2>1
  <2>4. Ended(x) /\ UNCHANGED where
    BY <1>9 DEF WatchdogSuccess
  <2> QED  BY <1>1, <1>2, <1>3, <1>4, <2>2, <2>3, <2>4 DEF WatchdogEffect
<1> USE DEF ResState
<1>10. CASE WatchdogStopSeen(x)
  BY <1>1, <1>2, <1>3, <1>4, <1>10 DEF WatchdogStopSeen, WatchdogEffect, Moving, Leaving
<1>11. CASE WatchdogToIdle(x)
  BY <1>1, <1>2, <1>3, <1>4, <1>11 DEF WatchdogToIdle, WatchdogEffect, Moving, Leaving, Dirs, Watched
<1>12. CASE WatchdogToBroken(x)
  BY <1>1, <1>2, <1>3, <1>4, <1>12 DEF WatchdogToBroken, WatchdogEffect, Moving, Leaving, Dirs, Watched
<1>13. CASE WatchdogToQuarantined(x)
  BY <1>1, <1>2, <1>3, <1>4, <1>13 DEF WatchdogToQuarantined, WatchdogEffect, Moving, Leaving, Dirs, Watched
<1>14. CASE WatchdogDelete(x)
  BY <1>1, <1>2, <1>3, <1>4, <1>14 DEF WatchdogDelete, WatchdogEffect, Moving, Leaving, Dirs, Watched
<1>15. CASE WatchdogRelease(x)
  BY <1>1, <1>2, <1>3, <1>4, <1>15 DEF WatchdogRelease, WatchdogEffect, Moving, Leaving, Dirs, Watched
<1>16. CASE WatchdogRemoveMark(x)
  BY <1>1, <1>2, <1>3, <1>4, <1>16 DEF WatchdogRemoveMark, WatchdogEffect
<1>17. CASE WatchdogMark(x)
  BY <1>1, <1>2, <1>3, <1>4, <1>17 DEF WatchdogMark, WatchdogEffect
<1>18. CASE WatchdogFlag(x)
  BY <1>1, <1>2, <1>3, <1>4, <1>18 DEF WatchdogFlag, WatchdogEffect
<1>19. CASE WatchdogDelist(x)
  BY <1>1, <1>2, <1>3, <1>4, <1>19 DEF WatchdogDelist, WatchdogEffect
<1> QED  BY <1>6, <1>7, <1>8, <1>9, <1>10, <1>11, <1>12, <1>13, <1>14, <1>15, <1>16, <1>17, <1>18, <1>19 DEF WatchdogNext

\* Cores that stay in use are not touched by a move of other cores.
LEMMA OthersStay ==
  ASSUME where \in [Cores -> Dirs], NEW S, NEW dir, Moved(S, dir), NEW T \in SUBSET In("online"), S \cap T = {}
  PROVE  T \subseteq In("online")'
BY DEF Moved, In

\* A step after which nothing else is in use, and what is stays online.
LEMMA HoldersStay ==
  ASSUME OneHolder, \A x \in Res : Held(x)' => Held(x) /\ Cpu(x) \subseteq In("online")'
  PROVE  OneHolder'
BY DEF OneHolder

\* A step that concerns the ends of processes only.
LEMMA HeldQuiet ==
  ASSUME StateInv, HeldInv,
         \A x \in Res : /\ res'[x].wd = res[x].wd /\ res'[x].pstate = res[x].pstate
                        /\ res'[x].stray = res[x].stray
                        /\ Alive(x)' => Alive(x)
                        /\ Starting(x)' => Starting(x),
         UNCHANGED where \/ \E S, dir : Moved(S, dir) /\ S \cap In("online") = {}
  PROVE  HeldInv'
<1>1. \A x \in Res : Held(x)' => Held(x)
  BY DEF Held
<1>2. \A x \in Res : Held(x) => Cpu(x) \subseteq In("online")'
  <2>1. CASE UNCHANGED where
    BY <2>1 DEF HeldInv, OneHolder, In
  <2>2. ASSUME NEW S, NEW dir, Moved(S, dir), S \cap In("online") = {}, NEW x \in Res, Held(x)
        PROVE  Cpu(x) \subseteq In("online")'
    BY <2>2, OthersStay DEF HeldInv, OneHolder, StateInv, StateTypeOK
  <2> QED  BY <2>1, <2>2
<1>3. OneHolder'
  BY <1>1, <1>2, HoldersStay DEF HeldInv
<1> QED  BY <1>3 DEF HeldInv, MovesInOrder

LEMMA HeldWatchdog ==
  ASSUME StateInv, HeldInv, NEW x \in Res, WatchdogNext(x)
  PROVE  HeldInv'
<1>1. res \in [Res -> ResState] /\ where \in [Cores -> Dirs] /\ MovesInOrder /\ OneHolder
  BY DEF StateInv, StateTypeOK, HeldInv
<1>2. WatchdogEffect(x)
  BY <1>1, WatchdogEffects DEF MovesInOrder
<1>3. /\ \A y \in Res : Starting(y)' <=> Starting(y)
      /\ \A y \in Res \ {x} : res'[y] = res[y] /\ (Held(y)' <=> Held(y))
      /\ Alive(x)' <=> Alive(x)
  BY <1>1, <1>2 DEF WatchdogEffect, Starting, Alive, Held
<1>4. MovesInOrder'
  <2>1. res'[x].stray = "no"
    BY <1>2 DEF WatchdogEffect
  <2>2. res'[x].wd # "watch"
    BY <1>2 DEF WatchdogEffect, Moving, Leaving
  <2>3. res'[x].wd \in Moving => ~Alive(x)' /\ res'[x].pstate # "running" /\ ~Starting(x)'
    BY <1>1, <1>2, <1>3 DEF WatchdogEffect, MovesInOrder, Moving, Leaving, Alive
  <2> QED  BY <1>1, <1>3, <2>1, <2>2, <2>3 DEF MovesInOrder, Alive
<1>5. Held(x)' => Held(x)
  BY <1>2, <1>3 DEF WatchdogEffect, Held, Moving, Leaving
<1>6. CASE UNCHANGED where
  <2>1. \A y \in Res : Held(y)' => Held(y)
    BY <1>3, <1>5
  <2>2. \A y \in Res : Held(y) => Cpu(y) \subseteq In("online")'
    BY <1>1, <1>6 DEF OneHolder, In
  <2>3. OneHolder'
    BY <1>1, <2>1, <2>2, HoldersStay
  <2> QED  BY <1>4, <2>3 DEF HeldInv
<1>7. ASSUME NEW dir \in Dirs \ {"online"}, Moved(Used(x), dir), res[x].wd \in Moving,
             res'[x].wd \notin Moving \union {"watch"}, res'[x].pstate = res[x].pstate
      PROVE  OneHolder'
  <2>1. Held(x) /\ ~Held(x)'
    BY <1>1, <1>3, <1>7 DEF Held, MovesInOrder
  <2>2. ASSUME NEW y \in Res, Held(y)'  PROVE  Held(y) /\ Cpu(y) \subseteq In("online")'
    <3>1. Held(y) /\ Cpu(y) \in SUBSET In("online") /\ Used(x) \cap Cpu(y) = {}
      BY <1>1, <1>3, <2>1, <2>2 DEF OneHolder, Used
    <3> QED  BY <1>1, <1>7, <3>1, OthersStay
  <2> QED  BY <1>1, <2>2, HoldersStay
<1>8. CASE ~UNCHANGED where
  BY <1>2, <1>4, <1>7, <1>8 DEF WatchdogEffect, HeldInv
<1> QED  BY <1>6, <1>8

-----------------------------------------------------------------------------
(* The ResourceRanger *)

\* It never finds a running process on a core file that is not in online.
LEMMA NoOwner ==
  ASSUME StateInv, HeldInv, NEW c \in Cores, NEW r, where[c] # "online"
  PROVE  Owners(c, r) = {}
<1> SUFFICES ASSUME NEW y \in Owners(c, r)  PROVE  FALSE
  OBVIOUS
<1>1. PICK i \in DOMAIN runs : y \in OwnersIn(c, r, runs[i])
  BY DEF Owners
<1>2. PICK g \in run[runs[i]].online : y = <<runs[i], g>> /\ c \in g /\ res[<<runs[i], g>>].pstate = "running"
  BY <1>1 DEF OwnersIn
<1>3. y \in Res /\ Cpu(y) = g
  BY <1>2 DEF StateInv, StateTypeOK, RunState, Res, Cpu
<1> QED  BY <1>2, <1>3 DEF HeldInv, OneHolder, Held, In

LEMMA TakesNoOwner ==
  ASSUME StateInv, HeldInv, RangerTake
  PROVE  \/ UNCHANGED rr
         \/ rr'.pc = "acquire" /\ rr'.run = LastOngoingRun /\ rr'.dir # "quarantined"
<1>1. events \in Seq(Event) /\ events # <<>>
  BY DEF RangerTake, StateInv, StateTypeOK
<1>2. Head(events) \in Event
  BY <1>1, HeadTailProperties
<1>3. where[Head(events).core] = Head(events).dir => Owners(Head(events).core, LastOngoingRun) = {}
  BY <1>2, NoOwner DEF Event, Watched
<1> QED  BY <1>3 DEF RangerTake, Taken

\* The three steps in which a process is given cores and started, and the others.
AcquireEffect(g) ==
  /\ rr.pc = "acquire" /\ rr.run \in Runs /\ <<rr.run, g>> \in Res /\ g # {} /\ g \subseteq In(rr.dir)
  /\ rr'.pc = "start" /\ rr'.run = rr.run /\ rr'.res = <<rr.run, g>>
  /\ Moved(g, "online")
  /\ \A x \in Res : res'[x] = IF x = <<rr.run, g>> /\ g \notin run[rr.run].online THEN NewRes ELSE res[x]
  /\ \A r \in Runs : /\ run'[r].marker = run[r].marker /\ run'[r].ongoing = run[r].ongoing
                     /\ run'[r].online = IF r = rr.run THEN run[r].online \union {g} ELSE run[r].online
                     /\ run'[r].joinl = IF r = rr.run THEN run[r].joinl \union {g} ELSE run[r].joinl
                     /\ we'[r].pc = we[r].pc /\ we'[r].cut = we[r].cut /\ we'[r].cur = we[r].cur
                     /\ we'[r].seen \subseteq we[r].seen
StartEffect ==
  /\ rr.pc = "start" /\ rr.res[2] \in run[rr.run].online /\ UNCHANGED <<where, run, we>>
  /\ \/ rr' = RangerIdle
     \/ rr'.pc = "rejoin" /\ rr'.run = rr.run /\ rr'.res = rr.res
  /\ \A x \in Res \ {rr.res} : res'[x] = res[x]
  /\ rr.res \in Res =>
       LET old == res[rr.res]
           new == res'[rr.res]
       IN /\ new.obj /\ new.proc = "alive" /\ (old.wd # "watch" => new.stray = "no")
          /\ new.flags = {} /\ new.retries = old.retries /\ new.quar = old.quar
          /\ IF old.wd = "none" THEN rr' = RangerIdle /\ new.pstate = "running" /\ new.wd = "watch"
             ELSE /\ rr'.pc = "rejoin" /\ new.pstate = old.pstate /\ new.wd = old.wd
RestartEffect ==
  /\ rr.pc = "rejoin" /\ rr' = RangerIdle /\ UNCHANGED <<where, run, we>>
  /\ \A x \in Res \ {rr.res} : res'[x] = res[x]
  /\ rr.res \in Res =>
       LET old == res[rr.res]
           new == res'[rr.res]
       IN /\ new.obj = old.obj /\ new.proc = old.proc /\ new.stray = old.stray /\ new.flags = old.flags
          /\ new.retries = old.retries /\ new.quar = old.quar
          /\ old.wd \in {"none", "dead"} /\ new.pstate = "running"
          /\ new.wd = IF old.obj THEN "watch" ELSE "none"
OtherEffect ==
  /\ rr'.pc \in {"wait", "stop", "join", "acquire"} /\ UNCHANGED <<run, we>>
  /\ rr'.pc = "acquire" => rr' = rr \/ RangerTake \/ rr.pc = "join"
  /\ rr'.pc \in {"stop", "join"} => RangerTake \/ rr.pc \in {"stop", "join"}
  /\ rr.pc = "rejoin" => FALSE
  /\ rr.pc = "start" => rr.res[2] \notin run[rr.run].online
  /\ UNCHANGED where \/ \E S \in SUBSET In("except") : Moved(S, "idle")
  /\ \A x \in Res : /\ res'[x].obj = res[x].obj /\ res'[x].proc = res[x].proc /\ res'[x].stray = res[x].stray
                    /\ res'[x].pstate = res[x].pstate /\ res'[x].wd = res[x].wd
                    /\ res'[x].retries = res[x].retries /\ res'[x].quar = res[x].quar
                    /\ rr.pc # "stop" => res'[x].flags = res[x].flags

LEMMA AcquireEffects ==
  ASSUME StateInv, RangerAcquire
  PROVE  \E g : AcquireEffect(g)
<1>1. /\ rr \in RangerState /\ res \in [Res -> ResState] /\ run \in [Runs -> RunState] /\ we \in [Runs -> EndState]
      /\ rr.run \in Runs /\ rr.pc = "acquire" /\ NStreams \in Nat \ {0}
  BY StateAssumption DEF StateInv, StateTypeOK, RangerState, RangerAcquire
<1>2. PICK g \in Startable(rr.run, In(rr.dir)) :
        AcquireResource(rr.run, g) /\ rr' = [rr EXCEPT !.pc = "start", !.res = <<rr.run, g>>]
  BY DEF RangerAcquire
<1>3. g \in Groups /\ rr.core \in g /\ g \subseteq In(rr.dir)
  BY <1>1, <1>2 DEF Startable, Matched, RunState
<1>4. <<rr.run, g>> \in Res
  BY <1>1, <1>3 DEF Res
<1>5. rr'.pc = "start" /\ rr'.run = rr.run /\ rr'.res = <<rr.run, g>>
  BY <1>1, <1>2 DEF RangerState
<1>6. Moved(g, "online")
  BY <1>2 DEF AcquireResource, MoveTo, Moved
<1>7. \A x \in Res : res'[x] = IF x = <<rr.run, g>> /\ g \notin run[rr.run].online THEN NewRes ELSE res[x]
  BY <1>1, <1>2, <1>4 DEF AcquireResource
<1>8. \A r \in Runs : /\ run'[r].marker = run[r].marker /\ run'[r].ongoing = run[r].ongoing
                      /\ run'[r].online = IF r = rr.run THEN run[r].online \union {g} ELSE run[r].online
                      /\ run'[r].joinl = IF r = rr.run THEN run[r].joinl \union {g} ELSE run[r].joinl
  <2>1. run' = [run EXCEPT ![rr.run] = [run[rr.run] EXCEPT !.online = run[rr.run].online \union {g},
                                                           !.joinl = run[rr.run].joinl \union {g}]]
    BY <1>1, <1>2 DEF AcquireResource
  <2>2. run[rr.run] \in RunState
    BY <1>1
  <2> QED  BY <1>1, <2>1, <2>2 DEF RunState
<1>9. \A r \in Runs : /\ we'[r].pc = we[r].pc /\ we'[r].cut = we[r].cut /\ we'[r].cur = we[r].cur
                      /\ we'[r].seen \subseteq we[r].seen
  <2>1. we' = we \/ we' = [we EXCEPT ![rr.run] = [we[rr.run] EXCEPT !.seen = we[rr.run].seen \ {g}]]
    BY <1>1, <1>2 DEF AcquireResource
  <2>2. we[rr.run] \in EndState
    BY <1>1
  <2>4. \A r \in Runs \ {rr.run} : we'[r] = we[r]
    BY <1>1, <2>1
  <2>5. we'[rr.run] = we[rr.run] \/ we'[rr.run] = [we[rr.run] EXCEPT !.seen = we[rr.run].seen \ {g}]
    BY <1>1, <2>1
  <2>6. /\ we'[rr.run].pc = we[rr.run].pc /\ we'[rr.run].cut = we[rr.run].cut
        /\ we'[rr.run].cur = we[rr.run].cur /\ we'[rr.run].seen \subseteq we[rr.run].seen
    BY <2>2, <2>5 DEF EndState
  <2> QED  BY <2>4, <2>6
<1>10. g # {} /\ UNCHANGED <<cr, runs, sh, qlist, cpuchg>>
  BY <1>3 DEF RangerAcquire
<1>11. AcquireEffect(g)
  BY <1>1, <1>3, <1>4, <1>5, <1>6, <1>7, <1>8, <1>9, <1>10 DEF AcquireEffect
<1> QED  BY <1>11

LEMMA WatchFields ==
  ASSUME NEW o \in ResState
  PROVE  LET w == Watch(o)
         IN /\ w.obj = o.obj /\ w.proc = o.proc /\ w.stray = o.stray /\ w.flags = o.flags
            /\ w.retries = o.retries /\ w.quar = o.quar /\ w.pstate = "running" /\ w.wd = "watch"
BY DEF Watch, ResState

LEMMA ForkedFields ==
  ASSUME NEW o \in ResState
  PROVE  LET n == Forked(o)
         IN /\ n.obj /\ n.proc = "alive" /\ (o.wd # "watch" => n.stray = "no") /\ n.flags = {}
            /\ n.retries = o.retries /\ n.quar = o.quar /\ n.pstate = o.pstate /\ n.wd = o.wd
BY ZenonT(60) DEF Forked, ResState

LEMMA StartEffects ==
  ASSUME StateInv, RangerStart
  PROVE  StartEffect
<1>1. rr \in RangerState /\ res \in [Res -> ResState] /\ rr.pc = "start" /\ rr.res[2] \in run[rr.run].online
  BY DEF StateInv, StateTypeOK, RangerStart
<1>2. Handle("rejoin") => rr'.pc = "rejoin" /\ rr'.run = rr.run /\ rr'.res = rr.res
  BY <1>1 DEF Handle, RangerState
<1>3. \A x \in Res \ {rr.res} : res'[x] = res[x]
  BY <1>1 DEF RangerStart
<1>4. ASSUME rr.res \in Res
      PROVE  res'[rr.res] = IF res[rr.res].wd = "none" THEN Watch(Forked(res[rr.res])) ELSE Forked(res[rr.res])
  BY <1>1, <1>4 DEF RangerStart
<1>5. ASSUME NEW old \in ResState
      PROVE  LET n == Forked(old)
                 w == Watch(n)
             IN /\ n.obj /\ n.proc = "alive" /\ (old.wd # "watch" => n.stray = "no") /\ n.flags = {}
                /\ n.retries = old.retries /\ n.quar = old.quar /\ n.pstate = old.pstate /\ n.wd = old.wd
                /\ w.obj = n.obj /\ w.proc = n.proc /\ w.stray = n.stray /\ w.flags = n.flags
                /\ w.retries = n.retries /\ w.quar = n.quar /\ w.pstate = "running" /\ w.wd = "watch"
  BY WatchFields, ForkedFields, StartType, SMTT(60)
<1>6. /\ UNCHANGED <<where, run, we>>
      /\ IF res[rr.res].wd = "none" THEN rr' = RangerIdle ELSE Handle("rejoin")
  BY DEF RangerStart
<1>7. CASE rr.res \notin Res
  BY <1>1, <1>2, <1>3, <1>6, <1>7 DEF StartEffect
<1>8. CASE rr.res \in Res
  BY <1>1, <1>2, <1>3, <1>4, <1>5, <1>6, <1>8 DEF StartEffect
<1> QED  BY <1>7, <1>8

LEMMA RestartEffects ==
  ASSUME StateInv, RangerRestarted
  PROVE  RestartEffect
<1>1. res \in [Res -> ResState] /\ rr.pc = "rejoin" /\ rr' = RangerIdle /\ UNCHANGED <<where, run, we>>
      /\ NoWatchdog(rr.res)
  BY DEF StateInv, StateTypeOK, RangerRestarted
<1>2. \A x \in Res \ {rr.res} : res'[x] = res[x]
  BY <1>1 DEF RangerRestarted
<1>4. ASSUME rr.res \in Res
      PROVE  LET o == res[rr.res]
             IN res'[rr.res] = IF o.obj THEN Watch(o) ELSE [o EXCEPT !.pstate = "running", !.wd = "none"]
  BY <1>1, <1>4 DEF RangerRestarted
<1>5. CASE rr.res \notin Res
  BY <1>1, <1>2, <1>5 DEF RestartEffect
<1>6. CASE rr.res \in Res
  <2>1. res[rr.res] \in ResState /\ res[rr.res].wd \in {"none", "dead"}
    BY <1>1, <1>6 DEF NoWatchdog
  <2> DEFINE o == res[rr.res]
  <2>2. CASE o.obj
    <3>1. res'[rr.res] = Watch(o)
      BY <1>4, <1>6, <2>2
    <3> QED  BY <1>1, <1>2, <2>1, <2>2, <3>1, WatchFields, ZenonT(60) DEF RestartEffect
  <2>3. CASE ~o.obj
    <3>1. res'[rr.res] = [o EXCEPT !.pstate = "running", !.wd = "none"]
      BY <1>4, <1>6, <2>3
    <3>2. LET w == res'[rr.res]
          IN /\ w.obj = o.obj /\ w.proc = o.proc /\ w.stray = o.stray /\ w.flags = o.flags
             /\ w.retries = o.retries /\ w.quar = o.quar /\ w.pstate = "running" /\ w.wd = "none"
      BY <2>1, <3>1 DEF ResState
    <3> QED  BY <1>1, <1>2, <2>1, <2>3, <3>2 DEF RestartEffect
  <2> QED  BY <2>2, <2>3
<1> QED  BY <1>5, <1>6

LEMMA OtherEffects ==
  ASSUME StateInv, RangerTake \/ RangerStop \/ RangerJoined \/ RangerJoinTimeout \/ RangerSkip
                   \/ RangerUnbreak \/ RangerStartFails
  PROVE  OtherEffect /\ UNCHANGED <<cr, runs, sh, qlist, cpuchg>>
<1>1. rr \in RangerState /\ res \in [Res -> ResState]
  BY DEF StateInv, StateTypeOK
<1>2. /\ \A pc : Handle(pc) => rr'.pc = pc
      /\ RangerDone => rr'.pc = "wait"
      /\ \A pc, x : Taken(pc, x) => rr'.pc = pc
  BY <1>1 DEF Handle, RangerState, RangerDone, RangerIdle, Taken
<1>3. CASE RangerStop
  <2>1. PICK fl : StopWith(rr.res, fl)
    BY <1>3 DEF RangerStop
  <2>2. \A x \in Res : /\ res'[x].obj = res[x].obj /\ res'[x].proc = res[x].proc /\ res'[x].stray = res[x].stray
                       /\ res'[x].pstate = res[x].pstate /\ res'[x].wd = res[x].wd
                       /\ res'[x].retries = res[x].retries /\ res'[x].quar = res[x].quar
    BY <1>1, <2>1 DEF StopWith, ResState
  <2> QED  BY <1>2, <1>3, <2>2 DEF RangerStop, OtherEffect
<1>4. CASE RangerTake
  <2>1. /\ rr.pc = "wait" /\ UNCHANGED <<where, run, we, res, cr, runs, sh, qlist, cpuchg>>
        /\ rr'.pc \in {"wait", "stop", "acquire"}
    BY <1>2, <1>4 DEF RangerTake
  <2> QED  BY <1>4, <2>1 DEF OtherEffect
<1>5. CASE RangerJoined \/ RangerJoinTimeout
  BY <1>2, <1>5 DEF RangerJoined, RangerJoinTimeout, RangerJoinReturns, OtherEffect
<1>6. CASE RangerSkip \/ RangerStartFails
  BY <1>2, <1>6 DEF RangerSkip, RangerStartFails, OtherEffect
<1>7. CASE RangerUnbreak
  <2>1. UNCHANGED where \/ \E S \in SUBSET In("except") : Moved(S, "idle")
    BY <1>7 DEF RangerUnbreak, MoveTo, Moved
  <2> QED  BY <1>2, <1>7, <2>1 DEF RangerUnbreak, OtherEffect
<1> QED  BY <1>3, <1>4, <1>5, <1>6, <1>7

LEMMA HeldRanger ==
  ASSUME StateInv, HeldInv, RangerNext \/ RangerJoinTimeout
  PROVE  HeldInv'
<1>1. /\ where \in [Cores -> Dirs] /\ MovesInOrder /\ OneHolder
      /\ rr \in RangerState /\ rr.dir \in Watched /\ RangerIdle.pc = "wait"
  BY DEF StateInv, StateTypeOK, HeldInv, RangerState, RangerIdle
<1>2. CASE RangerTake \/ RangerStop \/ RangerJoined \/ RangerJoinTimeout \/ RangerSkip \/ RangerUnbreak
           \/ RangerStartFails
  <2>1. OtherEffect
    BY <1>2, OtherEffects
  <2>2. UNCHANGED where \/ \E S, dir : Moved(S, dir) /\ S \cap In("online") = {}
    BY <2>1 DEF OtherEffect, In
  <2> QED  BY <2>1, <2>2, HeldQuiet DEF OtherEffect, Alive, Starting
<1>3. CASE RangerAcquire
  <2>1. PICK g : AcquireEffect(g)
    BY <1>3, AcquireEffects
  <2> DEFINE x == <<rr.run, g>>
  <2>2. x \in Res /\ Cpu(x) = g /\ g \cap In("online") = {} /\ g # {}
    BY <1>1, <2>1 DEF AcquireEffect, Cpu, In, Watched
  <2>3. ~Held(x)
    BY <1>1, <2>2 DEF OneHolder
  <2>4. \A y \in Res : (Starting(y)' <=> y = x) /\ ~Starting(y)
    BY <2>1 DEF AcquireEffect, Starting
  <2>5. /\ res'[x].stray = "no" /\ res'[x].wd \notin Moving \union {"watch"}
        /\ \A y \in Res \ {x} : res'[y] = res[y]
    BY <1>1, <2>1, <2>2, <2>3 DEF AcquireEffect, MovesInOrder, Held, NewRes, Moving, Leaving
  <2> HIDE DEF x
  <2>6. MovesInOrder'
    BY <1>1, <2>4, <2>5 DEF MovesInOrder, Alive
  <2>7. \A y \in Res : Held(y)' => Held(y) \/ y = x
    BY <2>4, <2>5 DEF Held, Alive
  <2>8. \A y \in Res : Held(y) => Cpu(y) \subseteq In("online")' /\ Cpu(y) \cap g = {}
    <3> SUFFICES ASSUME NEW y \in Res, Held(y)  PROVE  Cpu(y) \subseteq In("online")' /\ Cpu(y) \cap g = {}
      OBVIOUS
    <3>1. Cpu(y) \in SUBSET In("online")
      BY <1>1 DEF OneHolder
    <3> QED  BY <1>1, <2>1, <2>2, <3>1, OthersStay DEF AcquireEffect
  <2>9. g \subseteq In("online")'
    BY <2>1, <2>2 DEF AcquireEffect, Moved, In
  <2>10. OneHolder'
    BY <1>1, <2>2, <2>7, <2>8, <2>9 DEF OneHolder
  <2> QED  BY <2>6, <2>10 DEF HeldInv
<1>4. CASE RangerStart \/ RangerRestarted
  <2>0. PICK x : x = rr.res
    OBVIOUS
  <2>1. StartEffect \/ RestartEffect
    BY <1>4, StartEffects, RestartEffects
  <2>2. UNCHANGED where /\ \A y \in Res \ {x} : res'[y] = res[y] /\ ~Starting(y)' /\ ~Starting(y)
    BY <1>1, <2>0, <2>1 DEF StartEffect, RestartEffect, Starting
  <2>3. ASSUME x \in Res
        PROVE  /\ Held(x) /\ res'[x].stray = "no" /\ res'[x].wd \notin Moving
               /\ res'[x].wd = "watch" => ~Starting(x)'
    <3>1. Starting(x)
      BY <1>1, <2>0, <2>1, <2>3 DEF StartEffect, RestartEffect, Starting
    <3>2. res[x].wd \notin Moving \union {"watch"} /\ res[x].stray = "no"
      BY <1>1, <2>3, <3>1 DEF MovesInOrder
    <3>3. CASE StartEffect
      BY <1>1, <2>0, <2>3, <3>1, <3>2, <3>3 DEF StartEffect, Held, Starting, Moving, Leaving
    <3>4. CASE RestartEffect
      BY <1>1, <2>0, <2>3, <3>1, <3>2, <3>4 DEF RestartEffect, Held, Starting, Moving, Leaving
    <3> QED  BY <2>1, <3>3, <3>4
  <2>4. MovesInOrder'
    <3> SUFFICES ASSUME NEW y \in Res
                 PROVE  /\ res'[y].stray = "no"
                        /\ res'[y].wd \in Moving => ~Alive(y)' /\ res'[y].pstate # "running" /\ ~Starting(y)'
                        /\ res'[y].wd = "watch" => ~Starting(y)'
      BY DEF MovesInOrder
    <3>1. CASE y = x
      BY <2>3, <3>1
    <3>2. CASE y # x
      BY <1>1, <2>2, <3>2 DEF MovesInOrder, Alive
    <3> QED  BY <3>1, <3>2
  <2>5. \A y \in Res : Held(y)' => Held(y)
    BY <2>2, <2>3 DEF Held, Alive
  <2>6. \A y \in Res : Held(y) => Cpu(y) \subseteq In("online")'
    BY <1>1, <2>2 DEF OneHolder, In
  <2>7. OneHolder'
    BY <1>1, <2>5, <2>6, HoldersStay
  <2> QED  BY <2>4, <2>7 DEF HeldInv
<1> QED  BY <1>2, <1>3, <1>4 DEF RangerNext

-----------------------------------------------------------------------------
(* The RunRanger *)

\* A new run gets processes of its own on cores that nobody uses.
BeginEffect(P) ==
  /\ cr.pc = "acquire" /\ cr.run \in Runs /\ P \subseteq Groups
  /\ \A g \in P : g \subseteq In("idle")
  /\ \A g, h \in P : g # h => g \cap h = {}
  /\ Moved(UNION P, "online")
  /\ cr' = RunnerIdle /\ runs' = Append(runs, cr.run) /\ UNCHANGED <<rr, we, sh, qlist, cpuchg>>
  /\ \A r \in Runs \ {cr.run} : run'[r] = run[r]
  /\ run'[cr.run].ongoing /\ run'[cr.run].online = P /\ run'[cr.run].joinl = P
  /\ run'[cr.run].marker = "active"
  /\ \A x \in Res :
       IF x[1] = cr.run /\ Cpu(x) \in P
       THEN LET new == res'[x]
            IN /\ new.obj /\ new.proc = "alive" /\ new.stray = "no" /\ new.pstate = "running"
               /\ new.wd = "watch" /\ new.flags = {} /\ new.retries = 0 /\ new.quar = {}
       ELSE res'[x] = res[x]

LEMMA BeginEffects ==
  ASSUME StateInv, NewRunStart
  PROVE  \E P : BeginEffect(P)
<1>1. cr.run \in Runs /\ run \in [Runs -> RunState] /\ run[cr.run] \in RunState
  BY DEF StateInv, StateTypeOK, RunnerHasRun, NewRunStart
<1>2. PICK P \in Partitions :
       /\ MoveTo(UNION P, "online")
       /\ run' = [run EXCEPT ![cr.run] = [@ EXCEPT !.ongoing = TRUE, !.online = P,
                                                   !.joinl = P, !.marker = "active"]]
       /\ res' = [x \in Res |-> IF x[1] = cr.run /\ x[2] \in P THEN Watch(Forked(NewRes)) ELSE res[x]]
  BY DEF NewRunStart
<1>3. /\ P \subseteq Groups /\ (\A g \in P : g \subseteq In("idle"))
      /\ (\A g, h \in P : g # h => g \cap h = {}) /\ Moved(UNION P, "online")
  BY <1>2 DEF Partitions, MoveTo, Moved
<1>4. /\ \A r \in Runs \ {cr.run} : run'[r] = run[r]
      /\ run'[cr.run].ongoing /\ run'[cr.run].online = P /\ run'[cr.run].joinl = P
      /\ run'[cr.run].marker = "active"
  <2>1. run'[cr.run] = [run[cr.run] EXCEPT !.ongoing = TRUE, !.online = P, !.joinl = P, !.marker = "active"]
    BY <1>1, <1>2
  <2> QED  BY <1>1, <1>2, <2>1 DEF RunState
<1>5. LET new == Watch(Forked(NewRes))
      IN /\ new.obj /\ new.proc = "alive" /\ new.stray = "no" /\ new.pstate = "running"
         /\ new.wd = "watch" /\ new.flags = {} /\ new.retries = 0 /\ new.quar = {}
  <2>1. NewRes \in ResState /\ NewRes.wd = "none" /\ NewRes.retries = 0 /\ NewRes.quar = {}
    BY StateAssumption DEF NewRes, ResState
  <2>2. Forked(NewRes) \in ResState
    BY <2>1, StartType
  <2> QED  BY <2>1, <2>2, WatchFields, ForkedFields
<1>6. BeginEffect(P)
  BY <1>1, <1>2, <1>3, <1>4, <1>5 DEF NewRunStart, BeginEffect, Cpu
<1> QED  BY <1>6

LEMMA HeldBegin ==
  ASSUME StateInv, HeldInv, NewRunStart
  PROVE  HeldInv'
<1>1. /\ where \in [Cores -> Dirs] /\ MovesInOrder /\ OneHolder
  BY DEF StateInv, StateTypeOK, HeldInv
<1>2. PICK P : BeginEffect(P)
  BY BeginEffects
<1> DEFINE New(x) == x[1] = cr.run /\ Cpu(x) \in P
<1>3. ASSUME NEW x \in Res, New(x)  PROVE  ~Held(x) /\ Cpu(x) \subseteq In("online")' /\ Cpu(x) \cap In("online") = {}
  <2>1. Cpu(x) \in P /\ Cpu(x) \subseteq In("idle")
    BY <1>2, <1>3 DEF BeginEffect
  <2>2. Cpu(x) # {}
    <3>1. Cpu(x) \in Groups
      BY <1>3 DEF Res, Cpu
    <3> QED  BY <3>1, StateAssumption, FS_EmptySet DEF Groups
  <2>3. Cpu(x) \cap In("online") = {}
    BY <2>1 DEF In
  <2>4. ~Held(x)
    BY <1>1, <2>2, <2>3 DEF OneHolder
  <2>5. Moved(UNION P, "online") /\ Cpu(x) \subseteq UNION P /\ Cpu(x) \subseteq Cores
    BY <1>2, <2>1 DEF BeginEffect, In
  <2>6. Cpu(x) \subseteq In("online")'
    BY <2>5 DEF Moved, In
  <2> QED  BY <2>3, <2>4, <2>6
<1>4. \A x \in Res : Starting(x)' <=> Starting(x)
  BY <1>2 DEF BeginEffect, Starting
<1>5. \A x \in Res : New(x) => res'[x].stray = "no" /\ res'[x].wd = "watch"
  BY <1>2 DEF BeginEffect
<1>6. \A x \in Res : ~New(x) => res'[x] = res[x]
  BY <1>2 DEF BeginEffect
<1>7. \A x, y \in Res : New(x) /\ New(y) /\ x # y => Cpu(x) \cap Cpu(y) = {}
  BY <1>2, ResType DEF BeginEffect, Cpu
<1>8. \A x \in Res : Held(x) => Cpu(x) \subseteq In("online") /\ Cpu(x) \subseteq In("online")'
  <2> SUFFICES ASSUME NEW x \in Res, Held(x)
               PROVE  Cpu(x) \subseteq In("online") /\ Cpu(x) \subseteq In("online")'
    OBVIOUS
  <2>1. Cpu(x) \in SUBSET In("online")
    BY <1>1 DEF OneHolder
  <2>2. (UNION P) \cap Cpu(x) = {}
    <3> SUFFICES ASSUME NEW g \in P, NEW c \in g \cap Cpu(x)  PROVE  FALSE
      OBVIOUS
    <3>1. c \in In("idle") /\ c \in In("online")
      BY <1>2, <2>1 DEF BeginEffect
    <3> QED  BY <3>1 DEF In
  <2>3. Moved(UNION P, "online")
    BY <1>2 DEF BeginEffect
  <2> QED  BY <1>1, <2>1, <2>2, <2>3, OthersStay
<1> HIDE DEF New
<1>9. MovesInOrder'
  <2> SUFFICES ASSUME NEW x \in Res
               PROVE  /\ res'[x].stray = "no"
                      /\ res'[x].wd \in Moving => ~Alive(x)' /\ res'[x].pstate # "running" /\ ~Starting(x)'
                      /\ res'[x].wd = "watch" => ~Starting(x)'
    BY DEF MovesInOrder
  <2>1. CASE New(x)
    BY <1>3, <1>4, <1>5, <2>1 DEF Held, Moving, Leaving
  <2>2. CASE ~New(x)
    BY <1>1, <1>4, <1>6, <2>2 DEF MovesInOrder, Alive
  <2> QED  BY <2>1, <2>2
<1>10. \A x \in Res : Held(x)' => Held(x) \/ New(x)
  BY <1>4, <1>6 DEF Held, Alive
<1>11. OneHolder'
  <2>1. \A x, y \in Res : New(x) /\ Held(y) => Cpu(x) \cap Cpu(y) = {}
    BY <1>3, <1>8
  <2> QED  BY <1>1, <1>3, <1>7, <1>8, <1>10, <2>1 DEF OneHolder
<1> QED  BY <1>9, <1>11 DEF HeldInv

\* The other steps of the RunRanger change no more than the flags and the end of
\* processes, and move core files that are not in online.
RunnerEffect ==
  /\ UNCHANGED <<rr, runs>>
  /\ UNCHANGED where \/ \E S, dir : Moved(S, dir) /\ S \cap In("online") = {}
  /\ \A x \in Res : /\ res'[x].obj = res[x].obj /\ res'[x].stray = res[x].stray
                    /\ res'[x].pstate = res[x].pstate /\ res'[x].wd = res[x].wd
                    /\ res'[x].retries = res[x].retries /\ res'[x].quar = res[x].quar
                    /\ Alive(x)' => Alive(x)
                    /\ cr.pc # "update" => res'[x].flags = res[x].flags

LEMMA RunnerEffects ==
  ASSUME StateInv, RunnerNext \/ UpdateJoinTimeout, ~NewRunStart
  PROVE  RunnerEffect
<1>1. res \in [Res -> ResState] /\ \A S, dir : MoveTo(S, dir) => Moved(S, dir)
  BY DEF StateInv, StateTypeOK, MoveTo, Moved
<1>2. \A n : Shrink(n) \/ Grow(n) => \E S, dir : Moved(S, dir) /\ S \cap In("online") = {}
  BY <1>1 DEF Shrink, Grow, In
<1>3. CASE NewRunResize \/ UpdateEnd
  BY <1>2, <1>3 DEF NewRunResize, UpdateEnd, RunnerEffect, Alive
<1>4. CASE HerodClear
  <2>1. Moved(qlist \cap In("quarantined"), "idle") /\ qlist \cap In("quarantined") \cap In("online") = {}
    BY <1>1, <1>4 DEF HerodClear, In
  <2> QED  BY <1>4, <2>1 DEF HerodClear, RunnerEffect, Alive
<1>5. CASE UpdateCmd
  <2>1. UNCHANGED where \/ \E S, dir : Moved(S, dir) /\ S \cap In("online") = {}
    <3>1. CASE UNCHANGED where \/ Grow(cpuchg)
      BY <1>2, <3>1
    <3>2. ASSUME NEW S \in SUBSET (In("idle") \union In("quarantined")), UpdateShrink(S)
          PROVE  Moved(S, "gone") /\ S \cap In("online") = {}
      BY <1>1, <3>2 DEF UpdateShrink, In
    <3> QED  BY <1>5, <3>1, <3>2 DEF UpdateCmd
  <2> QED  BY <1>5, <2>1 DEF UpdateCmd, RunnerEffect, Alive
<1>6. CASE UpdateJoinTimeout
  <2>1. \A x \in Res : res'[x] = res[x] \/ (res'[x] = [res[x] EXCEPT !.proc = "crash"])
    BY <1>6 DEF UpdateJoinTimeout
  <2>2. \A x \in Res : /\ res'[x].obj = res[x].obj /\ res'[x].stray = res[x].stray
                       /\ res'[x].pstate = res[x].pstate /\ res'[x].wd = res[x].wd
                       /\ res'[x].retries = res[x].retries /\ res'[x].quar = res[x].quar
                       /\ res'[x].flags = res[x].flags
                       /\ res'[x].proc = "alive" => res[x].proc = "alive"
    <3>1. ASSUME NEW v \in ResState
          PROVE  LET n == [v EXCEPT !.proc = "crash"]
                 IN /\ n.obj = v.obj /\ n.stray = v.stray /\ n.pstate = v.pstate /\ n.wd = v.wd
                    /\ n.retries = v.retries /\ n.quar = v.quar /\ n.flags = v.flags /\ n.proc = "crash"
      BY DEF ResState
    <3> SUFFICES ASSUME NEW x \in Res
                 PROVE  /\ res'[x].obj = res[x].obj /\ res'[x].stray = res[x].stray
                        /\ res'[x].pstate = res[x].pstate /\ res'[x].wd = res[x].wd
                        /\ res'[x].retries = res[x].retries /\ res'[x].quar = res[x].quar
                        /\ res'[x].flags = res[x].flags
                        /\ res'[x].proc = "alive" => res[x].proc = "alive"
      OBVIOUS
    <3>2. res[x] \in ResState
      BY <1>1
    <3>3. CASE res'[x] = res[x]
      BY <3>3
    <3>4. CASE res'[x] = [res[x] EXCEPT !.proc = "crash"]
      BY <3>1, <3>2, <3>4
    <3> QED  BY <2>1, <3>3, <3>4
  <2> QED  BY <1>6, <2>2 DEF UpdateJoinTimeout, RunnerEffect, Alive
<1>7. ASSUME NEW g \in Groups, UpdateStop(g)
      PROVE  RunnerEffect
  <2>1. PICK x : StopWith(x, {"remove", "mask"})
    BY <1>7 DEF UpdateStop
  <2>2. \A y \in Res : /\ res'[y].obj = res[y].obj /\ res'[y].proc = res[y].proc /\ res'[y].stray = res[y].stray
                       /\ res'[y].pstate = res[y].pstate /\ res'[y].wd = res[y].wd
                       /\ res'[y].retries = res[y].retries /\ res'[y].quar = res[y].quar
    BY <1>1, <2>1 DEF StopWith, ResState
  <2> QED  BY <1>7, <2>2 DEF UpdateStop, RunnerEffect, Alive
<1>8. CASE NewRunCmd \/ NewRunTakeChange \/ EndRunCmd \/ EndRunStart \/ QuarantinedCmd \/ HerodCmd
           \/ (\E r \in Runs : HerodRun(r)) \/ HerodShutdownReturns \/ UpdateUnlock \/ UpdateJoined
  <2>1. UNCHANGED <<where, rr, runs, res>>
    BY <1>8 DEF NewRunCmd, NewRunTakeChange, EndRunCmd, EndRunStart, QuarantinedCmd, HerodCmd, HerodRun,
         HerodShutdownReturns, UpdateUnlock, UpdateJoined
  <2> QED  BY <2>1 DEF RunnerEffect, Alive
<1> QED  BY <1>3, <1>4, <1>5, <1>6, <1>7, <1>8 DEF RunnerNext

-----------------------------------------------------------------------------
(* WaitForEnd and the processes *)

\* WaitForEnd gives quarantined cores back and drops processes it has waited for.
ClearEffect(r) ==
  LET x == <<r, we[r].cur>>
  IN /\ we[r].pc = "clear" /\ UNCHANGED <<run, runs>>
     /\ \E S \in Restorable(res[x].quar) :
          /\ Moved(S, "idle")
          /\ x \in Res => res'[x].quar = LeftOver(res[x].quar, S) /\ ~res'[x].obj
     /\ \A y \in Res : /\ y # x => res'[y] = res[y]
                       /\ res'[y].proc = res[y].proc /\ res'[y].stray = res[y].stray
                       /\ res'[y].pstate = res[y].pstate /\ res'[y].wd = res[y].wd
                       /\ res'[y].retries = res[y].retries /\ res'[y].flags = res[y].flags
     /\ \A s \in Runs \ {r} : we'[s] = we[s]
     /\ we'[r].pc = "join" /\ we'[r].cut = we[r].cut /\ we'[r].seen = we[r].seen \union {we[r].cur}

LEMMA ClearEffects ==
  ASSUME StateInv, NEW r \in Runs, WaitForEndClear(r)
  PROVE  ClearEffect(r)
<1>1. res \in [Res -> ResState] /\ we \in [Runs -> EndState] /\ we[r] \in EndState
  BY DEF StateInv, StateTypeOK
<1> DEFINE x == <<r, we[r].cur>>
<1>2. PICK S \in Restorable(res[x].quar) :
        MoveTo(S, "idle") /\ res' = [res EXCEPT ![x].quar = LeftOver(@, S), ![x].obj = FALSE]
  BY DEF WaitForEndClear
<1>3. Moved(S, "idle")
  BY <1>2 DEF MoveTo, Moved
<1>4. \A y \in Res : y # x => res'[y] = res[y]
  BY <1>1, <1>2
<1>5. ASSUME x \in Res
      PROVE  /\ res'[x].quar = LeftOver(res[x].quar, S) /\ ~res'[x].obj
             /\ res'[x].proc = res[x].proc /\ res'[x].stray = res[x].stray
             /\ res'[x].pstate = res[x].pstate /\ res'[x].wd = res[x].wd
             /\ res'[x].retries = res[x].retries /\ res'[x].flags = res[x].flags
  <2>1. res'[x] = [res[x] EXCEPT !.quar = LeftOver(res[x].quar, S), !.obj = FALSE] /\ res[x] \in ResState
    BY <1>1, <1>2, <1>5
  <2> QED  BY <2>1 DEF ResState
<1>6. /\ \A s \in Runs \ {r} : we'[s] = we[s]
      /\ we'[r].pc = "join" /\ we'[r].cut = we[r].cut /\ we'[r].seen = we[r].seen \union {we[r].cur}
  <2>1. we'[r] = [we[r] EXCEPT !.pc = "join", !.seen = we[r].seen \union {we[r].cur}]
    BY <1>1 DEF WaitForEndClear
  <2>2. \A s \in Runs \ {r} : we'[s] = we[s]
    BY <1>1 DEF WaitForEndClear
  <2> QED  BY <1>1, <2>1, <2>2 DEF EndState
<1>7. we[r].pc = "clear" /\ UNCHANGED <<run, runs>>
  BY DEF WaitForEndClear
<1> HIDE DEF x
<1>8. \A y \in Res : /\ y # x => res'[y] = res[y]
                     /\ res'[y].proc = res[y].proc /\ res'[y].stray = res[y].stray
                     /\ res'[y].pstate = res[y].pstate /\ res'[y].wd = res[y].wd
                     /\ res'[y].retries = res[y].retries /\ res'[y].flags = res[y].flags
  BY <1>4, <1>5
<1>9. \E T \in Restorable(res[x].quar) :
          Moved(T, "idle") /\ (x \in Res => res'[x].quar = LeftOver(res[x].quar, T) /\ ~res'[x].obj)
  BY <1>2, <1>3, <1>5
<1> QED  BY <1>6, <1>7, <1>8, <1>9 DEF ClearEffect, x

LEMMA HeldWaitForEnd ==
  ASSUME StateInv, HeldInv, NEW r \in Runs, WaitForEndNext(r)
  PROVE  HeldInv'
<1>1. CASE WaitForEndClear(r)
  <2>1. ClearEffect(r) /\ UNCHANGED rr
    BY <1>1, ClearEffects DEF WaitForEndClear
  <2>2. \E S, dir : Moved(S, dir) /\ S \cap In("online") = {}
    BY <2>1 DEF ClearEffect, Restorable, In
  <2> QED  BY <2>1, <2>2, HeldQuiet DEF ClearEffect, Alive, Starting
<1>2. CASE ~WaitForEndClear(r)
  <2>1. UNCHANGED <<where, res, rr>>
    BY <1>2 DEF WaitForEndNext, WaitForEndJoin, WaitForEndReset, WaitForEndRmtree, WaitForEndRemove
  <2> QED  BY <2>1, HeldQuiet DEF Alive, Starting
<1> QED  BY <1>1, <1>2

\* A process ends; its resource is not told.
LEMMA ProcessEffects ==
  ASSUME StateInv, HeldInv, NEW x \in Res, ProcessEnds(x) \/ StrayEnds(x) \/ ProcessCrashes(x)
  PROVE  /\ UNCHANGED <<where, rr, cr, runs, run, we, sh, qlist, cpuchg>>
         /\ \A y \in Res \ {x} : res'[y] = res[y]
         /\ \A y \in Res : /\ res'[y].obj = res[y].obj /\ res'[y].stray = res[y].stray
                           /\ res'[y].pstate = res[y].pstate /\ res'[y].wd = res[y].wd
                           /\ res'[y].retries = res[y].retries /\ res'[y].quar = res[y].quar
                           /\ res'[y].flags = res[y].flags
         /\ Alive(x) /\ ~Alive(x)'
<1>1. res \in [Res -> ResState] /\ res[x] \in ResState /\ ~StrayEnds(x)
  BY DEF StateInv, StateTypeOK, HeldInv, MovesInOrder, StrayEnds
<1>2. PICK code \in {"ok", "crash", "quit"} : res' = [res EXCEPT ![x] = [res[x] EXCEPT !.proc = code]]
  BY <1>1 DEF ProcessEnds, ProcessCrashes
<1>3. UNCHANGED <<where, rr, cr, runs, run, we, sh, qlist, cpuchg>> /\ Alive(x)
  BY <1>1 DEF ProcessEnds, ProcessCrashes, Alive
<1> QED  BY <1>1, <1>2, <1>3 DEF Alive, ResState

LEMMA HeldStep == TypeInv /\ (Undisturbed => HeldInv) /\ [Next]_vars => (Undisturbed => HeldInv)'
<1> SUFFICES ASSUME TypeInv, Undisturbed => HeldInv, [Next]_vars, Undisturbed'  PROVE  HeldInv'
  OBVIOUS
<1>1. Undisturbed /\ HeldInv /\ StateInv
  BY UndisturbedBefore DEF TypeInv
<1>2. CASE \E x \in Res : WatchdogNext(x)
  BY <1>1, <1>2, HeldWatchdog
<1>3. CASE RangerNext \/ RangerJoinTimeout
  BY <1>1, <1>3, HeldRanger
<1>4. CASE RunnerNext \/ UpdateJoinTimeout
  <2>1. CASE NewRunStart
    BY <1>1, <2>1, HeldBegin
  <2>2. CASE ~NewRunStart
    <3>1. RunnerEffect
      BY <1>1, <1>4, <2>2, RunnerEffects
    <3> QED  BY <1>1, <3>1, HeldQuiet DEF RunnerEffect, Starting
  <2> QED  BY <2>1, <2>2
<1>5. CASE \E r \in Runs : WaitForEndNext(r)
  BY <1>1, <1>5, HeldWaitForEnd
<1>6. ASSUME NEW r \in Runs, ShutdownNext(r)  PROVE  FALSE
  BY <1>1, <1>6 DEF Undisturbed, ShutdownNext, ShutdownBegin, ShutdownKill, ShutdownJoin, ShutdownClear,
       ShutdownReset, ShutdownRemove, ShutdownRmtree
<1>7. CASE \E x \in Res : ProcessEnds(x) \/ StrayEnds(x) \/ ProcessCrashes(x)
  <2>1. PICK x \in Res : ProcessEnds(x) \/ StrayEnds(x) \/ ProcessCrashes(x)
    BY <1>7
  <2> QED  BY <1>1, <2>1, ProcessEffects, HeldQuiet DEF Alive, Starting
<1>8. CASE \/ \E r \in Runs : NotifyNewRun(r) \/ NotifyEnd(r)
           \/ \E r \in Runs \union {NoRun} : Herod(r)
           \/ \E d \in {-1, 1} : CpuChange(d)
           \/ UNCHANGED vars
  <2>1. UNCHANGED <<where, res, rr>>
    BY <1>8 DEF NotifyNewRun, NotifyEnd, Herod, CpuChange, vars, fuVars
  <2> QED  BY <1>1, <2>1, HeldQuiet DEF Alive, Starting
<1>9. ASSUME NEW c \in Cores, NEW dir \in {"idle", "quarantined"}, MoveByHand(c, dir)  PROVE  FALSE
  BY <1>1, <1>9 DEF MoveByHand, Spend, Undisturbed, TypeInv, Bounds
<1> QED  BY <1>2, <1>3, <1>4, <1>5, <1>6, <1>7, <1>8, <1>9 DEF Next, Threads, Timeouts

LEMMA HeldInit == Init => HeldInv
BY DEF Init, HeldInv, OneHolder, MovesInOrder, Held, Starting, Alive, NewRes, RangerIdle, Moving, Leaving

\* As long as nobody moves core files by hand and no run is shut down, two
\* processes never compute on the same core, whatever processes crash, joins time
\* out and CPUs come and go, and however long endRunCmd sleeps.
THEOREM OneProcessPerCoreHolds == Spec => [](Undisturbed => OneProcessPerCore)
<1>1. HeldInv => OneProcessPerCore
  BY DEF HeldInv, OneHolder, MovesInOrder, Held, OneProcessPerCore
<1>2. Init => (Undisturbed => HeldInv)
  BY HeldInit
<1> QED  BY <1>1, <1>2, InitTypes, TypeInvStep, HeldStep, PTL DEF Spec

-----------------------------------------------------------------------------
(* The watchdogs and the threads that wait for them                          *)

\* The resource has a watchdog, or is being given one.
Active(x) == ~NoWatchdog(x) \/ Starting(x)
\* WaitForEnd of the run has waited for the watchdog of x.
Joined(x) ==
  LET w == we[x[1]]
  IN /\ w.pc # "none"
     /\ \/ w.pc = "clear" /\ w.cur = Cpu(x)
        \/ Cpu(x) \in w.seen
        \/ w.pc \in {"tail", "remove", "done"}

StartsInOrder ==
  /\ rr.pc \notin {"stop", "join"}
  /\ rr.pc = "acquire" => rr.dir # "quarantined"
  /\ \A r \in Runs : StartInProgress(r) => we[r].pc = "none" /\ InList(r)
  /\ \A x \in Res : Starting(x) => x[1] = rr.run /\ IF rr.pc = "start" THEN ~Alive(x) ELSE res[x].obj
WatchInOrder ==
  \A x \in Res : /\ Alive(x) => res[x].wd = "watch" \/ Starting(x)
                 /\ res[x].wd = "watch" => res[x].pstate = "running" /\ res[x].obj
                 /\ ~NoWatchdog(x) => res[x].pstate # "none"
                 /\ Active(x) => InList(x[1]) /\ Cpu(x) \in run[x[1]].joinl
JoinsInOrder ==
  /\ \A r \in Runs : ~we[r].cut
  /\ \A x \in Res : Joined(x) => NoWatchdog(x)
WatchInv == StartsInOrder /\ WatchInOrder /\ JoinsInOrder

\* A step that neither starts nor finishes with a process.
LEMMA WatchQuiet ==
  ASSUME WatchInv, UNCHANGED rr,
         \A x \in Res : /\ res'[x].wd = res[x].wd /\ res'[x].pstate = res[x].pstate
                        /\ Alive(x)' => Alive(x)
                        /\ res'[x].obj = res[x].obj \/ ~Active(x),
         \A r \in Runs : StartInProgress(r) => we'[r].pc = we[r].pc /\ InList(r)',
         \A r \in Runs : ~we'[r].cut,
         \A x \in Res : Active(x) => InList(x[1])' /\ Cpu(x) \in run'[x[1]].joinl,
         \A x \in Res : Joined(x)' => NoWatchdog(x)
  PROVE  WatchInv'
<1>1. \A x \in Res : /\ Starting(x)' <=> Starting(x)
                     /\ NoWatchdog(x)' <=> NoWatchdog(x)
                     /\ Active(x)' <=> Active(x)
  BY DEF Starting, NoWatchdog, Active
<1>2. \A r \in Runs : StartInProgress(r)' <=> StartInProgress(r)
  BY DEF StartInProgress
<1>3. StartsInOrder'
  <2>1. \A r \in Runs : StartInProgress(r)' => we'[r].pc = "none" /\ InList(r)'
    BY <1>2 DEF WatchInv, StartsInOrder
  <2>2. \A x \in Res : Starting(x) => Active(x)
    BY DEF Active
  <2>3. \A x \in Res : Starting(x)' => x[1] = rr'.run /\ IF rr'.pc = "start" THEN ~Alive(x)' ELSE res'[x].obj
    BY <1>1, <2>2 DEF WatchInv, StartsInOrder
  <2> QED  BY <2>1, <2>3 DEF WatchInv, StartsInOrder
<1>4. WatchInOrder'
  <2>1. \A x \in Res : ~Active(x) => res[x].wd # "watch"
    BY DEF Active, NoWatchdog
  <2> QED  BY <1>1, <2>1 DEF WatchInv, WatchInOrder
<1>5. JoinsInOrder'
  BY <1>1 DEF JoinsInOrder
<1> QED  BY <1>3, <1>4, <1>5 DEF WatchInv

LEMMA StartingInProgress ==
  ASSUME WatchInv, NEW x \in Res, Starting(x)
  PROVE  StartInProgress(x[1]) /\ we[x[1]].pc = "none" /\ InList(x[1]) /\ ~Joined(x)
<1>1. StartInProgress(x[1])
  BY DEF WatchInv, StartsInOrder, Starting, StartInProgress
<1> QED  BY <1>1, ResType DEF WatchInv, StartsInOrder, Joined

LEMMA WatchWatchdog ==
  ASSUME StateInv, HeldInv, WatchInv, NEW x \in Res, WatchdogNext(x)
  PROVE  WatchInv'
<1>1. WatchdogEffect(x) /\ res \in [Res -> ResState] /\ MovesInOrder
  BY WatchdogEffects DEF HeldInv, MovesInOrder, StateInv, StateTypeOK
<1>2. /\ \A y \in Res : Starting(y)' <=> Starting(y)
      /\ \A y \in Res \ {x} : res'[y] = res[y]
      /\ UNCHANGED <<rr, runs, we>>
      /\ \A r \in Runs : run'[r].joinl = run[r].joinl /\ (InList(r)' <=> InList(r))
      /\ \A r \in Runs : StartInProgress(r)' <=> StartInProgress(r)
      /\ \A y \in Res : Joined(y)' <=> Joined(y)
  BY <1>1 DEF WatchdogEffect, Starting, InList, StartInProgress, Joined
<1>3. /\ ~NoWatchdog(x) /\ res'[x].wd # "watch" /\ res'[x].wd # "none" /\ res'[x].proc = res[x].proc
      /\ res'[x].pstate = "none" => res[x].pstate = "none"
      /\ res[x].wd = "watch" => res[x].proc # "alive"
      /\ ~res'[x].obj => ~res[x].obj \/ res[x].wd \in Moving
  BY <1>1 DEF WatchdogEffect, NoWatchdog, Moving, Leaving
<1>4. StartsInOrder'
  <2>1. Starting(x) => (res'[x].obj <=> res[x].obj)
    BY <1>1, <1>3 DEF WatchdogEffect, MovesInOrder
  <2>2. \A y \in Res : Starting(y)' => y[1] = rr'.run /\ IF rr'.pc = "start" THEN ~Alive(y)' ELSE res'[y].obj
    BY <1>2, <1>3, <2>1 DEF WatchInv, StartsInOrder, Alive
  <2> QED  BY <1>2, <2>2 DEF WatchInv, StartsInOrder
<1>5. WatchInOrder'
  <2>1. Active(x) /\ \A y \in Res \ {x} : (Active(y)' <=> Active(y)) /\ (NoWatchdog(y)' <=> NoWatchdog(y))
    BY <1>2, <1>3 DEF Active, NoWatchdog
  <2>2. \A y \in Res : Active(y)' => InList(y[1])' /\ Cpu(y) \in run'[y[1]].joinl
    BY <1>2, <2>1, ResType DEF WatchInv, WatchInOrder
  <2>3. Alive(x)' => Starting(x)'
    BY <1>2, <1>3 DEF WatchInv, WatchInOrder, Alive
  <2>4. res'[x].pstate # "none"
    BY <1>3 DEF WatchInv, WatchInOrder
  <2> QED  BY <1>2, <1>3, <2>1, <2>2, <2>3, <2>4 DEF WatchInv, WatchInOrder, Alive
<1>6. JoinsInOrder'
  BY <1>2, <1>3 DEF WatchInv, JoinsInOrder, NoWatchdog
<1> QED  BY <1>4, <1>5, <1>6 DEF WatchInv

\* When WaitForEnd empties the lists of the run, no resource of it is in use.
LEMMA EndFindsAll ==
  ASSUME WatchInv, NEW r \in Runs, WaitForEndReset(r)
  PROVE  \A x \in Res : x[1] = r => ~Active(x)
<1> SUFFICES ASSUME NEW x \in Res, x[1] = r, Active(x)  PROVE  FALSE
  OBVIOUS
<1>1. Cpu(x) \in we[r].seen /\ we[r].pc = "join"
  BY DEF WaitForEndReset, JoinList, WatchInv, WatchInOrder, JoinsInOrder
<1>2. Joined(x)
  BY <1>1 DEF Joined
<1> QED  BY <1>2, StartingInProgress DEF Active, WatchInv, JoinsInOrder

LEMMA WatchWaitForEnd ==
  ASSUME StateInv, RunInv, WatchInv, NEW r \in Runs, WaitForEndNext(r)
  PROVE  WatchInv'
<1>1. we \in [Runs -> EndState] /\ we[r] \in EndState /\ run \in [Runs -> RunState] /\ run[r] \in RunState
  BY DEF StateInv, StateTypeOK
<1>2. we[r].pc # "none" /\ UNCHANGED rr
  BY DEF WaitForEndNext, WaitForEndJoin, WaitForEndClear, WaitForEndReset, WaitForEndRmtree, WaitForEndRemove
<1>3. /\ ~StartInProgress(r)
      /\ \A x \in Res : x[1] = r => ~Starting(x)
      /\ \A s \in Runs : ~we[s].cut
      /\ \A x \in Res : Joined(x) => NoWatchdog(x) /\ ~Starting(x)
  BY <1>2, StartingInProgress DEF WatchInv, StartsInOrder, JoinsInOrder
<1>4. CASE WaitForEndJoin(r)
  <2>1. PICK g \in run[r].joinl : /\ res[<<r, g>>].pstate = "none" \/ NoWatchdog(<<r, g>>)
                                  /\ we' = [we EXCEPT ![r] = [we[r] EXCEPT !.pc = "clear", !.cur = g]]
    BY <1>1, <1>3, <1>4 DEF WaitForEndJoin, JoinList
  <2>2. UNCHANGED <<res, run, runs>>
    BY <1>4 DEF WaitForEndJoin
  <2>3. /\ \A s \in Runs \ {r} : we'[s] = we[s]
        /\ we'[r].pc = "clear" /\ we'[r].cur = g /\ we'[r].seen = we[r].seen /\ we'[r].cut = we[r].cut
    BY <1>1, <2>1 DEF EndState
  <2>4. <<r, g>> \in Res /\ NoWatchdog(<<r, g>>)
    BY <1>1, <2>1 DEF RunState, Res, WatchInv, WatchInOrder
  <2>5. \A x \in Res : Joined(x)' => Joined(x) \/ x = <<r, g>>
    BY <1>2, <2>3, ResType DEF Joined, Cpu
  <2>6. \A x \in Res : Joined(x)' => NoWatchdog(x)
    BY <1>3, <2>4, <2>5
  <2>7. \A s \in Runs : StartInProgress(s) => we'[s].pc = we[s].pc /\ InList(s)'
    BY <1>3, <2>2, <2>3 DEF WatchInv, StartsInOrder, InList
  <2>8. \A x \in Res : Active(x) => InList(x[1])' /\ Cpu(x) \in run'[x[1]].joinl
    BY <2>2 DEF WatchInv, WatchInOrder, InList
  <2>9. \A s \in Runs : ~we'[s].cut
    BY <1>3, <2>3
  <2> QED  BY <1>2, <2>2, <2>6, <2>7, <2>8, <2>9, WatchQuiet DEF Alive
<1>5. CASE WaitForEndClear(r)
  <2>1. ClearEffect(r)
    BY <1>5, ClearEffects
  <2>2. \A x \in Res : Joined(x)' => Joined(x)
    BY <2>1, ResType DEF ClearEffect, Joined
  <2>3. \A x \in Res : res'[x].obj = res[x].obj \/ ~Active(x)
    <3> SUFFICES ASSUME NEW x \in Res, x = <<r, we[r].cur>>  PROVE  ~Active(x)
      BY <2>1 DEF ClearEffect
    <3>1. Joined(x)
      BY <2>1 DEF ClearEffect, Joined, Cpu
    <3> QED  BY <1>3, <3>1 DEF Active
  <2>4. \A s \in Runs : StartInProgress(s) => we'[s].pc = we[s].pc /\ InList(s)'
    BY <1>3, <2>1 DEF ClearEffect, WatchInv, StartsInOrder, InList
  <2>5. \A x \in Res : Active(x) => InList(x[1])' /\ Cpu(x) \in run'[x[1]].joinl
    BY <2>1 DEF ClearEffect, WatchInv, WatchInOrder, InList
  <2>6. \A s \in Runs : ~we'[s].cut
    BY <1>3, <2>1 DEF ClearEffect
  <2>7. \A x \in Res : /\ res'[x].wd = res[x].wd /\ res'[x].pstate = res[x].pstate
                       /\ Alive(x)' => Alive(x)
    BY <2>1 DEF ClearEffect, Alive
  <2> QED  BY <1>2, <1>3, <2>2, <2>3, <2>4, <2>5, <2>6, <2>7, WatchQuiet
<1>6. CASE WaitForEndReset(r)
  <2>1. \A x \in Res : x[1] = r => ~Active(x)
    BY <1>6, EndFindsAll
  <2>2. /\ \A s \in Runs \ {r} : we'[s] = we[s] /\ run'[s] = run[s]
        /\ we'[r].pc \in {"done", "tail"} /\ we'[r].cut = we[r].cut
        /\ UNCHANGED <<res, runs>>
    BY <1>1, <1>6 DEF WaitForEndReset, EndState
  <2>3. \A x \in Res : Joined(x)' => NoWatchdog(x)
    BY <1>3, <2>1, <2>2, ResType DEF Joined, Active
  <2>4. \A s \in Runs : StartInProgress(s) => we'[s].pc = we[s].pc /\ InList(s)'
    BY <1>3, <2>2 DEF WatchInv, StartsInOrder, InList
  <2>5. \A x \in Res : Active(x) => InList(x[1])' /\ Cpu(x) \in run'[x[1]].joinl
    BY <2>1, <2>2, ResType DEF WatchInv, WatchInOrder, InList
  <2>6. \A s \in Runs : ~we'[s].cut
    BY <1>3, <2>2
  <2> QED  BY <1>2, <2>2, <2>3, <2>4, <2>5, <2>6, WatchQuiet DEF Alive
<1>7. CASE WaitForEndRmtree(r) \/ WaitForEndRemove(r)
  <2>1. we[r].pc \in {"tail", "remove"} /\ UNCHANGED res
    BY <1>7 DEF WaitForEndRmtree, WaitForEndRemove
  <2>2. \A x \in Res : x[1] = r => Joined(x) /\ ~Active(x)
    BY <1>3, <2>1 DEF Joined, Active
  <2>3. /\ \A s \in Runs \ {r} : we'[s] = we[s]
        /\ we'[r].pc \in {"remove", "done"} /\ we'[r].cut = we[r].cut
    BY <1>1, <1>7 DEF WaitForEndRmtree, WaitForEndRemove, EndState
  <2>4. \A s \in Runs : run'[s].joinl = run[s].joinl
    BY <1>1, <1>7 DEF WaitForEndRmtree, WaitForEndRemove, RunState
  <2>5. \A s \in Runs \ {r} : InList(s) => InList(s)'
    <3>1. CASE WaitForEndRmtree(r)
      BY <3>1 DEF WaitForEndRmtree, InList
    <3>2. CASE WaitForEndRemove(r)
      BY <3>2, RemoveRunType DEF WaitForEndRemove, StateInv, StateTypeOK
    <3> QED  BY <1>7, <3>1, <3>2
  <2>6. \A x \in Res : Joined(x)' => NoWatchdog(x)
    BY <1>3, <2>2, <2>3, ResType DEF Joined, Active
  <2>7. \A s \in Runs : StartInProgress(s) => we'[s].pc = we[s].pc /\ InList(s)'
    BY <1>3, <2>3, <2>5 DEF WatchInv, StartsInOrder
  <2>8. \A x \in Res : Active(x) => InList(x[1])' /\ Cpu(x) \in run'[x[1]].joinl
    BY <2>2, <2>4, <2>5, ResType DEF WatchInv, WatchInOrder
  <2>9. \A s \in Runs : ~we'[s].cut
    BY <1>3, <2>3
  <2> QED  BY <1>2, <2>1, <2>6, <2>7, <2>8, <2>9, WatchQuiet DEF Alive
<1> QED  BY <1>4, <1>5, <1>6, <1>7 DEF WaitForEndNext

\* Only the start of a run and of its end change what WaitForEnd goes by.
RunnerCourse ==
  /\ \A r \in Runs : /\ run'[r].online = run[r].online /\ run'[r].joinl = run[r].joinl
                     /\ run'[r].ongoing => run[r].ongoing
  /\ \/ UNCHANGED we /\ \A r \in Runs : run'[r].marker = run[r].marker
     \/ \E r \in Runs : /\ SettleDelay => ~StartInProgress(r)
                        /\ cr.pc = "endsleep" /\ cr.run = r /\ run[r].marker # "gone" /\ run'[r].marker = "stopping"
                        /\ we'[r] = [NoEnd EXCEPT !.pc = "join"]
                        /\ \A s \in Runs \ {r} : we'[s] = we[s] /\ run'[s].marker = run[s].marker

LEMMA RunnerCourses ==
  ASSUME StateInv, RunInv, RunnerNext \/ UpdateJoinTimeout, ~NewRunStart
  PROVE  RunnerCourse
<1>1. run \in [Runs -> RunState] /\ we \in [Runs -> EndState]
  BY DEF StateInv, StateTypeOK
<1>2. \A v \in RunState : /\ NotOngoing(v).online = v.online /\ NotOngoing(v).joinl = v.joinl
                          /\ ~NotOngoing(v).ongoing /\ NotOngoing(v).marker = v.marker
  BY DEF NotOngoing, RunState
<1>3. CASE EndRunCmd
  BY <1>1, <1>2, <1>3 DEF EndRunCmd, RunnerCourse, RunState
<1>4. CASE EndRunStart
  <2>1. cr.run \in Runs /\ cr.pc = "endsleep"
    BY <1>4 DEF EndRunStart, RunInv, RunsInOrder, RunnerInOrder
  <2>2. CASE run[cr.run].marker = "gone"
    BY <1>4, <2>2 DEF EndRunStart, RunnerCourse
  <2>3. CASE run[cr.run].marker # "gone"
    <3>1. PICK r \in Runs : r = cr.run
      BY <2>1
    <3>2. /\ run' = [run EXCEPT ![r].marker = "stopping"]
          /\ we' = [we EXCEPT ![r] = [NoEnd EXCEPT !.pc = "join"]]
          /\ SettleDelay => ~StartInProgress(r)
      BY <1>4, <2>3, <3>1 DEF EndRunStart
    <3>3. /\ \A s \in Runs : /\ run'[s].online = run[s].online /\ run'[s].joinl = run[s].joinl
                             /\ run'[s].ongoing => run[s].ongoing
          /\ run'[r].marker = "stopping"
          /\ \A s \in Runs \ {r} : run'[s].marker = run[s].marker
      BY <1>1, <3>2 DEF RunState
    <3>4. we'[r] = [NoEnd EXCEPT !.pc = "join"] /\ \A s \in Runs \ {r} : we'[s] = we[s]
      BY <1>1, <3>2
    <3> QED  BY <2>1, <2>3, <3>1, <3>2, <3>3, <3>4 DEF RunnerCourse
  <2> QED  BY <2>2, <2>3
<1>5. CASE QuarantinedCmd
  <2>1. UNCHANGED we /\ \E b, c : run' = [run EXCEPT ![CmdRun].qfile = b, ![CmdRun].pending = c]
    BY <1>5 DEF QuarantinedCmd
  <2> QED  BY <1>1, <2>1 DEF RunnerCourse, RunState
<1>6. CASE HerodCmd
  <2>1. UNCHANGED we /\ \A r \in Runs : run'[r] = run[r] \/ run'[r] = NotOngoing(run[r])
    BY <1>6 DEF HerodCmd
  <2>2. \A r \in Runs : /\ run'[r].online = run[r].online /\ run'[r].joinl = run[r].joinl
                        /\ run'[r].ongoing => run[r].ongoing
                        /\ run'[r].marker = run[r].marker
    BY <1>1, <1>2, <2>1
  <2> QED  BY <2>1, <2>2 DEF RunnerCourse
<1>7. CASE \/ NewRunCmd \/ NewRunTakeChange \/ NewRunResize \/ (\E r \in Runs : HerodRun(r))
           \/ HerodShutdownReturns \/ HerodClear \/ UpdateCmd \/ (\E g \in Groups : UpdateStop(g))
           \/ UpdateUnlock \/ UpdateJoined \/ UpdateEnd \/ UpdateJoinTimeout
  <2>1. UNCHANGED <<run, we>>
    BY <1>7 DEF NewRunCmd, NewRunTakeChange, NewRunResize, HerodRun, HerodShutdownReturns, HerodClear, UpdateCmd,
         UpdateStop, UpdateUnlock, UpdateJoined, UpdateEnd, UpdateJoinTimeout
  <2> QED  BY <2>1 DEF RunnerCourse
<1> QED  BY <1>3, <1>4, <1>5, <1>6, <1>7 DEF RunnerNext

LEMMA WatchRunner ==
  ASSUME StateInv, RunInv, WatchInv, SettleDelay, RunnerNext \/ UpdateJoinTimeout, ~NewRunStart
  PROVE  WatchInv'
<1>1. RunnerEffect /\ RunnerCourse
  BY RunnerEffects, RunnerCourses
<1>2. /\ UNCHANGED <<rr, runs>>
      /\ \A x \in Res : /\ res'[x].wd = res[x].wd /\ res'[x].pstate = res[x].pstate
                        /\ Alive(x)' => Alive(x)
                        /\ res'[x].obj = res[x].obj
  BY <1>1 DEF RunnerEffect
<1>3. \A x \in Res : Active(x) => InList(x[1])' /\ Cpu(x) \in run'[x[1]].joinl
  BY <1>1, <1>2, ResType DEF RunnerCourse, WatchInv, WatchInOrder, InList
<1>4. \A s \in Runs : we'[s] = we[s] \/ (we'[s] = [NoEnd EXCEPT !.pc = "join"] /\ ~StartInProgress(s))
  <2>1. CASE UNCHANGED we
    BY <2>1
  <2>2. CASE ~UNCHANGED we
    BY <1>1, <2>2 DEF RunnerCourse
  <2> QED  BY <2>1, <2>2
<1>5. [NoEnd EXCEPT !.pc = "join"].seen = {} /\ ~[NoEnd EXCEPT !.pc = "join"].cut /\ [NoEnd EXCEPT !.pc = "join"].pc = "join"
  BY DEF NoEnd
<1>6. \A s \in Runs : StartInProgress(s) => we'[s].pc = we[s].pc /\ InList(s)'
  BY <1>2, <1>4 DEF WatchInv, StartsInOrder, InList
<1>7. \A s \in Runs : ~we'[s].cut
  BY <1>4, <1>5 DEF WatchInv, JoinsInOrder
<1>8. \A x \in Res : Joined(x)' => NoWatchdog(x)
  BY <1>4, <1>5, ResType DEF Joined, WatchInv, JoinsInOrder
<1> QED  BY <1>2, <1>3, <1>6, <1>7, <1>8, WatchQuiet

LEMMA ListGrows ==
  ASSUME runs \in Seq(Runs), NEW r \in Runs, runs' = Append(runs, r)
  PROVE  \A s \in Runs : InList(s)' <=> InList(s) \/ s = r
<1>1. /\ Len(runs) \in Nat /\ DOMAIN runs = 1 .. Len(runs) /\ DOMAIN runs' = 1 .. (Len(runs) + 1)
      /\ \A i \in 1 .. Len(runs) : runs'[i] = runs[i]
      /\ runs'[Len(runs) + 1] = r
  BY AppendProperties
<1>2. Len(runs) + 1 \in DOMAIN runs'
  BY <1>1
<1>3. \A s \in Runs : InList(s) => InList(s)'
  BY <1>1 DEF InList
<1>4. InList(r)'
  BY <1>1, <1>2 DEF InList
<1>5. ASSUME NEW s \in Runs, InList(s)', s # r  PROVE  InList(s)
  BY <1>1, <1>5 DEF InList
<1> QED  BY <1>3, <1>4, <1>5

\* The run that the RunRanger starts has not been touched before.
LEMMA BeginsFresh ==
  ASSUME StateInv, RunInv, WatchInv, NEW P, BeginEffect(P)
  PROVE  /\ ~InList(cr.run) /\ ~Started(cr.run) /\ we[cr.run].pc = "none" /\ ~run[cr.run].ongoing
         /\ ~StartInProgress(cr.run)
         /\ \A x \in Res : x[1] = cr.run => ~Active(x)
<1>1. ~Started(cr.run)
  BY DEF BeginEffect, RunInv, RunsInOrder, RunnerInOrder, Started
<1>2. ~InList(cr.run) /\ we[cr.run].pc = "none"
  BY <1>1 DEF BeginEffect, RunInv, RunsInOrder, ThreadsInOrder
<1>3. ~run[cr.run].ongoing
  BY <1>2 DEF BeginEffect, RunInv, OngoingListed
<1>4. \A x \in Res : x[1] = cr.run => ~Active(x)
  BY <1>2 DEF WatchInv, WatchInOrder
<1>5. ~StartInProgress(cr.run)
  BY <1>2 DEF BeginEffect, WatchInv, StartsInOrder
<1> QED  BY <1>1, <1>2, <1>3, <1>4, <1>5

LEMMA WatchBegin ==
  ASSUME StateInv, RunInv, WatchInv, NewRunStart
  PROVE  WatchInv'
<1>1. PICK P : BeginEffect(P)
  BY BeginEffects
<1> DEFINE New(x) == x[1] = cr.run /\ Cpu(x) \in P
<1>2. /\ cr.run \in Runs /\ UNCHANGED <<rr, we>> /\ \A s \in Runs : InList(s)' <=> InList(s) \/ s = cr.run
  BY <1>1, ListGrows DEF BeginEffect, StateInv, StateTypeOK
<1>3. /\ ~InList(cr.run) /\ we[cr.run].pc = "none" /\ ~StartInProgress(cr.run)
      /\ \A x \in Res : x[1] = cr.run => ~Active(x)
  BY <1>1, BeginsFresh
<1>4. \A x \in Res : New(x) => /\ res'[x].obj /\ res'[x].wd = "watch" /\ res'[x].pstate = "running"
                               /\ InList(x[1])' /\ Cpu(x) \in run'[x[1]].joinl
  BY <1>1, <1>2, ResType DEF BeginEffect
<1>5. \A x \in Res : ~New(x) => res'[x] = res[x]
  BY <1>1 DEF BeginEffect
<1>6. \A x \in Res : New(x) => ~Active(x)
  BY <1>3
<1>7. \A s \in Runs \ {cr.run} : run'[s] = run[s]
  BY <1>1 DEF BeginEffect
<1> HIDE DEF New
<1>8. /\ \A x \in Res : Starting(x)' <=> Starting(x)
      /\ \A r \in Runs : StartInProgress(r)' <=> StartInProgress(r)
      /\ \A x \in Res : Joined(x)' <=> Joined(x)
  BY <1>2 DEF Starting, StartInProgress, Joined
<1>9. StartsInOrder'
  <2>1. \A x \in Res : Starting(x)' => x[1] = rr'.run /\ IF rr'.pc = "start" THEN ~Alive(x)' ELSE res'[x].obj
    BY <1>2, <1>5, <1>6, <1>8 DEF WatchInv, StartsInOrder, Alive, Active
  <2> QED  BY <1>2, <1>8, <2>1 DEF WatchInv, StartsInOrder
<1>10. WatchInOrder'
  <2> SUFFICES ASSUME NEW x \in Res
               PROVE  /\ Alive(x)' => res'[x].wd = "watch" \/ Starting(x)'
                      /\ res'[x].wd = "watch" => res'[x].pstate = "running" /\ res'[x].obj
                      /\ ~NoWatchdog(x)' => res'[x].pstate # "none"
                      /\ Active(x)' => InList(x[1])' /\ Cpu(x) \in run'[x[1]].joinl
    BY DEF WatchInOrder
  <2>1. CASE New(x)
    BY <1>4, <2>1
  <2>2. CASE ~New(x)
    <3>1. res'[x] = res[x] /\ (Active(x)' <=> Active(x)) /\ (NoWatchdog(x)' <=> NoWatchdog(x))
      BY <1>5, <1>8, <2>2 DEF Active, NoWatchdog
    <3>2. Active(x) => InList(x[1])' /\ Cpu(x) \in run'[x[1]].joinl
      BY <1>2, <1>3, <1>7, ResType DEF WatchInv, WatchInOrder
    <3> QED  BY <1>8, <3>1, <3>2 DEF WatchInv, WatchInOrder, Alive
  <2> QED  BY <2>1, <2>2
<1>11. JoinsInOrder'
  <2>1. \A x \in Res : Joined(x) => ~New(x)
    <3> SUFFICES ASSUME NEW x \in Res, Joined(x), New(x)  PROVE  FALSE
      OBVIOUS
    <3> QED  BY <1>3 DEF New, Joined
  <2> QED  BY <1>2, <1>5, <1>8, <2>1 DEF WatchInv, JoinsInOrder, NoWatchdog
<1> QED  BY <1>9, <1>10, <1>11 DEF WatchInv

LEMMA LastOngoingIsOngoing ==
  ASSUME runs \in Seq(Runs), LastOngoingRun # NoRun
  PROVE  LastOngoingRun \in Runs /\ run[LastOngoingRun].ongoing /\ InList(LastOngoingRun)
<1> DEFINE last == {i \in DOMAIN runs : /\ run[runs[i]].ongoing
                                        /\ \A j \in (i + 1) .. Len(runs) : ~run[runs[j]].ongoing}
<1>1. last # {} /\ LastOngoingRun = runs[CHOOSE i \in last : TRUE]
  BY DEF LastOngoingRun
<1>2. PICK i \in last : i = CHOOSE j \in last : TRUE
  BY <1>1
<1>3. i \in DOMAIN runs /\ LastOngoingRun = runs[i] /\ run[runs[i]].ongoing
  BY <1>1, <1>2
<1>4. runs[i] \in Runs
  BY <1>3
<1> QED  BY <1>3, <1>4 DEF InList

LEMMA WatchRangerOthers ==
  ASSUME StateInv, RunInv, HeldInv, WatchInv, OtherEffect, UNCHANGED runs
  PROVE  WatchInv'
<1>1. \A y \in Res : ~Starting(y)'
  BY DEF OtherEffect, Starting
<1>2. /\ \A y \in Res : NoWatchdog(y)' <=> NoWatchdog(y)
      /\ \A y \in Res : Joined(y)' <=> Joined(y)
      /\ \A y \in Res : Alive(y)' <=> Alive(y)
      /\ \A r \in Runs : InList(r)' <=> InList(r)
  BY DEF OtherEffect, NoWatchdog, Joined, Alive, InList
<1>3. RangerTake \/ rr' = rr \/ rr'.pc = "wait"
  BY DEF OtherEffect, WatchInv, StartsInOrder
<1>4. StartsInOrder'
  <2>1. CASE rr' = rr
    <3>1. rr'.pc \in {"wait", "acquire"}
      BY <2>1 DEF OtherEffect, WatchInv, StartsInOrder
    <3>2. \A r \in Runs : StartInProgress(r)' <=> StartInProgress(r)
      BY <2>1 DEF StartInProgress
    <3> QED  BY <1>1, <1>2, <2>1, <3>1, <3>2 DEF OtherEffect, WatchInv, StartsInOrder
  <2>2. CASE RangerTake /\ rr' # rr
    <3>1. rr'.pc = "acquire" /\ rr'.run = LastOngoingRun /\ rr'.dir # "quarantined"
      BY <2>2, TakesNoOwner
    <3>2. ASSUME NEW r \in Runs, StartInProgress(r)'  PROVE  we'[r].pc = "none" /\ InList(r)'
      <4>1. r = LastOngoingRun /\ r # NoRun
        BY <3>1, <3>2, StateAssumption DEF StartInProgress
      <4>2. run[r].ongoing /\ InList(r)
        BY <4>1, LastOngoingIsOngoing DEF StateInv, StateTypeOK
      <4> QED  BY <1>2, <4>2 DEF OtherEffect, RunInv, RunsInOrder, EndingInOrder
    <3> QED  BY <1>1, <3>1, <3>2 DEF StartsInOrder
  <2>3. CASE rr'.pc = "wait"
    <3>1. \A r \in Runs : ~StartInProgress(r)'
      BY <2>3 DEF StartInProgress
    <3> QED  BY <1>1, <2>3, <3>1 DEF StartsInOrder
  <2> QED  BY <1>3, <2>1, <2>2, <2>3
<1>5. WatchInOrder'
  <2>1. \A y \in Res : Alive(y) => res[y].wd = "watch"
    BY DEF OtherEffect, WatchInv, WatchInOrder, StartsInOrder, Starting
  <2>2. \A y \in Res : Active(y)' => Active(y)
    BY <1>1, <1>2 DEF Active
  <2> QED  BY <1>1, <1>2, <2>1, <2>2, ResType DEF OtherEffect, WatchInv, WatchInOrder
<1>6. JoinsInOrder'
  BY <1>2 DEF OtherEffect, WatchInv, JoinsInOrder
<1> QED  BY <1>4, <1>5, <1>6 DEF WatchInv

LEMMA WatchAcquire ==
  ASSUME StateInv, HeldInv, WatchInv, RangerAcquire
  PROVE  WatchInv'
<1>1. PICK g : AcquireEffect(g)
  BY AcquireEffects
<1>2. PICK x \in Res : x = <<rr.run, g>>
  BY <1>1 DEF AcquireEffect
<1>3. UNCHANGED runs /\ rr.dir \in Watched
  BY DEF RangerAcquire, StateInv, StateTypeOK, RangerState
<1>4. ~Held(x)
  BY <1>1, <1>2, <1>3 DEF AcquireEffect, HeldInv, OneHolder, Cpu, In, Watched
<1>5. we[rr.run].pc = "none" /\ InList(rr.run) /\ rr.run \in Runs
  BY <1>1 DEF AcquireEffect, WatchInv, StartsInOrder, StartInProgress
<1>6. /\ \A y \in Res : (Starting(y)' <=> y = x) /\ ~Starting(y)
      /\ \A r \in Runs : (InList(r)' <=> InList(r)) /\ (StartInProgress(r)' <=> r = rr.run)
      /\ rr'.pc = "start" /\ rr'.run = rr.run /\ x[1] = rr.run
  BY <1>1, <1>2, <1>3 DEF AcquireEffect, Starting, InList, StartInProgress
<1>7. /\ \A y \in Res \ {x} : res'[y] = res[y]
      /\ res'[x] = res[x] \/ res'[x] = NewRes
      /\ NewRes.proc = "none" /\ NewRes.wd = "none"
  BY <1>1, <1>2 DEF AcquireEffect, NewRes
<1>8. ~Alive(x)' /\ res'[x].wd # "watch" /\ (~NoWatchdog(x)' => ~NoWatchdog(x) /\ res'[x] = res[x])
  BY <1>4, <1>7 DEF Held, Alive, NoWatchdog
<1>9. StartsInOrder'
  BY <1>1, <1>5, <1>6, <1>8 DEF AcquireEffect, StartsInOrder
<1>10. WatchInOrder'
  <2> SUFFICES ASSUME NEW y \in Res
               PROVE  /\ Alive(y)' => res'[y].wd = "watch" \/ Starting(y)'
                      /\ res'[y].wd = "watch" => res'[y].pstate = "running" /\ res'[y].obj
                      /\ ~NoWatchdog(y)' => res'[y].pstate # "none"
                      /\ Active(y)' => InList(y[1])' /\ Cpu(y) \in run'[y[1]].joinl
    BY DEF WatchInOrder
  <2>1. CASE y = x
    <3>1. InList(x[1])' /\ Cpu(x) \in run'[x[1]].joinl
      BY <1>1, <1>2, <1>5, <1>6 DEF AcquireEffect, Cpu
    <3> QED  BY <1>8, <2>1, <3>1 DEF WatchInv, WatchInOrder
  <2>2. CASE y # x
    <3>1. res'[y] = res[y] /\ (Active(y)' <=> Active(y)) /\ (NoWatchdog(y)' <=> NoWatchdog(y)) /\ (Alive(y)' <=> Alive(y))
      BY <1>6, <1>7, <2>2 DEF Active, NoWatchdog, Alive
    <3>2. InList(y[1]) => InList(y[1])'
      BY <1>6, ResType
    <3>3. run[y[1]].joinl \subseteq run'[y[1]].joinl
      BY <1>1, ResType DEF AcquireEffect
    <3> QED  BY <1>6, <3>1, <3>2, <3>3 DEF WatchInv, WatchInOrder
  <2> QED  BY <2>1, <2>2
<1>11. JoinsInOrder'
  <2>1. \A y \in Res : Joined(y)' => Joined(y)
    BY <1>1, ResType DEF AcquireEffect, Joined
  <2>2. \A y \in Res : NoWatchdog(y) => NoWatchdog(y)'
    BY <1>7, <1>8 DEF NoWatchdog
  <2> QED  BY <1>1, <2>1, <2>2 DEF AcquireEffect, WatchInv, JoinsInOrder
<1> QED  BY <1>9, <1>10, <1>11 DEF WatchInv

LEMMA WatchStart ==
  ASSUME StateInv, HeldInv, WatchInv, RangerStart \/ RangerRestarted
  PROVE  WatchInv'
<1>1. StartEffect \/ RestartEffect
  BY StartEffects, RestartEffects
<1>2. PICK x : x = rr.res
  OBVIOUS
<1>3. /\ UNCHANGED <<runs, run, we>> /\ RangerIdle.pc = "wait"
      /\ \/ rr' = RangerIdle
         \/ rr'.pc = "rejoin" /\ rr'.run = rr.run /\ rr'.res = rr.res /\ rr.pc = "start"
      /\ rr.pc \in {"start", "rejoin"}
      /\ \A y \in Res \ {x} : res'[y] = res[y]
  BY <1>1, <1>2 DEF StartEffect, RestartEffect, RangerStart, RangerRestarted, RangerIdle
<1>4. /\ \A y \in Res \ {x} : ~Starting(y) /\ ~Starting(y)'
      /\ \A r \in Runs : (InList(r)' <=> InList(r)) /\ (StartInProgress(r)' => StartInProgress(r))
      /\ \A y \in Res : Joined(y)' <=> Joined(y)
      /\ x \in Res => Starting(x)
  BY <1>2, <1>3 DEF Starting, InList, StartInProgress, Joined
<1>5. ASSUME x \in Res
      PROVE  /\ res'[x].wd = "watch" => res'[x].pstate = "running"
             /\ res'[x].obj
             /\ res'[x].wd = "watch" \/ Starting(x)'
             /\ ~NoWatchdog(x)' => res'[x].pstate # "none"
             /\ Starting(x)' => rr'.pc = "rejoin" /\ x[1] = rr'.run
             /\ InList(x[1])' /\ Cpu(x) \in run'[x[1]].joinl /\ ~Joined(x)
  <2>1. Starting(x) /\ Active(x) /\ res[x].wd # "watch" /\ ~Joined(x)
    BY <1>4, <1>5, StartingInProgress DEF Active, HeldInv, MovesInOrder
  <2>2. /\ InList(x[1])' /\ Cpu(x) \in run'[x[1]].joinl
        /\ x[1] = rr.run
        /\ Starting(x)' => rr'.pc = "rejoin" /\ x[1] = rr'.run
    BY <1>3, <1>4, <1>5, <2>1, ResType DEF WatchInv, WatchInOrder, StartsInOrder, Starting
  <2>3. CASE StartEffect
    <3>1. CASE res[x].wd = "none"
      BY <1>2, <1>5, <2>1, <2>2, <2>3, <3>1 DEF StartEffect
    <3>2. CASE res[x].wd # "none"
      <4>1. rr'.pc = "rejoin" /\ rr'.res = x /\ res'[x].obj /\ res'[x].wd = res[x].wd /\ res'[x].pstate = res[x].pstate
        BY <1>2, <1>3, <1>5, <2>3, <3>2 DEF StartEffect, RangerIdle
      <4> QED  BY <1>5, <2>1, <2>2, <4>1 DEF WatchInv, WatchInOrder, NoWatchdog, Starting
    <3> QED  BY <3>1, <3>2
  <2>4. CASE RestartEffect
    <3>1. res[x].obj
      BY <1>5, <2>1, <2>4 DEF WatchInv, StartsInOrder, RestartEffect
    <3> QED  BY <1>2, <1>5, <2>1, <2>2, <2>4, <3>1 DEF RestartEffect
  <2> QED  BY <1>1, <2>3, <2>4
<1>6. StartsInOrder'
  <2>1. rr'.pc \in {"wait", "rejoin"}
    BY <1>3
  <2>2. \A r \in Runs : StartInProgress(r)' => we'[r].pc = "none" /\ InList(r)'
    BY <1>3, <1>4 DEF WatchInv, StartsInOrder
  <2>3. \A y \in Res : Starting(y)' => y[1] = rr'.run /\ IF rr'.pc = "start" THEN ~Alive(y)' ELSE res'[y].obj
    BY <1>4, <1>5, <2>1
  <2> QED  BY <2>1, <2>2, <2>3 DEF StartsInOrder
<1>7. WatchInOrder'
  <2> SUFFICES ASSUME NEW y \in Res
               PROVE  /\ Alive(y)' => res'[y].wd = "watch" \/ Starting(y)'
                      /\ res'[y].wd = "watch" => res'[y].pstate = "running" /\ res'[y].obj
                      /\ ~NoWatchdog(y)' => res'[y].pstate # "none"
                      /\ Active(y)' => InList(y[1])' /\ Cpu(y) \in run'[y[1]].joinl
    BY DEF WatchInOrder
  <2>1. CASE y = x
    BY <1>5, <2>1
  <2>2. CASE y # x
    <3>1. res'[y] = res[y] /\ (Active(y)' <=> Active(y)) /\ (NoWatchdog(y)' <=> NoWatchdog(y)) /\ (Alive(y)' <=> Alive(y))
      BY <1>3, <1>4, <2>2 DEF Active, NoWatchdog, Alive
    <3>2. InList(y[1])' <=> InList(y[1])
      BY <1>4, ResType
    <3> QED  BY <1>3, <1>4, <2>2, <3>1, <3>2 DEF WatchInv, WatchInOrder
  <2> QED  BY <2>1, <2>2
<1>8. JoinsInOrder'
  <2> SUFFICES ASSUME NEW y \in Res, Joined(y)  PROVE  NoWatchdog(y)'
    BY <1>3, <1>4 DEF WatchInv, JoinsInOrder
  <2>1. y # x
    BY <1>5
  <2> QED  BY <1>3, <2>1 DEF WatchInv, JoinsInOrder, NoWatchdog
<1> QED  BY <1>6, <1>7, <1>8 DEF WatchInv

LEMMA WatchStep ==
  ASSUME SettleDelay
  PROVE  TypeInv /\ RunInv /\ (Undisturbed => HeldInv /\ WatchInv) /\ [Next]_vars
           => (Undisturbed => WatchInv)'
<1> SUFFICES ASSUME TypeInv, RunInv, Undisturbed => HeldInv /\ WatchInv, [Next]_vars, Undisturbed'
             PROVE  WatchInv'
  OBVIOUS
<1>1. Undisturbed /\ HeldInv /\ WatchInv /\ StateInv
  BY UndisturbedBefore DEF TypeInv
<1>2. CASE \E x \in Res : WatchdogNext(x)
  BY <1>1, <1>2, WatchWatchdog
<1>3. CASE RangerNext \/ RangerJoinTimeout
  <2>1. CASE RangerAcquire
    BY <1>1, <2>1, WatchAcquire
  <2>2. CASE RangerStart \/ RangerRestarted
    BY <1>1, <2>2, WatchStart
  <2>3. CASE ~(RangerAcquire \/ RangerStart \/ RangerRestarted)
    BY <1>1, <1>3, <2>3, OtherEffects, WatchRangerOthers DEF RangerNext
  <2> QED  BY <2>1, <2>2, <2>3
<1>4. CASE RunnerNext \/ UpdateJoinTimeout
  BY <1>1, <1>4, WatchBegin, WatchRunner
<1>5. CASE \E r \in Runs : WaitForEndNext(r)
  BY <1>1, <1>5, WatchWaitForEnd
<1>6. ASSUME NEW r \in Runs, ShutdownNext(r)  PROVE  FALSE
  BY <1>1, <1>6 DEF Undisturbed, ShutdownNext, ShutdownBegin, ShutdownKill, ShutdownJoin, ShutdownClear,
       ShutdownReset, ShutdownRemove, ShutdownRmtree
<1>7. ASSUME UNCHANGED <<rr, runs, we>>,
             \A x \in Res : /\ res'[x].wd = res[x].wd /\ res'[x].pstate = res[x].pstate
                            /\ Alive(x)' => Alive(x)
                            /\ res'[x].obj = res[x].obj,
             \A r \in Runs : run'[r].joinl = run[r].joinl
      PROVE  WatchInv'
  <2>1. \A r \in Runs : StartInProgress(r) => we'[r].pc = we[r].pc /\ InList(r)'
    BY <1>1, <1>7 DEF WatchInv, StartsInOrder, InList
  <2>2. \A r \in Runs : ~we'[r].cut
    BY <1>1, <1>7 DEF WatchInv, JoinsInOrder
  <2>3. \A x \in Res : Active(x) => InList(x[1])' /\ Cpu(x) \in run'[x[1]].joinl
    BY <1>1, <1>7, ResType DEF WatchInv, WatchInOrder, InList
  <2>4. \A x \in Res : Joined(x)' => NoWatchdog(x)
    BY <1>1, <1>7 DEF WatchInv, JoinsInOrder, Joined
  <2> QED  BY <1>1, <1>7, <2>1, <2>2, <2>3, <2>4, WatchQuiet
<1>8. ASSUME NEW x \in Res, ProcessEnds(x) \/ StrayEnds(x) \/ ProcessCrashes(x)
      PROVE  WatchInv'
  BY <1>1, <1>7, <1>8, ProcessEffects DEF Alive
<1>9. CASE \/ \E r \in Runs : NotifyNewRun(r) \/ NotifyEnd(r)
           \/ \E r \in Runs \union {NoRun} : Herod(r)
           \/ \E d \in {-1, 1} : CpuChange(d)
           \/ UNCHANGED vars
  <2>1. UNCHANGED <<res, rr, runs, we>>
    BY <1>9 DEF NotifyNewRun, NotifyEnd, Herod, CpuChange, vars, fuVars
  <2>2. run \in [Runs -> RunState]
    BY <1>1 DEF StateInv, StateTypeOK
  <2>3. \A r \in Runs : run'[r].joinl = run[r].joinl
    BY <1>9, <2>2 DEF NotifyNewRun, NotifyEnd, Herod, CpuChange, vars, fuVars, RunState
  <2> QED  BY <1>7, <2>1, <2>3 DEF Alive
<1>10. ASSUME NEW c \in Cores, NEW dir \in {"idle", "quarantined"}, MoveByHand(c, dir)  PROVE  FALSE
  BY <1>1, <1>10 DEF MoveByHand, Spend, Undisturbed, TypeInv, Bounds
<1> QED  BY <1>2, <1>3, <1>4, <1>5, <1>6, <1>8, <1>9, <1>10 DEF Next, Threads, Timeouts

LEMMA WatchInit == Init => WatchInv
BY DEF Init, WatchInv, StartsInOrder, WatchInOrder, JoinsInOrder, StartInProgress, Starting, Alive, Active,
       NoWatchdog, Joined, NewRes, NoEnd, RangerIdle

\* As long as nobody moves core files by hand and no run is shut down, every
\* process has the watchdog that waits for it, or is being given it.
THEOREM ProcessWatchedHolds ==
  ASSUME SettleDelay
  PROVE  Spec => [](Undisturbed => ProcessWatched)
<1>1. WatchInv => ProcessWatched
  BY DEF WatchInv, WatchInOrder, ProcessWatched
<1>2. Init => (Undisturbed => HeldInv) /\ (Undisturbed => WatchInv)
  BY HeldInit, WatchInit
<1> QED  BY <1>1, <1>2, InitTypes, TypeInvStep, InitRuns, RunInvStep, HeldStep, WatchStep, PTL DEF Spec

-----------------------------------------------------------------------------
(* A run leaves the RunList for good                                         *)

\* A run is listed once, and it stays listed until its directory is gone.
OnceListed == \A i, j \in DOMAIN runs : runs[i] = runs[j] => i = j
ListedUntilGone ==
  \A r \in Runs : /\ Started(r) => InList(r) \/ run[r].marker = "gone"
                  /\ we[r].pc = "remove" => run[r].marker = "gone"
GoneInv == OnceListed /\ ListedUntilGone

LEMMA RemovedOnce ==
  ASSUME runs \in Seq(Runs), OnceListed, NEW r \in Runs, RemoveRun(r)
  PROVE  ~InList(r)' /\ OnceListed'
<1>1. CASE ~InList(r)
  BY <1>1 DEF RemoveRun, InList, OnceListed
<1>2. CASE InList(r)
  <2>1. PICK i \in DOMAIN runs : runs[i] = r /\ runs' = Without(i)
    BY <1>2 DEF RemoveRun
  <2>2. /\ i \in 1 .. Len(runs) /\ Len(runs) \in Nat /\ DOMAIN runs = 1 .. Len(runs)
        /\ runs' \in Seq(Runs) /\ Len(runs') = Len(runs) - 1
        /\ \A k \in 1 .. (Len(runs) - 1) : runs'[k] = IF k <= i - 1 THEN runs[k] ELSE runs[k + 1]
    BY <2>1, WithoutElements
  <2>3. DOMAIN runs' = 1 .. (Len(runs) - 1)
    BY <2>2
  <2>4. ASSUME NEW k \in DOMAIN runs', runs'[k] = r  PROVE  FALSE
    <3>1. k \in 1 .. (Len(runs) - 1) /\ k \in DOMAIN runs /\ k + 1 \in DOMAIN runs
      BY <2>2, <2>3
    <3>2. CASE k <= i - 1
      <4>1. runs[k] = runs[i] /\ k # i
        BY <2>1, <2>2, <2>4, <3>1, <3>2
      <4> QED  BY <3>1, <4>1 DEF OnceListed
    <3>3. CASE ~(k <= i - 1)
      <4>1. runs[k + 1] = runs[i] /\ k + 1 # i
        BY <2>1, <2>2, <2>4, <3>1, <3>3
      <4> QED  BY <3>1, <4>1 DEF OnceListed
    <3> QED  BY <3>2, <3>3
  <2>5. ASSUME NEW k \in DOMAIN runs', NEW j \in DOMAIN runs', runs'[k] = runs'[j]  PROVE  k = j
    <3> DEFINE old(m) == IF m <= i - 1 THEN m ELSE m + 1
    <3>1. /\ k \in 1 .. (Len(runs) - 1) /\ j \in 1 .. (Len(runs) - 1)
          /\ old(k) \in DOMAIN runs /\ old(j) \in DOMAIN runs
      BY <2>2, <2>3
    <3>2. runs[old(k)] = runs[old(j)]
      BY <2>2, <2>5, <3>1
    <3>3. old(k) = old(j)
      BY <3>1, <3>2 DEF OnceListed
    <3> QED  BY <2>2, <3>1, <3>3
  <2> QED  BY <2>4, <2>5 DEF InList, OnceListed
<1> QED  BY <1>1, <1>2

\* A step that leaves the RunList as it is, brings no run to life and removes no
\* directory again.
LEMMA GoneQuiet ==
  ASSUME GoneInv, UNCHANGED runs,
         \A r \in Runs : /\ Started(r)' => Started(r)
                         /\ run[r].marker = "gone" => run'[r].marker = "gone"
                         /\ we'[r].pc = "remove" => we[r].pc = "remove" \/ run'[r].marker = "gone"
  PROVE  GoneInv'
BY DEF GoneInv, OnceListed, ListedUntilGone, InList

LEMMA GoneWaitForEnd ==
  ASSUME StateInv, RunInv, GoneInv, NEW r \in Runs, WaitForEndNext(r)
  PROVE  GoneInv'
<1>1. /\ we \in [Runs -> EndState] /\ we[r] \in EndState /\ run \in [Runs -> RunState] /\ run[r] \in RunState
      /\ runs \in Seq(Runs)
  BY DEF StateInv, StateTypeOK
<1>2. we[r].pc # "none" /\ Started(r)
  BY DEF WaitForEndNext, WaitForEndJoin, WaitForEndClear, WaitForEndReset, WaitForEndRmtree, WaitForEndRemove,
     RunInv, RunsInOrder, ThreadsInOrder
<1>3. CASE WaitForEndRemove(r)
  <2>1. OnceListed' /\ \A s \in Runs : InList(s) /\ s # r => InList(s)'
    BY <1>1, <1>3, RemovedOnce, RemoveRunType DEF WaitForEndRemove, GoneInv
  <2>2. /\ UNCHANGED run /\ we[r].pc = "remove" /\ we'[r].pc = "done"
        /\ \A s \in Runs \ {r} : we'[s] = we[s]
    BY <1>1, <1>3 DEF WaitForEndRemove, EndState
  <2> QED  BY <2>1, <2>2 DEF GoneInv, ListedUntilGone, Started
<1>4. CASE ~WaitForEndRemove(r)
  <2>1. /\ UNCHANGED runs
        /\ \A s \in Runs \ {r} : we'[s] = we[s] /\ run'[s] = run[s]
        /\ run[r].marker = "gone" => run'[r].marker = "gone"
        /\ we'[r].pc = "remove" => run'[r].marker = "gone"
    <3>1. CASE WaitForEndJoin(r) \/ WaitForEndClear(r)
      BY <1>1, <3>1, ZenonT(60) DEF WaitForEndJoin, WaitForEndClear, EndState
    <3>2. CASE WaitForEndReset(r)
      BY <1>1, <3>2 DEF WaitForEndReset, EndState, RunState
    <3>3. CASE WaitForEndRmtree(r)
      BY <1>1, <3>3 DEF WaitForEndRmtree, EndState, RunState
    <3> QED  BY <1>4, <3>1, <3>2, <3>3 DEF WaitForEndNext
  <2>2. \A s \in Runs : /\ Started(s)' => Started(s)
                        /\ run[s].marker = "gone" => run'[s].marker = "gone"
                        /\ we'[s].pc = "remove" => we[s].pc = "remove" \/ run'[s].marker = "gone"
    BY <1>2, <2>1 DEF Started
  <2> QED  BY <2>1, <2>2, GoneQuiet
<1> QED  BY <1>3, <1>4

\* What is listed is not listed a second time, because a run is announced once.
LEMMA GoneBegin ==
  ASSUME StateInv, RunInv, WatchInv, GoneInv, NewRunStart
  PROVE  GoneInv'
<1>1. PICK P : BeginEffect(P)
  BY BeginEffects
<1>2. /\ cr.run \in Runs /\ UNCHANGED we /\ runs \in Seq(Runs) /\ runs' = Append(runs, cr.run)
      /\ \A s \in Runs \ {cr.run} : run'[s] = run[s]
  BY <1>1 DEF BeginEffect, StateInv, StateTypeOK
<1>3. ~InList(cr.run) /\ ~Started(cr.run) /\ we[cr.run].pc = "none"
  BY <1>1, BeginsFresh
<1>4. \A s \in Runs : InList(s)' <=> InList(s) \/ s = cr.run
  BY <1>2, ListGrows
<1>5. OnceListed'
  <2>1. /\ Len(runs) \in Nat /\ DOMAIN runs = 1 .. Len(runs) /\ DOMAIN runs' = 1 .. (Len(runs) + 1)
        /\ \A i \in 1 .. Len(runs) : runs'[i] = runs[i]
        /\ runs'[Len(runs) + 1] = cr.run
    BY <1>2, AppendProperties
  <2>2. \A i \in 1 .. Len(runs) : runs[i] # cr.run
    BY <1>3, <2>1 DEF InList
  <2> QED  BY <2>1, <2>2 DEF GoneInv, OnceListed
<1>6. ListedUntilGone'
  BY <1>2, <1>3, <1>4 DEF GoneInv, ListedUntilGone, Started
<1> QED  BY <1>5, <1>6 DEF GoneInv

LEMMA GoneRunner ==
  ASSUME StateInv, RunInv, GoneInv, RunnerNext \/ UpdateJoinTimeout, ~NewRunStart
  PROVE  GoneInv'
<1>1. UNCHANGED runs /\ RunnerCourse
  BY RunnerEffects, RunnerCourses DEF RunnerEffect
<1>2. CASE UNCHANGED we
  <2>1. \A r \in Runs : run'[r].marker = run[r].marker \/ (run'[r].marker = "stopping" /\ run[r].marker # "gone" /\ Started(r))
    BY <1>1, <1>2 DEF RunnerCourse, RunInv, RunsInOrder, RunnerInOrder
  <2> QED  BY <1>1, <1>2, <2>1, GoneQuiet DEF Started
<1>3. CASE ~UNCHANGED we
  <2>1. PICK r \in Runs : /\ cr.pc = "endsleep" /\ cr.run = r /\ run[r].marker # "gone" /\ run'[r].marker = "stopping"
                          /\ we'[r] = [NoEnd EXCEPT !.pc = "join"]
                          /\ \A s \in Runs \ {r} : we'[s] = we[s] /\ run'[s].marker = run[s].marker
    BY <1>1, <1>3 DEF RunnerCourse
  <2>2. Started(r) /\ we'[r].pc = "join"
    BY <2>1 DEF RunInv, RunsInOrder, RunnerInOrder, NoEnd
  <2>3. \A s \in Runs : /\ Started(s)' => Started(s)
                        /\ run[s].marker = "gone" => run'[s].marker = "gone"
                        /\ we'[s].pc = "remove" => we[s].pc = "remove" \/ run'[s].marker = "gone"
    BY <2>1, <2>2 DEF Started
  <2> QED  BY <1>1, <2>3, GoneQuiet
<1> QED  BY <1>2, <1>3

LEMMA GoneStep ==
  ASSUME TypeInv, RunInv, HeldInv, WatchInv, GoneInv, Undisturbed, [Next]_vars
  PROVE  GoneInv'
<1>1. StateInv /\ run \in [Runs -> RunState]
  BY DEF TypeInv, StateInv, StateTypeOK
<1>2. ASSUME UNCHANGED <<runs, we>>, \A r \in Runs : run'[r].marker = run[r].marker  PROVE  GoneInv'
  BY <1>2, GoneQuiet DEF Started
<1>3. CASE \E x \in Res : WatchdogNext(x)
  BY <1>1, <1>2, <1>3, WatchdogEffects DEF WatchdogEffect, HeldInv, MovesInOrder
<1>4. CASE RangerNext \/ RangerJoinTimeout
  <2>1. CASE RangerAcquire
    <3>1. PICK g : AcquireEffect(g)
      BY <1>1, <2>1, AcquireEffects
    <3> QED  BY <2>1, <3>1, GoneQuiet DEF AcquireEffect, RangerAcquire, Started
  <2>2. CASE ~RangerAcquire
    <3>1. UNCHANGED <<runs, we, run>>
      BY <1>4, <2>2 DEF RangerNext, RangerTake, RangerStop, RangerJoined, RangerJoinTimeout, RangerJoinReturns,
           RangerSkip, RangerUnbreak, RangerStartFails, RangerStart, RangerRestarted
    <3> QED  BY <1>2, <3>1
  <2> QED  BY <2>1, <2>2
<1>5. CASE RunnerNext \/ UpdateJoinTimeout
  BY <1>1, <1>5, GoneBegin, GoneRunner
<1>6. CASE \E r \in Runs : WaitForEndNext(r)
  BY <1>1, <1>6, GoneWaitForEnd
<1>7. ASSUME NEW r \in Runs, ShutdownNext(r)  PROVE  FALSE
  BY <1>7 DEF Undisturbed, ShutdownNext, ShutdownBegin, ShutdownKill, ShutdownJoin, ShutdownClear,
       ShutdownReset, ShutdownRemove, ShutdownRmtree
<1>8. ASSUME NEW r \in Runs, NotifyNewRun(r)  PROVE  GoneInv'
  <2>1. /\ UNCHANGED <<runs, we>>
        /\ run[r].marker = "none" /\ run'[r].marker = "new"
        /\ \A s \in Runs \ {r} : run'[s].marker = run[s].marker
    BY <1>1, <1>8 DEF NotifyNewRun, RunState
  <2> QED  BY <2>1, GoneQuiet DEF Started
<1>9. CASE \/ \E x \in Res : ProcessEnds(x) \/ StrayEnds(x) \/ ProcessCrashes(x)
           \/ \E r \in Runs : NotifyEnd(r)
           \/ \E r \in Runs \union {NoRun} : Herod(r)
           \/ \E d \in {-1, 1} : CpuChange(d)
           \/ \E c \in Cores, dir \in {"idle", "quarantined"} : MoveByHand(c, dir)
           \/ UNCHANGED vars
  <2>1. UNCHANGED <<runs, we>> /\ \A s \in Runs : run'[s].marker = run[s].marker
    BY <1>1, <1>9, ZenonT(60) DEF ProcessEnds, StrayEnds, ProcessCrashes, NotifyEnd, Herod, CpuChange, MoveByHand, vars, fuVars, RunState
  <2> QED  BY <1>2, <2>1
<1> QED  BY <1>3, <1>4, <1>5, <1>6, <1>7, <1>8, <1>9 DEF Next, Threads, Timeouts

LEMMA GoneInit == Init => GoneInv
<1> SUFFICES ASSUME Init  PROVE  GoneInv
  OBVIOUS
<1>1. runs = <<>> /\ \A r \in Runs : run[r].marker = "none" /\ we[r].pc = "none"
  BY DEF Init, NoEnd
<1> QED  BY <1>1 DEF GoneInv, OnceListed, ListedUntilGone, Started

-----------------------------------------------------------------------------
(* The end of a run is heard once                                            *)

\* An end command is queued once, and not again while the RunRanger handles it.
OneEndCommand ==
  /\ \A i, j \in DOMAIN cmds : cmds[i].op = "end" /\ cmds[i] = cmds[j] => i = j
  /\ cr.pc = "endsleep" => ~Queued("end", cr.run)
\* What the end of a run has come to, by its end file, its command and WaitForEnd.
EndInTurn(r) ==
  /\ EndAsked(r) => run[r].endfile /\ we[r].pc = "none"
  /\ run[r].endfile => EndAsked(r) \/ we[r].pc \in {"join", "clear"}
  /\ we[r].pc \in {"join", "clear"} => run[r].endfile
  /\ run[r].marker = "active" => we[r].pc = "none"
  /\ run[r].marker = "gone" => we[r].pc \in {"remove", "done"}
EndInv == OneEndCommand /\ \A r \in Runs : EndInTurn(r)

\* The run of an end command is still in the RunList, and its directory is there.
LEMMA AskedListed ==
  ASSUME RunInv, GoneInv, EndInv, NEW r \in Runs, EndAsked(r)
  PROVE  InList(r) /\ run[r].marker # "gone" /\ Started(r)
<1>1. Started(r)
  BY DEF EndAsked, RunInv, RunsInOrder, CommandsInOrder, RunnerInOrder
<1>2. run[r].marker # "gone"
  BY DEF EndInv, EndInTurn
<1> QED  BY <1>1, <1>2 DEF GoneInv, ListedUntilGone

\* What a step does to the queue of commands, as far as ends are concerned.
LEMMA EndAppended ==
  ASSUME StateInv, OneEndCommand, UNCHANGED cr, NEW c \in Command, cmds' = Append(cmds, c),
         c.op = "end" => ~EndAsked(c.run)
  PROVE  /\ OneEndCommand'
         /\ \A r : EndAsked(r)' <=> EndAsked(r) \/ c = [op |-> "end", run |-> r]
<1>1. cmds \in Seq(Command)
  BY DEF StateInv, StateTypeOK
<1>2. \A op, r : Queued(op, r)' <=> Queued(op, r) \/ c = [op |-> op, run |-> r]
  BY <1>1, QueuedAppend
<1>3. /\ Len(cmds) \in Nat /\ DOMAIN cmds = 1 .. Len(cmds) /\ DOMAIN cmds' = 1 .. (Len(cmds) + 1)
      /\ \A i \in 1 .. Len(cmds) : cmds'[i] = cmds[i]
      /\ cmds'[Len(cmds) + 1] = c
  BY <1>1, AppendProperties
<1>4. c = [op |-> c.op, run |-> c.run]
  BY DEF Command
<1>5. c.op = "end" => \A i \in 1 .. Len(cmds) : cmds[i] # c
  BY <1>3, <1>4 DEF EndAsked, Queued
<1>6. \A i, j \in DOMAIN cmds' : cmds'[i].op = "end" /\ cmds'[i] = cmds'[j] => i = j
  BY <1>3, <1>5 DEF OneEndCommand
<1>7. ASSUME NEW r, r = cr.run, cr.pc = "endsleep"  PROVE  ~Queued("end", r)'
  <2>1. ~Queued("end", r) /\ EndAsked(r)
    BY <1>7 DEF OneEndCommand, EndAsked
  <2>2. c # [op |-> "end", run |-> r]
    <3> SUFFICES ASSUME c = [op |-> "end", run |-> r]  PROVE  FALSE
      OBVIOUS
    <3>1. c.op = "end" /\ c.run = r
      OBVIOUS
    <3> QED  BY <2>1, <3>1
  <2> QED  BY <1>2, <2>1, <2>2
<1>8. \A r : EndAsked(r)' <=> EndAsked(r) \/ c = [op |-> "end", run |-> r]
  BY <1>2 DEF EndAsked
<1> QED  BY <1>6, <1>7, <1>8 DEF OneEndCommand

LEMMA EndTaken ==
  ASSUME StateInv, RunInv, OneEndCommand, NEW op, Command1(op)
  PROVE  /\ \A i, j \in DOMAIN cmds' : cmds'[i].op = "end" /\ cmds'[i] = cmds'[j] => i = j
         /\ \A r : Queued("end", r)' <=> Queued("end", r) /\ ~(op = "end" /\ r = CmdRun)
         /\ cr.pc = "wait"
         /\ op = "end" => Queued("end", CmdRun)
<1>1. /\ cr.pc = "wait" /\ Queued(op, CmdRun)
      /\ \A o, r : Queued(o, r)' => Queued(o, r)
      /\ \A o, r : Queued(o, r) /\ ~(o = op /\ r = CmdRun) => Queued(o, r)'
  BY TakeCommand
<1>2. /\ cmds \in Seq(Command) /\ cmds # <<>> /\ cmds' = Tail(cmds) /\ Head(cmds).op = op
  BY DEF Command1, StateInv, StateTypeOK
<1>3. /\ Len(cmds) \in Nat \ {0} /\ DOMAIN cmds = 1 .. Len(cmds) /\ DOMAIN cmds' = 1 .. (Len(cmds) - 1)
      /\ \A i \in 1 .. (Len(cmds) - 1) : cmds'[i] = cmds[i + 1] /\ i + 1 \in DOMAIN cmds
      /\ Head(cmds) = cmds[1] /\ 1 \in DOMAIN cmds /\ cmds[1] \in Command
  BY <1>2, HeadTailProperties
<1>4. ASSUME NEW i \in DOMAIN cmds', NEW j \in DOMAIN cmds', cmds'[i].op = "end", cmds'[i] = cmds'[j]
      PROVE  i = j
  <2>1. i + 1 = j + 1
    BY <1>3, <1>4 DEF OneEndCommand
  <2> QED  BY <1>3, <2>1
<1>5. ASSUME op = "end", NEW r, r = CmdRun, Queued("end", r)'  PROVE  FALSE
  <2>1. PICK i \in DOMAIN cmds' : cmds'[i] = [op |-> "end", run |-> r]
    BY <1>5 DEF Queued
  <2>2. cmds[1] = [op |-> "end", run |-> r]
    <3>1. cmds[1] = [op |-> cmds[1].op, run |-> cmds[1].run]
      BY <1>3 DEF Command
    <3> QED  BY <1>2, <1>3, <1>5, <3>1 DEF CmdRun
  <2>3. cmds[i + 1] = cmds[1] /\ cmds[i + 1].op = "end" /\ i + 1 \in DOMAIN cmds /\ 1 \in DOMAIN cmds
    BY <1>3, <2>1, <2>2
  <2>4. i + 1 = 1
    BY <2>3 DEF OneEndCommand
  <2> QED  BY <1>3, <2>4
<1> QED  BY <1>1, <1>4, <1>5

\* A step that neither asks for the end of a run nor answers.
LEMMA EndQuiet ==
  ASSUME EndInv, OneEndCommand', \A r \in Runs : EndAsked(r)' <=> EndAsked(r),
         \A r \in Runs : /\ run'[r].endfile = run[r].endfile /\ we'[r].pc = we[r].pc
                         /\ \/ run'[r].marker = run[r].marker
                            \/ run'[r].marker \notin {"active", "gone"}
                            \/ run'[r].marker = "active" /\ we[r].pc = "none"
  PROVE  EndInv'
BY DEF EndInv, EndInTurn

\* The same for a step that leaves the commands alone.
LEMMA EndSameCommands ==
  ASSUME EndInv, UNCHANGED <<cmds, cr>> \/ (UNCHANGED cmds /\ cr.pc # "endsleep" /\ cr'.pc # "endsleep")
  PROVE  OneEndCommand' /\ \A r \in Runs : EndAsked(r)' <=> EndAsked(r)
<1>1. \A op, r : Queued(op, r)' <=> Queued(op, r)
  BY DEF Queued
<1> QED  BY <1>1 DEF EndInv, OneEndCommand, EndAsked

\* The end file of a run is written by the BU or by a watchdog.
LEMMA EndWritten ==
  ASSUME StateInv, EndInv, UNCHANGED cr, NEW r \in Runs, ~run[r].endfile, we[r].pc = "none",
         Send("end", r), run' = [run EXCEPT ![r].endfile = TRUE],
         \A s \in Runs : we'[s].pc = we[s].pc
  PROVE  EndInv'
<1> DEFINE c == [op |-> "end", run |-> r]
<1>1. c \in Command /\ c.op = "end" /\ c.run = r /\ cmds' = Append(cmds, c)
  BY DEF Command, Send
<1>2. ~EndAsked(r)
  BY DEF EndInv, EndInTurn
<1>3. \A s \in Runs : c = [op |-> "end", run |-> s] <=> s = r
  OBVIOUS
<1> HIDE DEF c
<1>4. OneEndCommand' /\ \A s \in Runs : EndAsked(s)' <=> EndAsked(s) \/ s = r
  BY <1>1, <1>2, <1>3, EndAppended DEF EndInv
<1>5. /\ \A s \in Runs \ {r} : run'[s] = run[s]
      /\ run'[r].endfile /\ run'[r].marker = run[r].marker
  BY DEF StateInv, StateTypeOK, RunState
<1>6. EndInTurn(r)'
  BY <1>4, <1>5 DEF EndInv, EndInTurn
<1>7. \A s \in Runs \ {r} : EndInTurn(s)'
  BY <1>4, <1>5 DEF EndInv, EndInTurn
<1> QED  BY <1>4, <1>6, <1>7 DEF EndInv

\* A watchdog writes it before WaitForEnd has waited for that watchdog.
LEMMA EndWatchdog ==
  ASSUME StateInv, RunInv, WatchInv, EndInv, NEW x \in Res, WatchdogNext(x)
  PROVE  EndInv'
<1>1. UNCHANGED <<cr, we>> /\ run \in [Runs -> RunState] /\ x[1] \in Runs /\ run[x[1]] \in RunState
  BY ResType DEF StateInv, StateTypeOK, WatchdogNext, WatchdogLost, WatchdogAborted, WatchdogError, WatchdogSuccess,
       WatchdogStopSeen, WatchdogToIdle, WatchdogToBroken, WatchdogToQuarantined,
       WatchdogRemoveMark, WatchdogMark, WatchdogFlag, WatchdogDelete, WatchdogRelease, WatchdogDelist
<1>2. CASE UNCHANGED <<cmds, run>>
  BY <1>1, <1>2, EndSameCommands, EndQuiet
<1>3. CASE WatchdogSuccess(x) /\ ~UNCHANGED <<cmds, run>>
  <2>1. PICK r \in Runs : r = x[1]
    BY <1>1
  <2>2. ~run[r].endfile /\ Send("end", r) /\ run' = [run EXCEPT ![r].endfile = TRUE] /\ res[x].wd = "watch"
    BY <1>3, <2>1 DEF WatchdogSuccess, Ended
  <2>3. ~Joined(x)
    BY <2>2 DEF WatchInv, JoinsInOrder, NoWatchdog
  <2>4. we[r].pc \notin {"join", "clear", "tail", "remove", "done"}
    BY <2>1, <2>2, <2>3 DEF Joined, EndInv, EndInTurn
  <2>5. we[r].pc = "none"
    BY <2>4 DEF StateInv, StateTypeOK, EndState
  <2> QED  BY <1>1, <2>2, <2>5, EndWritten
<1>4. CASE WatchdogRemoveMark(x) \/ WatchdogDelist(x)
  <2>1. /\ UNCHANGED cmds
        /\ \E b : run' = [run EXCEPT ![x[1]].qfile = b] \/ run' = [run EXCEPT ![x[1]].online = b]
    BY <1>4 DEF WatchdogRemoveMark, WatchdogDelist
  <2>2. \A r \in Runs : run'[r].endfile = run[r].endfile /\ run'[r].marker = run[r].marker
    BY <1>1, <2>1 DEF RunState
  <2> QED  BY <1>1, <2>1, <2>2, EndSameCommands, EndQuiet
<1>5. CASE WatchdogMark(x) /\ ~UNCHANGED <<cmds, run>>
  <2> DEFINE c == [op |-> "quarantined", run |-> x[1]]
  <2>1. c \in Command /\ c.op # "end" /\ \A r : c # [op |-> "end", run |-> r]
    BY <1>1 DEF Command
  <2>2. cmds' = Append(cmds, c) /\ run' = [run EXCEPT ![x[1]].qfile = TRUE]
    BY <1>5 DEF WatchdogMark, Send
  <2> HIDE DEF c
  <2>3. OneEndCommand' /\ \A r \in Runs : EndAsked(r)' <=> EndAsked(r)
    BY <1>1, <2>1, <2>2, EndAppended DEF EndInv
  <2>4. \A r \in Runs : run'[r].endfile = run[r].endfile /\ run'[r].marker = run[r].marker
    BY <1>1, <2>2 DEF RunState
  <2> QED  BY <1>1, <2>3, <2>4, EndQuiet
<1> QED  BY <1>2, <1>3, <1>4, <1>5 DEF WatchdogNext, WatchdogLost, WatchdogAborted, WatchdogError, WatchdogSuccess,
       WatchdogStopSeen, WatchdogToIdle, WatchdogToBroken, WatchdogToQuarantined, WatchdogMark,
       WatchdogFlag, WatchdogDelete, WatchdogRelease

LEMMA EndRanger ==
  ASSUME StateInv, EndInv, RangerNext \/ RangerJoinTimeout
  PROVE  EndInv'
<1>1. UNCHANGED <<cmds, cr>>
  BY DEF RangerNext, RangerTake, RangerStop, RangerJoined, RangerJoinTimeout, RangerJoinReturns, RangerAcquire,
         RangerSkip, RangerUnbreak, RangerStartFails, RangerStart, RangerRestarted
<1>2. \A r \in Runs : run'[r].endfile = run[r].endfile /\ run'[r].marker = run[r].marker /\ we'[r].pc = we[r].pc
  <2>1. CASE RangerAcquire
    <3>1. PICK g : AcquireEffect(g)
      BY <2>1, AcquireEffects
    <3>2. run \in [Runs -> RunState] /\ rr.run \in Runs
      BY <3>1 DEF AcquireEffect, StateInv, StateTypeOK
    <3>3. PICK h : AcquireResource(rr.run, h)
      BY <2>1 DEF RangerAcquire
    <3>4. run' = [run EXCEPT ![rr.run] = [run[rr.run] EXCEPT !.online = run[rr.run].online \union {h},
                                                             !.joinl = run[rr.run].joinl \union {h}]]
      BY <3>2, <3>3 DEF AcquireResource
    <3>5. \A r \in Runs : run'[r].endfile = run[r].endfile
      BY <3>2, <3>4 DEF RunState
    <3> QED  BY <3>1, <3>5 DEF AcquireEffect
  <2>2. CASE ~RangerAcquire
    BY <2>2 DEF RangerNext, RangerTake, RangerStop, RangerJoined, RangerJoinTimeout, RangerJoinReturns,
         RangerSkip, RangerUnbreak, RangerStartFails, RangerStart, RangerRestarted
  <2> QED  BY <2>1, <2>2
<1> QED  BY <1>1, <1>2, EndSameCommands, EndQuiet

\* The command of an end finds its run in the RunList, and the RunRanger sleeps on it.
LEMMA EndHeard ==
  ASSUME StateInv, RunInv, GoneInv, EndInv, EndRunCmd
  PROVE  EndInv'
<1>1. /\ cr.pc = "wait" /\ Queued("end", CmdRun)
      /\ \A i, j \in DOMAIN cmds' : cmds'[i].op = "end" /\ cmds'[i] = cmds'[j] => i = j
      /\ \A r : Queued("end", r)' <=> Queued("end", r) /\ ~("end" = "end" /\ r = CmdRun)
  BY EndTaken DEF EndRunCmd, EndInv
<1>2. CmdRun \in Runs
  BY CommandTypes DEF EndRunCmd
<1>3. InList(CmdRun)
  <2>1. PICK r \in Runs : r = CmdRun
    BY <1>2
  <2>2. EndAsked(r)
    BY <1>1, <2>1 DEF EndAsked
  <2> QED  BY <2>1, <2>2, AskedListed
<1>4. /\ run' = [run EXCEPT ![CmdRun] = NotOngoing(run[CmdRun])]
      /\ cr' = [RunnerIdle EXCEPT !.pc = "endsleep", !.run = CmdRun]
      /\ UNCHANGED we
  BY <1>3 DEF EndRunCmd
<1>5. cr'.pc = "endsleep" /\ cr'.run = CmdRun
  BY <1>4 DEF RunnerIdle
<1>6. OneEndCommand' /\ \A r \in Runs : EndAsked(r)' <=> EndAsked(r)
  <2>1. PICK r \in Runs : r = CmdRun
    BY <1>2
  <2>2. ~Queued("end", r)' /\ cr'.pc = "endsleep" /\ cr'.run = r
    BY <1>1, <1>5, <2>1
  <2>3. OneEndCommand'
    BY <1>1, <2>2 DEF OneEndCommand
  <2>4. \A s \in Runs : EndAsked(s)' <=> EndAsked(s)
    BY <1>1, <2>1, <2>2 DEF EndAsked
  <2> QED  BY <2>3, <2>4
<1>7. \A r \in Runs : run'[r].endfile = run[r].endfile /\ run'[r].marker = run[r].marker
  BY <1>2, <1>4 DEF NotOngoing, StateInv, StateTypeOK, RunState
<1> QED  BY <1>4, <1>6, <1>7, EndQuiet

\* WaitForEnd begins once, and from now on no command of this end is left.
LEMMA EndAnswered ==
  ASSUME StateInv, RunInv, GoneInv, EndInv, EndRunStart
  PROVE  EndInv'
<1>1. cr.pc = "endsleep" /\ cr.run \in Runs
  BY DEF EndRunStart, RunInv, RunsInOrder, RunnerInOrder
<1>2. PICK r \in Runs : r = cr.run
  BY <1>1
<1>3. EndAsked(r)
  BY <1>1, <1>2 DEF EndAsked
<1>4. run[r].marker # "gone" /\ run[r].endfile /\ we[r].pc = "none" /\ ~Queued("end", r)
  BY <1>1, <1>2, <1>3 DEF EndInv, EndInTurn, OneEndCommand
<1>5. /\ run' = [run EXCEPT ![r].marker = "stopping"]
      /\ we' = [we EXCEPT ![r] = [NoEnd EXCEPT !.pc = "join"]]
      /\ cr' = RunnerIdle /\ UNCHANGED cmds
  BY <1>2, <1>4 DEF EndRunStart
<1>6. /\ \A s \in Runs \ {r} : run'[s] = run[s] /\ we'[s] = we[s]
      /\ run'[r].endfile = run[r].endfile /\ run'[r].marker = "stopping" /\ we'[r].pc = "join"
  BY <1>5 DEF StateInv, StateTypeOK, RunState, NoEnd
<1>7. cr'.pc # "endsleep" /\ \A op, s : Queued(op, s)' <=> Queued(op, s)
  BY <1>5 DEF RunnerIdle, Queued
<1>8. OneEndCommand'
  BY <1>5, <1>7 DEF EndInv, OneEndCommand
<1>9. EndInTurn(r)'
  BY <1>4, <1>6, <1>7 DEF EndInTurn, EndAsked
<1>10. ASSUME NEW s \in Runs \ {r}  PROVE  EndInTurn(s)'
  <2>1. EndAsked(s)' <=> EndAsked(s)
    BY <1>2, <1>7 DEF EndAsked
  <2> QED  BY <1>6, <2>1 DEF EndInv, EndInTurn
<1> QED  BY <1>8, <1>9, <1>10 DEF EndInv

LEMMA EndBegin ==
  ASSUME StateInv, RunInv, WatchInv, EndInv, NewRunStart
  PROVE  EndInv'
<1>1. PICK P : BeginEffect(P)
  BY BeginEffects
<1>2. we[cr.run].pc = "none" /\ cr.run \in Runs
  BY <1>1, BeginsFresh DEF BeginEffect
<1>3. /\ cr.pc = "acquire" /\ cr' = RunnerIdle /\ UNCHANGED <<cmds, we>>
      /\ \E Q : run' = [run EXCEPT ![cr.run] = [@ EXCEPT !.ongoing = TRUE, !.online = Q,
                                                          !.joinl = Q, !.marker = "active"]]
  BY DEF NewRunStart
<1>4. \A r \in Runs : /\ run'[r].endfile = run[r].endfile
                      /\ run'[r].marker = IF r = cr.run THEN "active" ELSE run[r].marker
  BY <1>2, <1>3 DEF StateInv, StateTypeOK, RunState
<1>5. cr.pc # "endsleep" /\ cr'.pc # "endsleep"
  BY <1>3 DEF RunnerIdle
<1> QED  BY <1>2, <1>3, <1>4, <1>5, EndSameCommands, EndQuiet

LEMMA EndRunner ==
  ASSUME StateInv, RunInv, WatchInv, GoneInv, EndInv, RunnerNext \/ UpdateJoinTimeout
  PROVE  EndInv'
<1>1. CASE EndRunCmd \/ EndRunStart \/ NewRunStart
  BY <1>1, EndHeard, EndAnswered, EndBegin
<1>2. run \in [Runs -> RunState] /\ cr \in RunnerState
  BY DEF StateInv, StateTypeOK
<1>3. CASE NewRunCmd \/ QuarantinedCmd \/ HerodCmd \/ UpdateCmd
  <2>1. PICK op \in {"run", "quarantined", "herod", "update"} : Command1(op)
    BY <1>3 DEF NewRunCmd, QuarantinedCmd, HerodCmd, UpdateCmd
  <2>2. /\ cr.pc = "wait" /\ \A i, j \in DOMAIN cmds' : cmds'[i].op = "end" /\ cmds'[i] = cmds'[j] => i = j
        /\ \A r : Queued("end", r)' <=> Queued("end", r)
    BY <2>1, EndTaken DEF EndInv
  <2>3. cr'.pc # "endsleep" /\ UNCHANGED we
    <3>1. CASE NewRunCmd
      BY <3>1 DEF NewRunCmd, RunnerIdle
    <3>2. CASE QuarantinedCmd
      BY <2>2, <3>2 DEF QuarantinedCmd
    <3>3. CASE HerodCmd
      BY <3>3 DEF HerodCmd, RunnerIdle
    <3>4. CASE UpdateCmd
      <4>1. \/ cr' = RunnerIdle
            \/ \E v, n : cr' = [RunnerIdle EXCEPT !.pc = "update", !.run = LastOngoingRun,
                                  !.visit = v, !.left = n]
        BY <3>4 DEF UpdateCmd, UpdateShrink
      <4>2. ASSUME NEW v, NEW n,
                   cr' = [RunnerIdle EXCEPT !.pc = "update", !.run = LastOngoingRun, !.visit = v, !.left = n]
            PROVE  cr'.pc = "update"
        BY <4>2 DEF RunnerIdle
      <4>3. RunnerIdle.pc = "wait" /\ UNCHANGED we
        BY <3>4 DEF UpdateCmd, RunnerIdle
      <4> QED  BY <4>1, <4>2, <4>3
    <3> QED  BY <1>3, <3>1, <3>2, <3>3, <3>4
  <2>4. OneEndCommand' /\ \A r \in Runs : EndAsked(r)' <=> EndAsked(r)
    BY <2>2, <2>3 DEF OneEndCommand, EndAsked
  <2>5. \A r \in Runs : run'[r].endfile = run[r].endfile /\ run'[r].marker = run[r].marker
    <3>1. CASE UNCHANGED run
      BY <3>1
    <3>2. CASE QuarantinedCmd
      <4>1. \E b, c : run' = [run EXCEPT ![CmdRun].qfile = b, ![CmdRun].pending = c]
        BY <3>2 DEF QuarantinedCmd
      <4> QED  BY <1>2, <4>1 DEF RunState
    <3>3. CASE HerodCmd
      <4>1. \A r \in Runs : run'[r] = run[r] \/ run'[r] = NotOngoing(run[r])
        BY <3>3 DEF HerodCmd
      <4>2. \A o \in RunState : NotOngoing(o).marker = o.marker /\ NotOngoing(o).endfile = o.endfile
        BY DEF NotOngoing, RunState
      <4> QED  BY <1>2, <4>1, <4>2
    <3> QED  BY <1>3, <3>1, <3>2, <3>3 DEF NewRunCmd, UpdateCmd
  <2> QED  BY <2>3, <2>4, <2>5, EndQuiet
<1>4. CASE \/ NewRunTakeChange \/ NewRunResize \/ (\E r \in Runs : HerodRun(r))
           \/ HerodShutdownReturns \/ HerodClear \/ (\E g \in Groups : UpdateStop(g))
           \/ UpdateUnlock \/ UpdateJoined \/ UpdateEnd \/ UpdateJoinTimeout
  <2>1. UNCHANGED <<cmds, run, we>> /\ cr.pc # "endsleep"
    BY <1>4 DEF NewRunTakeChange, NewRunResize, HerodRun, HerodShutdownReturns, HerodClear,
         UpdateStop, UpdateUnlock, UpdateJoined, UpdateEnd, UpdateJoinTimeout
  <2>2. cr'.pc # "endsleep"
    <3>1. CASE HerodClear \/ UpdateEnd
      BY <3>1 DEF HerodClear, UpdateEnd, RunnerIdle
    <3>2. CASE NewRunTakeChange \/ NewRunResize \/ (\E r \in Runs : HerodRun(r)) \/ HerodShutdownReturns
      BY <1>2, <3>2 DEF NewRunTakeChange, NewRunResize, HerodRun, HerodShutdownReturns, RunnerState
    <3>3. CASE (\E g \in Groups : UpdateStop(g)) \/ UpdateUnlock \/ UpdateJoined \/ UpdateJoinTimeout
      BY <1>2, <3>3 DEF UpdateStop, UpdateUnlock, UpdateJoined, UpdateJoinTimeout, RunnerState
    <3> QED  BY <1>4, <3>1, <3>2, <3>3
  <2> QED  BY <2>1, <2>2, EndSameCommands, EndQuiet
<1> QED  BY <1>1, <1>3, <1>4 DEF RunnerNext

\* WaitForEnd removes the end file, when no command of it is left.
LEMMA EndWaitForEnd ==
  ASSUME StateInv, EndInv, NEW r \in Runs, WaitForEndNext(r)
  PROVE  EndInv'
<1>1. we \in [Runs -> EndState] /\ we[r] \in EndState /\ run \in [Runs -> RunState] /\ run[r] \in RunState
  BY DEF StateInv, StateTypeOK
<1>2. OneEndCommand' /\ \A s \in Runs : EndAsked(s)' <=> EndAsked(s)
  <2>1. UNCHANGED <<cmds, cr>>
    BY DEF WaitForEndNext, WaitForEndJoin, WaitForEndClear, WaitForEndReset, WaitForEndRmtree, WaitForEndRemove
  <2> QED  BY <2>1, EndSameCommands
<1>3. EndInTurn(r) /\ we[r].pc # "none" /\ ~EndAsked(r)
  BY DEF EndInv, EndInTurn, WaitForEndNext, WaitForEndJoin, WaitForEndClear, WaitForEndReset,
         WaitForEndRmtree, WaitForEndRemove
<1>4. \A s \in Runs \ {r} : run'[s] = run[s] /\ we'[s] = we[s]
  <2>1. CASE WaitForEndClear(r)
    BY <2>1, ClearEffects DEF ClearEffect
  <2>2. CASE ~WaitForEndClear(r)
    BY <1>1, <2>2 DEF WaitForEndNext, WaitForEndJoin, WaitForEndReset, WaitForEndRmtree, WaitForEndRemove
  <2> QED  BY <2>1, <2>2
<1>5. EndInTurn(r)'
  <2>1. CASE WaitForEndJoin(r)
    <3>1. UNCHANGED run /\ we[r].pc = "join" /\ we'[r].pc = "clear"
      BY <1>1, <2>1 DEF WaitForEndJoin, EndState
    <3> QED  BY <1>2, <1>3, <3>1 DEF EndInTurn
  <2>2. CASE WaitForEndClear(r)
    <3>1. UNCHANGED run /\ we[r].pc = "clear" /\ we'[r].pc = "join"
      BY <2>2, ClearEffects DEF ClearEffect
    <3> QED  BY <1>2, <1>3, <3>1 DEF EndInTurn
  <2>3. CASE WaitForEndReset(r)
    <3>1. run[r].marker # "gone"
      BY <1>3, <2>3 DEF WaitForEndReset, EndInTurn
    <3>2. we'[r].pc = "tail" /\ ~run'[r].endfile /\ run'[r].marker = "complete"
      BY <1>1, <2>3, <3>1 DEF WaitForEndReset, EndState, RunState
    <3> QED  BY <1>2, <1>3, <3>2 DEF EndInTurn
  <2>4. CASE WaitForEndRmtree(r)
    <3>1. we[r].pc = "tail" /\ we'[r].pc = "remove" /\ run'[r].endfile = run[r].endfile /\ run'[r].marker = "gone"
      BY <1>1, <2>4 DEF WaitForEndRmtree, EndState, RunState
    <3> QED  BY <1>2, <1>3, <3>1 DEF EndInTurn
  <2>5. CASE WaitForEndRemove(r)
    <3>1. we[r].pc = "remove" /\ we'[r].pc = "done" /\ UNCHANGED run
      BY <1>1, <2>5 DEF WaitForEndRemove, EndState
    <3> QED  BY <1>2, <1>3, <3>1 DEF EndInTurn
  <2> QED  BY <2>1, <2>2, <2>3, <2>4, <2>5 DEF WaitForEndNext
<1>6. \A s \in Runs \ {r} : EndInTurn(s)'
  BY <1>2, <1>4 DEF EndInv, EndInTurn
<1> QED  BY <1>2, <1>5, <1>6 DEF EndInv

LEMMA EndWorld ==
  ASSUME StateInv, EndInv,
         \/ \E r \in Runs : NotifyNewRun(r) \/ NotifyEnd(r)
         \/ \E r \in Runs \union {NoRun} : Herod(r)
         \/ \E d \in {-1, 1} : CpuChange(d)
  PROVE  EndInv'
<1>1. UNCHANGED <<cr, we>> /\ run \in [Runs -> RunState]
  BY DEF NotifyNewRun, NotifyEnd, Herod, CpuChange, StateInv, StateTypeOK
<1>2. ASSUME NEW r \in Runs, NotifyEnd(r)  PROVE  EndInv'
  <2>1. /\ ~run[r].endfile /\ Send("end", r) /\ run' = [run EXCEPT ![r].endfile = TRUE]
        /\ run[r].marker = "active"
    BY <1>2 DEF NotifyEnd
  <2>2. we[r].pc = "none"
    BY <2>1 DEF EndInv, EndInTurn
  <2> QED  BY <1>1, <2>1, <2>2, EndWritten
<1>3. ASSUME NEW op \in {"run", "herod", "update"}, NEW r, Send(op, r), [op |-> op, run |-> r] \in Command
      PROVE  OneEndCommand' /\ \A s \in Runs : EndAsked(s)' <=> EndAsked(s)
  <2> DEFINE c == [op |-> op, run |-> r]
  <2>1. c.op # "end" /\ \A s : c # [op |-> "end", run |-> s]
    OBVIOUS
  <2>2. c \in Command /\ cmds' = Append(cmds, c)
    BY <1>3 DEF Send
  <2> HIDE DEF c
  <2> QED  BY <1>1, <2>1, <2>2, EndAppended DEF EndInv
<1>4. ASSUME NEW r \in Runs, NotifyNewRun(r)  PROVE  EndInv'
  <2>1. Send("run", r) /\ run' = [run EXCEPT ![r].marker = "new"] /\ [op |-> "run", run |-> r] \in Command
    BY <1>4 DEF NotifyNewRun, Command
  <2>2. \A s \in Runs : /\ run'[s].endfile = run[s].endfile
                        /\ run'[s].marker = run[s].marker \/ run'[s].marker = "new"
    BY <1>1, <2>1 DEF RunState
  <2> QED  BY <1>1, <1>3, <2>1, <2>2, EndQuiet
<1>5. CASE (\E r \in Runs \union {NoRun} : Herod(r)) \/ (\E d \in {-1, 1} : CpuChange(d))
  <2>1. \A r \in Runs \union {NoRun} :
          [op |-> "herod", run |-> r] \in Command /\ [op |-> "update", run |-> NoRun] \in Command
    BY DEF Command
  <2>2. UNCHANGED run /\ (UNCHANGED cmds \/ \E op \in {"herod", "update"}, r \in Runs \union {NoRun} :
                                              Send(op, r) /\ [op |-> op, run |-> r] \in Command)
    BY <1>5, <2>1 DEF Herod, CpuChange
  <2>3. OneEndCommand' /\ \A s \in Runs : EndAsked(s)' <=> EndAsked(s)
    BY <1>1, <1>3, <2>2, EndSameCommands
  <2> QED  BY <1>1, <2>2, <2>3, EndQuiet
<1> QED  BY <1>2, <1>4, <1>5

LEMMA EndStep ==
  ASSUME TypeInv, RunInv, WatchInv, GoneInv, EndInv, Undisturbed, Undisturbed', [Next]_vars
  PROVE  EndInv'
<1>1. StateInv
  BY DEF TypeInv
<1>2. CASE \E x \in Res : WatchdogNext(x)
  BY <1>1, <1>2, EndWatchdog
<1>3. CASE RangerNext \/ RangerJoinTimeout
  BY <1>1, <1>3, EndRanger
<1>4. CASE RunnerNext \/ UpdateJoinTimeout
  BY <1>1, <1>4, EndRunner
<1>5. CASE \E r \in Runs : WaitForEndNext(r)
  BY <1>1, <1>5, EndWaitForEnd
<1>6. ASSUME NEW r \in Runs, ShutdownNext(r)  PROVE  FALSE
  BY <1>6 DEF Undisturbed, ShutdownNext, ShutdownBegin, ShutdownKill, ShutdownJoin, ShutdownClear,
       ShutdownReset, ShutdownRemove, ShutdownRmtree
<1>7. CASE \/ \E x \in Res : ProcessEnds(x) \/ StrayEnds(x) \/ ProcessCrashes(x)
           \/ UNCHANGED vars
  <2>1. UNCHANGED <<cmds, cr, run, we>>
    BY <1>7 DEF ProcessEnds, StrayEnds, ProcessCrashes, vars, fuVars
  <2> QED  BY <2>1, EndSameCommands, EndQuiet
<1>8. CASE \/ \E r \in Runs : NotifyNewRun(r) \/ NotifyEnd(r)
           \/ \E r \in Runs \union {NoRun} : Herod(r)
           \/ \E d \in {-1, 1} : CpuChange(d)
  BY <1>1, <1>8, EndWorld
<1>9. ASSUME NEW c \in Cores, NEW dir \in {"idle", "quarantined"}, MoveByHand(c, dir)  PROVE  FALSE
  BY <1>9 DEF MoveByHand, Spend, Undisturbed, TypeInv, Bounds
<1> QED  BY <1>2, <1>3, <1>4, <1>5, <1>6, <1>7, <1>8, <1>9 DEF Next, Threads, Timeouts

LEMMA EndInit == Init => EndInv
<1> SUFFICES ASSUME Init  PROVE  EndInv
  OBVIOUS
<1>1. /\ cmds = <<>> /\ cr.pc = "wait"
      /\ \A r \in Runs : we[r].pc = "none" /\ ~run[r].endfile /\ run[r].marker = "none"
  BY DEF Init, NoEnd, RunnerIdle
<1> QED  BY <1>1 DEF EndInv, OneEndCommand, EndInTurn, EndAsked, Queued

\* As long as nobody moves core files by hand and no run is shut down, the end of a
\* run is heard once, whoever writes its end file: no file is left behind that
\* nobody will act on, and no second end comes to a run that is waited for.
THEOREM EndsNotLost ==
  ASSUME SettleDelay
  PROVE  Spec => [](Undisturbed => EndNotLost)
<1>1. EndInv => EndNotLost
  BY DEF EndInv, EndInTurn, EndNotLost
<1>2. Init => /\ Undisturbed => HeldInv
              /\ Undisturbed => WatchInv
              /\ Undisturbed => GoneInv /\ EndInv
  BY HeldInit, WatchInit, GoneInit, EndInit
<1>3. /\ TypeInv /\ RunInv /\ (Undisturbed => HeldInv) /\ (Undisturbed => WatchInv)
      /\ (Undisturbed => GoneInv /\ EndInv) /\ [Next]_vars
      => (Undisturbed => GoneInv /\ EndInv)'
  <2> SUFFICES ASSUME TypeInv, RunInv, Undisturbed => HeldInv, Undisturbed => WatchInv,
                      Undisturbed => GoneInv /\ EndInv, [Next]_vars, Undisturbed'
               PROVE  GoneInv' /\ EndInv'
    OBVIOUS
  <2>1. Undisturbed
    BY UndisturbedBefore
  <2>2. HeldInv /\ WatchInv /\ GoneInv /\ EndInv
    BY <2>1
  <2> QED  BY <2>1, <2>2, GoneStep, EndStep
<1> QED  BY <1>1, <1>2, <1>3, InitTypes, TypeInvStep, InitRuns, RunInvStep, HeldStep, WatchStep, PTL DEF Spec

-----------------------------------------------------------------------------
(* The threads together keep the promise of CoreLease *)

LeaseInv == HeldInv /\ WatchInv /\ GoneInv

LEMMA StageStays ==
  ASSUME NEW r \in Runs, sh[r].pc = "none", sh'[r].pc = "none",
         InList(r)' <=> InList(r), Started(r)' <=> Started(r), we'[r].pc = "none" <=> we[r].pc = "none"
  PROVE  LeaseStage(r)' = LeaseStage(r)
BY DEF LeaseStage, Started

LEMMA LentStays ==
  ASSUME NEW r \in Runs, \A x \in Res : x[1] = r => (Alive(x)' <=> Alive(x))
  PROVE  Lent(r)' = Lent(r)
BY DEF Lent

LEMMA LentType ==
  ASSUME NEW r \in Runs
  PROVE  /\ Lent(r) \in SUBSET Cores
         /\ \A c : c \in Lent(r) <=> \E x \in Res : x[1] = r /\ Alive(x) /\ c \in Cpu(x)
BY ResType DEF Lent

LEMMA LentPrimed ==
  ASSUME NEW r \in Runs
  PROVE  /\ Lent(r)' \in SUBSET Cores
         /\ \A c : c \in Lent(r)' <=> \E x \in Res : x[1] = r /\ Alive(x)' /\ c \in Cpu(x)
BY ResType DEF Lent, Cpu

\* Only processes of the run r end.
LEMMA GivesBack ==
  ASSUME NEW r \in Runs,
         \A s \in Runs : LeaseStage(s)' = LeaseStage(s),
         \A x \in Res : /\ Alive(x)' => Alive(x)
                        /\ x[1] # r => (Alive(x)' <=> Alive(x))
  PROVE  Lease!GiveBack(r)
<1>1. \A s \in Runs \ {r} : Lent(s)' = Lent(s)
  BY LentStays
<1>2. PICK S \in SUBSET Lent(r) : Lent(r)' = Lent(r) \ S
  <2>1. Lent(r)' \subseteq Lent(r)
    BY LentType, LentPrimed
  <2> QED  BY <2>1
<1> QED  BY <1>1, <1>2 DEF Lease!GiveBack

\* The run r gets cores, on which no run has a process.
LEMMA GetsCores ==
  ASSUME NEW r \in Runs, NEW S \in SUBSET Cores,
         Lent(r)' = Lent(r) \union S, \A s \in Runs \ {r} : Lent(s)' = Lent(s),
         \A x \in Res : Alive(x) => Cpu(x) \cap S = {}
  PROVE  /\ S \in SUBSET Lease!Free
         /\ [s \in Runs |-> Lent(s)]' = [[s \in Runs |-> Lent(s)] EXCEPT ![r] = @ \union S]
<1>1. \A s \in Runs : Lent(s) \cap S = {}
  BY LentType
<1>2. S \in SUBSET Lease!Free
  BY <1>1 DEF Lease!Free
<1> QED  BY <1>2

LEMMA LeaseRuns ==
  ASSUME StateInv, RunInv, LeaseInv, Undisturbed, Undisturbed', RunnerNext \/ UpdateJoinTimeout
  PROVE  [Lease!LeaseNext]_(Lease!leaseVars)
<1>0. run \in [Runs -> RunState] /\ runs \in Seq(Runs) /\ \A r \in Runs : sh[r].pc = "none" /\ sh'[r].pc = "none"
  BY DEF StateInv, StateTypeOK, Undisturbed
<1>1. CASE NewRunStart
  <2>1. PICK P : BeginEffect(P)
    BY <1>1, BeginEffects
  <2>2. PICK r \in Runs : r = cr.run
    BY <2>1 DEF BeginEffect
  <2>3. /\ ~InList(r) /\ ~Started(r) /\ we[r].pc = "none"
        /\ \A x \in Res : x[1] = r => ~Active(x)
    BY <2>1, <2>2, BeginsFresh DEF LeaseInv
  <2>4. \A s \in Runs : InList(s)' <=> InList(s) \/ s = r
    BY <1>0, <2>1, <2>2, ListGrows DEF BeginEffect
  <2>5. UNCHANGED we /\ \A s \in Runs \ {r} : run'[s] = run[s]
    BY <2>1, <2>2 DEF BeginEffect
  <2>6. LeaseStage(r) = "new" /\ LeaseStage(r)' = "running"
    BY <1>0, <2>3, <2>4, <2>5 DEF LeaseStage, Started
  <2>7. \A s \in Runs \ {r} : LeaseStage(s)' = LeaseStage(s)
    BY <1>0, <2>4, <2>5, StageStays DEF Started
  <2>8. \A x \in Res : x[1] # r => (Alive(x)' <=> Alive(x))
    BY <2>1, <2>2 DEF BeginEffect, Alive
  <2>9. \A s \in Runs \ {r} : Lent(s)' = Lent(s)
    BY <2>8, LentStays
  <2>10. \A x \in Res : x[1] = r => ~Alive(x)
    BY <2>3 DEF LeaseInv, WatchInv, WatchInOrder, Active, NoWatchdog
  <2>11. PICK S \in SUBSET Cores : S = Lent(r)'
    BY LentPrimed
  <2>12. Lent(r) = {}
    BY <2>10, LentType
  <2>13. \A c \in S : where[c] = "idle"
    <3> SUFFICES ASSUME NEW c \in S  PROVE  where[c] = "idle"
      OBVIOUS
    <3>1. PICK x \in Res : x[1] = r /\ Alive(x)' /\ c \in Cpu(x)
      BY <2>11, LentPrimed
    <3>2. Cpu(x) \in P
      BY <2>1, <2>2, <2>10, <3>1 DEF BeginEffect, Alive
    <3> QED  BY <2>1, <3>1, <3>2 DEF BeginEffect, In
  <2>14. \A x \in Res : Alive(x) => Cpu(x) \cap S = {}
    BY <2>13 DEF LeaseInv, HeldInv, OneHolder, Held, In
  <2>15. /\ S \in SUBSET Lease!Free
         /\ [s \in Runs |-> Lent(s)]' = [[s \in Runs |-> Lent(s)] EXCEPT ![r] = @ \union S]
    BY <2>9, <2>11, <2>12, <2>14, GetsCores
  <2>16. Lease!Advance(r, "new", "running")
    BY <2>6, <2>7 DEF Lease!Advance
  <2>17. [s \in Runs |-> Lent(s)]' = [[s \in Runs |-> Lent(s)] EXCEPT ![r] = S]
    BY <2>12, <2>15
  <2>18. Lease!Begin(r)
    BY <2>15, <2>16, <2>17 DEF Lease!Begin
  <2> QED  BY <2>18 DEF Lease!LeaseNext
<1>2. CASE ~NewRunStart
  <2>1. UNCHANGED runs /\ RunnerCourse /\ \A x \in Res : Alive(x)' => Alive(x)
    BY <1>2, RunnerEffects, RunnerCourses DEF RunnerEffect
  <2>2. \A s \in Runs : InList(s)' <=> InList(s)
    BY <2>1 DEF InList
  <2>3. CASE UpdateJoinTimeout
    <3>1. CASE cr.run \in Runs
      <4>1. PICK r \in Runs : r = cr.run
        BY <3>1
      <4>2. UNCHANGED <<run, we>> /\ \A x \in Res : x[1] # r => res'[x] = res[x]
        BY <2>3, <4>1 DEF UpdateJoinTimeout
      <4>3. \A s \in Runs : LeaseStage(s)' = LeaseStage(s)
        BY <1>0, <2>2, <4>2, StageStays DEF Started
      <4>4. Lease!GiveBack(r)
        BY <2>1, <4>2, <4>3, GivesBack DEF Alive
      <4> QED  BY <4>4 DEF Lease!LeaseNext
    <3>2. CASE cr.run \notin Runs
      <4>1. UNCHANGED <<run, we>> /\ \A x \in Res : res'[x] = res[x]
        BY <2>3, <3>2, ResType DEF UpdateJoinTimeout
      <4>2. \A s \in Runs : LeaseStage(s)' = LeaseStage(s) /\ Lent(s)' = Lent(s)
        BY <1>0, <2>2, <4>1, StageStays, LentStays DEF Started, Alive
      <4> QED  BY <4>2 DEF Lease!leaseVars
    <3> QED  BY <3>1, <3>2
  <2>4. CASE RunnerNext
    <3>1. \A x \in Res : Alive(x)' <=> Alive(x)
      <4>1. \A x \in Res : res'[x].proc = res[x].proc
        <5>1. CASE \E g \in Groups : UpdateStop(g)
          <6>1. PICK x : StopWith(x, {"remove", "mask"})
            BY <5>1 DEF UpdateStop
          <6>2. res \in [Res -> ResState]
            BY DEF StateInv, StateTypeOK
          <6> QED  BY <6>1, <6>2 DEF StopWith, ResState
        <5>2. CASE ~\E g \in Groups : UpdateStop(g)
          BY <1>2, <2>4, <5>2 DEF RunnerNext, NewRunCmd, NewRunTakeChange, NewRunResize, EndRunCmd, EndRunStart,
             QuarantinedCmd, HerodCmd, HerodRun, HerodShutdownReturns, HerodClear, UpdateCmd, UpdateUnlock,
             UpdateJoined, UpdateEnd
        <5> QED  BY <5>1, <5>2
      <4> QED  BY <4>1 DEF Alive
    <3>2. \A s \in Runs : Lent(s)' = Lent(s)
      BY <3>1, LentStays
    <3>3. CASE /\ UNCHANGED we
               /\ \A s \in Runs : run'[s].marker = run[s].marker
      <4>1. \A s \in Runs : LeaseStage(s)' = LeaseStage(s)
        BY <1>0, <2>2, <3>3, StageStays DEF Started
      <4> QED  BY <3>2, <4>1 DEF Lease!leaseVars
    <3>4. ASSUME NEW r \in Runs, cr.pc = "endsleep", cr.run = r, run[r].marker # "gone", run'[r].marker = "stopping",
                 we'[r] = [NoEnd EXCEPT !.pc = "join"],
                 \A s \in Runs \ {r} : we'[s] = we[s] /\ run'[s].marker = run[s].marker
          PROVE  [Lease!LeaseNext]_(Lease!leaseVars)
      <4>1. Started(r) /\ Started(r)' /\ InList(r) /\ we'[r].pc = "join"
        BY <3>4 DEF RunInv, RunsInOrder, RunnerInOrder, LeaseInv, GoneInv, ListedUntilGone, NoEnd, Started
      <4>2. \A s \in Runs \ {r} : LeaseStage(s)' = LeaseStage(s)
        BY <1>0, <2>2, <3>4, StageStays DEF Started
      <4>3. LeaseStage(r)' = "ending" /\ LeaseStage(r) \in {"running", "ending"}
        BY <1>0, <2>2, <4>1 DEF LeaseStage
      <4>4. CASE LeaseStage(r) = "running"
        <5>1. Lease!Advance(r, "running", "ending")
          BY <4>2, <4>3, <4>4 DEF Lease!Advance
        <5>2. Lease!End(r)
          BY <3>2, <5>1 DEF Lease!End
        <5> QED  BY <5>2 DEF Lease!LeaseNext
      <4>5. CASE LeaseStage(r) = "ending"
        BY <3>2, <4>2, <4>3, <4>5 DEF Lease!leaseVars
      <4> QED  BY <4>3, <4>4, <4>5
    <3> QED  BY <2>1, <3>3, <3>4 DEF RunnerCourse
  <2> QED  BY <2>3, <2>4
<1> QED  BY <1>1, <1>2

\* A step after which the same processes run for runs at the same stage.
LEMMA LeaseStutters ==
  ASSUME UNCHANGED runs, \A r \in Runs : /\ sh[r].pc = "none" /\ sh'[r].pc = "none"
                                         /\ Started(r)' <=> Started(r)
                                         /\ we'[r].pc = "none" <=> we[r].pc = "none",
         \A x \in Res : Alive(x)' <=> Alive(x)
  PROVE  UNCHANGED Lease!leaseVars
<1>1. \A r \in Runs : InList(r)' <=> InList(r)
  BY DEF InList
<1>2. \A r \in Runs : LeaseStage(r)' = LeaseStage(r)
  BY <1>1, StageStays
<1>3. \A r \in Runs : Lent(r)' = Lent(r)
  BY LentStays
<1> QED  BY <1>2, <1>3 DEF Lease!leaseVars

LEMMA LeaseRanger ==
  ASSUME StateInv, LeaseInv, Undisturbed, Undisturbed', RangerNext \/ RangerJoinTimeout
  PROVE  [Lease!LeaseNext]_(Lease!leaseVars)
<1>0. \A r \in Runs : sh[r].pc = "none" /\ sh'[r].pc = "none"
  BY DEF Undisturbed
<1>1. CASE RangerTake \/ RangerStop \/ RangerJoined \/ RangerJoinTimeout \/ RangerSkip \/ RangerUnbreak
           \/ RangerStartFails
  <2>1. OtherEffect /\ UNCHANGED runs
    BY <1>1, OtherEffects
  <2> QED  BY <1>0, <2>1, LeaseStutters DEF OtherEffect, Started, Alive
<1>2. CASE RangerAcquire
  <2>1. PICK g : AcquireEffect(g)
    BY <1>2, AcquireEffects
  <2>2. UNCHANGED runs /\ rr.dir \in Watched
    BY <1>2 DEF RangerAcquire, StateInv, StateTypeOK, RangerState
  <2>3. PICK x \in Res : x = <<rr.run, g>>
    BY <2>1 DEF AcquireEffect
  <2>4. ~Alive(x)
    BY <2>1, <2>2, <2>3 DEF AcquireEffect, LeaseInv, HeldInv, OneHolder, Held, Cpu, In, Watched
  <2>5. \A y \in Res : Alive(y)' <=> Alive(y)
    BY <2>1, <2>3, <2>4 DEF AcquireEffect, Alive, NewRes
  <2> QED  BY <1>0, <2>1, <2>2, <2>5, LeaseStutters DEF AcquireEffect, Started
<1>3. CASE RangerRestarted
  <2>1. RestartEffect /\ UNCHANGED runs
    BY <1>3, RestartEffects DEF RangerRestarted
  <2>2. \A x \in Res : res'[x].proc = res[x].proc
    BY <2>1 DEF RestartEffect
  <2> QED  BY <1>0, <2>1, <2>2, LeaseStutters DEF RestartEffect, Started, Alive
<1>4. CASE RangerStart
  <2>1. StartEffect /\ UNCHANGED <<runs, run, we>>
    BY <1>4, StartEffects DEF RangerStart, StartEffect
  <2>2. CASE rr.res \notin Res
    <3>1. \A x \in Res : res'[x] = res[x]
      BY <2>1, <2>2 DEF StartEffect
    <3> QED  BY <1>0, <2>1, <3>1, LeaseStutters DEF Started, Alive
  <2>3. CASE rr.res \in Res
    <3>1. PICK x \in Res : x = rr.res
      BY <2>3
    <3>2. PICK r \in Runs : r = x[1]
      BY ResType
    <3>3. /\ Starting(x) /\ ~Alive(x) /\ Alive(x)'
          /\ \A y \in Res \ {x} : Alive(y)' <=> Alive(y)
      BY <2>1, <3>1 DEF StartEffect, Starting, Alive, LeaseInv, WatchInv, StartsInOrder
    <3>4. \A s \in Runs : LeaseStage(s)' = LeaseStage(s)
      BY <1>0, <2>1, StageStays DEF InList, Started
    <3>5. LeaseStage(r) = "running"
      BY <1>0, <3>2, <3>3, StartingInProgress DEF LeaseStage, LeaseInv
    <3>6. PICK S \in SUBSET Cores : S = Cpu(x)
      BY ResType
    <3>7. \A s \in Runs \ {r} : Lent(s)' = Lent(s)
      BY <3>2, <3>3, LentStays
    <3>8. Lent(r)' = Lent(r) \union S
      BY <3>2, <3>3, <3>6, LentType, LentPrimed
    <3>9. \A y \in Res : Alive(y) => Cpu(y) \cap S = {}
      BY <3>3, <3>6 DEF LeaseInv, HeldInv, OneHolder, Held
    <3>10. /\ S \in SUBSET Lease!Free
           /\ [s \in Runs |-> Lent(s)]' = [[s \in Runs |-> Lent(s)] EXCEPT ![r] = @ \union S]
      BY <3>7, <3>8, <3>9, GetsCores
    <3>11. Lease!Lend(r)
      BY <3>4, <3>5, <3>10 DEF Lease!Lend
    <3> QED  BY <3>11 DEF Lease!LeaseNext
  <2> QED  BY <2>2, <2>3
<1> QED  BY <1>1, <1>2, <1>3, <1>4 DEF RangerNext

LEMMA LeaseWaitForEnd ==
  ASSUME StateInv, RunInv, LeaseInv, Undisturbed, Undisturbed', NEW r \in Runs, WaitForEndNext(r)
  PROVE  [Lease!LeaseNext]_(Lease!leaseVars)
<1>1. /\ we \in [Runs -> EndState] /\ we[r] \in EndState /\ run \in [Runs -> RunState] /\ run[r] \in RunState
      /\ runs \in Seq(Runs)
      /\ \A s \in Runs : sh[s].pc = "none" /\ sh'[s].pc = "none"
  BY DEF StateInv, StateTypeOK, Undisturbed
<1>2. we[r].pc # "none" /\ Started(r)
  BY DEF WaitForEndNext, WaitForEndJoin, WaitForEndClear, WaitForEndReset, WaitForEndRmtree, WaitForEndRemove,
     RunInv, RunsInOrder, ThreadsInOrder
<1>3. CASE WaitForEndRemove(r)
  <2>1. ~InList(r)' /\ \A s \in Runs \ {r} : InList(s)' <=> InList(s)
    BY <1>1, <1>3, RemovedOnce, RemoveRunType DEF WaitForEndRemove, LeaseInv, GoneInv
  <2>2. /\ UNCHANGED <<run, res>> /\ we[r].pc = "remove" /\ we'[r].pc = "done"
        /\ \A s \in Runs \ {r} : we'[s] = we[s]
    BY <1>1, <1>3 DEF WaitForEndRemove, EndState
  <2>3. \A s \in Runs : Lent(s)' = Lent(s)
    BY <2>2, LentStays DEF Alive
  <2>4. \A s \in Runs \ {r} : LeaseStage(s)' = LeaseStage(s)
    BY <1>1, <2>1, <2>2, StageStays DEF Started
  <2>5. LeaseStage(r)' = "over"
    BY <1>2, <2>1, <2>2 DEF LeaseStage, Started
  <2>6. \A x \in Res : x[1] = r => ~Alive(x)
    <3> SUFFICES ASSUME NEW x \in Res, x[1] = r  PROVE  ~Alive(x)
      OBVIOUS
    <3>1. Joined(x)
      BY <2>2 DEF Joined
    <3>2. NoWatchdog(x) /\ ~Starting(x)
      BY <3>1, StartingInProgress DEF LeaseInv, WatchInv, JoinsInOrder
    <3> QED  BY <3>2 DEF LeaseInv, WatchInv, WatchInOrder, NoWatchdog
  <2>7. Lent(r) = {}
    BY <2>6, LentType
  <2>8. CASE InList(r)
    <3>1. LeaseStage(r) = "ending"
      BY <2>2, <2>8 DEF LeaseStage
    <3>2. Lease!Over(r)
      BY <2>3, <2>4, <2>5, <2>7, <3>1 DEF Lease!Over, Lease!Advance
    <3> QED  BY <3>2 DEF Lease!LeaseNext
  <2>9. CASE ~InList(r)
    <3>1. LeaseStage(r) = "over"
      BY <1>2, <2>9 DEF LeaseStage, Started
    <3> QED  BY <2>3, <2>4, <2>5, <3>1 DEF Lease!leaseVars
  <2> QED  BY <2>8, <2>9
<1>4. CASE ~WaitForEndRemove(r)
  <2>1. /\ UNCHANGED runs
        /\ \A s \in Runs \ {r} : we'[s] = we[s] /\ run'[s] = run[s]
        /\ we'[r].pc # "none" /\ Started(r)'
    <3>1. CASE WaitForEndJoin(r) \/ WaitForEndClear(r)
      <4>1. UNCHANGED <<run, runs>> /\ we'[r].pc # "none" /\ \A s \in Runs \ {r} : we'[s] = we[s]
        <5>1. CASE WaitForEndJoin(r)
          BY <1>1, <5>1 DEF WaitForEndJoin, EndState
        <5>2. CASE WaitForEndClear(r)
          BY <5>2, ClearEffects DEF ClearEffect
        <5> QED  BY <3>1, <5>1, <5>2
      <4> QED  BY <1>2, <4>1 DEF Started
    <3>2. CASE WaitForEndReset(r)
      BY <1>1, <1>2, <3>2 DEF WaitForEndReset, EndState, RunState, Started
    <3>3. CASE WaitForEndRmtree(r)
      BY <1>1, <1>2, <3>3 DEF WaitForEndRmtree, EndState, RunState, Started
    <3> QED  BY <1>4, <3>1, <3>2, <3>3 DEF WaitForEndNext
  <2>2. \A x \in Res : Alive(x)' <=> Alive(x)
    <3>1. CASE WaitForEndClear(r)
      BY <3>1, ClearEffects DEF ClearEffect, Alive
    <3>2. CASE ~WaitForEndClear(r)
      BY <1>4, <3>2 DEF WaitForEndNext, WaitForEndJoin, WaitForEndReset, WaitForEndRmtree, Alive
    <3> QED  BY <3>1, <3>2
  <2> QED  BY <1>1, <1>2, <2>1, <2>2, LeaseStutters DEF Started
<1> QED  BY <1>3, <1>4

LEMMA LeaseStep ==
  ASSUME TypeInv, RunInv, LeaseInv, Undisturbed, Undisturbed', [Next]_vars
  PROVE  [Lease!LeaseNext]_(Lease!leaseVars)
<1>1. StateInv /\ run \in [Runs -> RunState] /\ \A r \in Runs : sh[r].pc = "none" /\ sh'[r].pc = "none"
  BY DEF TypeInv, StateInv, StateTypeOK, Undisturbed
<1>2. CASE \E x \in Res : WatchdogNext(x)
  <2>1. PICK x \in Res : WatchdogEffect(x)
    BY <1>1, <1>2, WatchdogEffects DEF LeaseInv, HeldInv, MovesInOrder
  <2>2. \A y \in Res : res'[y].proc = res[y].proc
    BY <1>1, <2>1 DEF WatchdogEffect, StateInv, StateTypeOK
  <2> QED  BY <1>1, <2>1, <2>2, LeaseStutters DEF WatchdogEffect, Started, Alive
<1>3. CASE RangerNext \/ RangerJoinTimeout
  BY <1>1, <1>3, LeaseRanger
<1>4. CASE RunnerNext \/ UpdateJoinTimeout
  BY <1>1, <1>4, LeaseRuns
<1>5. CASE \E r \in Runs : WaitForEndNext(r)
  BY <1>1, <1>5, LeaseWaitForEnd
<1>6. ASSUME NEW r \in Runs, ShutdownNext(r)  PROVE  FALSE
  BY <1>1, <1>6 DEF ShutdownNext, ShutdownBegin, ShutdownKill, ShutdownJoin, ShutdownClear,
       ShutdownReset, ShutdownRemove, ShutdownRmtree
<1>7. CASE \E x \in Res : ProcessEnds(x) \/ StrayEnds(x) \/ ProcessCrashes(x)
  <2>1. PICK x \in Res : ProcessEnds(x) \/ StrayEnds(x) \/ ProcessCrashes(x)
    BY <1>7
  <2>2. PICK r \in Runs : r = x[1]
    BY ResType
  <2>3. /\ UNCHANGED <<runs, run, we, sh>>
        /\ \A y \in Res : /\ Alive(y)' => Alive(y)
                          /\ y[1] # r => (Alive(y)' <=> Alive(y))
    BY <1>1, <2>1, <2>2, ProcessEffects DEF LeaseInv, Alive
  <2>4. \A s \in Runs : LeaseStage(s)' = LeaseStage(s)
    BY <1>1, <2>3, StageStays DEF InList, Started
  <2>5. Lease!GiveBack(r)
    BY <2>3, <2>4, GivesBack
  <2> QED  BY <2>5 DEF Lease!LeaseNext
<1>8. CASE \/ \E r \in Runs : NotifyNewRun(r) \/ NotifyEnd(r)
           \/ \E r \in Runs \union {NoRun} : Herod(r)
           \/ \E d \in {-1, 1} : CpuChange(d)
           \/ \E c \in Cores, dir \in {"idle", "quarantined"} : MoveByHand(c, dir)
           \/ UNCHANGED vars
  <2>1. UNCHANGED <<runs, we, res>>
    BY <1>8 DEF NotifyNewRun, NotifyEnd, Herod, CpuChange, MoveByHand, vars, fuVars
  <2>2. \A s \in Runs : Started(s)' <=> Started(s)
    BY <1>1, <1>8, ZenonT(60) DEF NotifyNewRun, NotifyEnd, Herod, CpuChange, MoveByHand, vars, fuVars, RunState, Started
  <2> QED  BY <1>1, <2>1, <2>2, LeaseStutters DEF Alive
<1> QED  BY <1>2, <1>3, <1>4, <1>5, <1>6, <1>7, <1>8 DEF Next, Threads, Timeouts

LEMMA LeaseBegins == Init => Lease!LeaseInit
<1> SUFFICES ASSUME Init  PROVE  Lease!LeaseInit
  OBVIOUS
<1>1. runs = <<>> /\ \A r \in Runs : run[r].marker = "none"
  BY DEF Init
<1>2. \A r \in Runs : LeaseStage(r) = "new"
  BY <1>1 DEF LeaseStage, InList
<1>3. \A x \in Res : ~Alive(x)
  BY DEF Init, NewRes, Alive
<1>4. \A r \in Runs : Lent(r) = {}
  BY <1>3, LentType
<1> QED  BY <1>2, <1>4 DEF Lease!LeaseInit

\* As long as nobody moves core files by hand and no run is shut down, cores are
\* leased the way CoreLease promises: to one run at a time, only to a run that is
\* not ending, and a run leaves the RunList only after its last process.
THEOREM LeaseKept ==
  ASSUME SettleDelay
  PROVE  Spec /\ []Undisturbed => ImplementsLease
<1>1. Init => /\ Undisturbed => HeldInv
              /\ Undisturbed => WatchInv
              /\ GoneInv
  BY HeldInit, WatchInit, GoneInit
<1>2. TypeInv /\ RunInv /\ HeldInv /\ WatchInv /\ GoneInv /\ Undisturbed /\ [Next]_vars => GoneInv'
  BY GoneStep
<1>3. TypeInv /\ RunInv /\ HeldInv /\ WatchInv /\ GoneInv /\ Undisturbed /\ Undisturbed' /\ [Next]_vars
        => [Lease!LeaseNext]_(Lease!leaseVars)
  BY LeaseStep DEF LeaseInv
<1> QED  BY <1>1, <1>2, <1>3, LeaseBegins, InitTypes, TypeInvStep, InitRuns, RunInvStep, HeldStep, WatchStep, PTL
         DEF Spec, ImplementsLease, Lease!LeaseSpec

-----------------------------------------------------------------------------
(* No process starts once the end of its run has begun *)

StartsBeforeEnd == \A x \in Res : ~Alive(x) /\ res'[x].proc = "alive" => we[x[1]].pc = "none"

LEMMA StartsStep ==
  ASSUME TypeInv, RunInv, HeldInv, WatchInv, Undisturbed, Undisturbed', [Next]_vars
  PROVE  StartsBeforeEnd
<1>1. StateInv
  BY DEF TypeInv
<1>2. CASE \E x \in Res : WatchdogNext(x)
  <2>1. PICK x \in Res : WatchdogNext(x)
    BY <1>2
  <2>2. WatchdogEffect(x) /\ res \in [Res -> ResState]
    BY <1>1, <2>1, WatchdogEffects DEF HeldInv, MovesInOrder, StateInv, StateTypeOK
  <2>3. \A y \in Res : res'[y].proc = res[y].proc
    BY <2>2 DEF WatchdogEffect
  <2> QED  BY <2>3 DEF StartsBeforeEnd, Alive
<1>3. CASE RangerNext \/ RangerJoinTimeout
  <2>1. CASE RangerAcquire
    <3>1. PICK g : AcquireEffect(g)
      BY <1>1, <2>1, AcquireEffects
    <3>2. NewRes.proc # "alive"
      BY DEF NewRes
    <3>3. \A y \in Res : res'[y] \in {res[y], NewRes}
      BY <3>1 DEF AcquireEffect
    <3> QED  BY <3>2, <3>3 DEF StartsBeforeEnd, Alive
  <2>2. CASE RangerStart \/ RangerRestarted
    <3>1. StartEffect \/ RestartEffect
      BY <1>1, <2>2, StartEffects, RestartEffects
    <3>2. PICK x : x = rr.res
      OBVIOUS
    <3>3. \A y \in Res \ {x} : res'[y] = res[y]
      BY <3>1, <3>2 DEF StartEffect, RestartEffect
    <3>4. x \in Res => we[x[1]].pc = "none"
      BY <3>1, <3>2 DEF StartEffect, RestartEffect, WatchInv, StartsInOrder, StartInProgress, Starting, Res
    <3> QED  BY <3>3, <3>4 DEF StartsBeforeEnd, Alive
  <2>3. CASE ~(RangerAcquire \/ RangerStart \/ RangerRestarted)
    <3>1. OtherEffect
      BY <1>1, <1>3, <2>3, OtherEffects DEF RangerNext
    <3> QED  BY <3>1 DEF OtherEffect, StartsBeforeEnd, Alive
  <2> QED  BY <2>1, <2>2, <2>3
<1>4. CASE RunnerNext \/ UpdateJoinTimeout
  <2>1. CASE NewRunStart
    <3>1. PICK P : BeginEffect(P)
      BY <1>1, <2>1, BeginEffects
    <3>2. we[cr.run].pc = "none"
      BY <1>1, <3>1, BeginsFresh
    <3>3. \A x \in Res : x[1] # cr.run => res'[x] = res[x]
      BY <3>1 DEF BeginEffect
    <3> QED  BY <3>2, <3>3 DEF StartsBeforeEnd, Alive
  <2>2. CASE ~NewRunStart
    <3>1. RunnerEffect
      BY <1>1, <1>4, <2>2, RunnerEffects
    <3> QED  BY <3>1 DEF RunnerEffect, StartsBeforeEnd, Alive
  <2> QED  BY <2>1, <2>2
<1>5. CASE \E r \in Runs : WaitForEndNext(r)
  <2>1. PICK r \in Runs : WaitForEndNext(r)
    BY <1>5
  <2>2. we[r].pc # "none"
    BY <2>1 DEF WaitForEndNext, WaitForEndJoin, WaitForEndClear, WaitForEndReset, WaitForEndRmtree, WaitForEndRemove
  <2>3. \A x \in Res : res'[x].proc = res[x].proc
    <3>1. CASE WaitForEndClear(r)
      BY <1>1, <3>1, ClearEffects DEF ClearEffect
    <3>2. CASE ~WaitForEndClear(r)
      BY <2>1, <3>2 DEF WaitForEndNext, WaitForEndJoin, WaitForEndReset, WaitForEndRmtree, WaitForEndRemove
    <3> QED  BY <3>1, <3>2
  <2> QED  BY <2>3 DEF StartsBeforeEnd, Alive
<1>6. ASSUME NEW r \in Runs, ShutdownNext(r)  PROVE  FALSE
  BY <1>6 DEF Undisturbed, ShutdownNext, ShutdownBegin, ShutdownKill, ShutdownJoin, ShutdownClear,
       ShutdownReset, ShutdownRemove, ShutdownRmtree
<1>7. CASE \E x \in Res : ProcessEnds(x) \/ StrayEnds(x) \/ ProcessCrashes(x)
  <2>1. PICK x \in Res : ProcessEnds(x) \/ StrayEnds(x) \/ ProcessCrashes(x)
    BY <1>7
  <2>2. \A y \in Res \ {x} : res'[y] = res[y]
    BY <1>1, <2>1, ProcessEffects
  <2>3. Alive(x)
    BY <1>1, <2>1, ProcessEffects
  <2> QED  BY <2>2, <2>3 DEF StartsBeforeEnd, Alive
<1>8. CASE \/ \E r \in Runs : NotifyNewRun(r) \/ NotifyEnd(r)
           \/ \E r \in Runs \union {NoRun} : Herod(r)
           \/ \E d \in {-1, 1} : CpuChange(d)
           \/ UNCHANGED vars
  <2>1. UNCHANGED res
    BY <1>8 DEF NotifyNewRun, NotifyEnd, Herod, CpuChange, vars, fuVars
  <2> QED  BY <2>1 DEF StartsBeforeEnd, Alive
<1>9. ASSUME NEW c \in Cores, NEW dir \in {"idle", "quarantined"}, MoveByHand(c, dir)  PROVE  FALSE
  BY <1>9 DEF MoveByHand, Spend, Undisturbed, TypeInv, Bounds
<1> QED  BY <1>2, <1>3, <1>4, <1>5, <1>6, <1>7, <1>8, <1>9 DEF Next, Threads, Timeouts

\* What the comment at RunRanger.py:340-341 asks of a lock is true if the sleep in
\* endRunCmd outlasts a start in progress: no process of a run starts once
\* WaitForEnd has begun to wait for them.
THEOREM EndedStaysEnded ==
  ASSUME SettleDelay
  PROVE  Spec /\ []Undisturbed => EndedRunStaysEnded
<1>1. TypeInv /\ RunInv /\ HeldInv /\ WatchInv /\ Undisturbed /\ Undisturbed' /\ [Next]_vars => StartsBeforeEnd
  BY StartsStep
<1>2. Init => (Undisturbed => HeldInv) /\ (Undisturbed => WatchInv)
  BY HeldInit, WatchInit
<1> QED
  BY <1>1, <1>2, InitTypes, TypeInvStep, InitRuns, RunInvStep, HeldStep, WatchStep, PTL
  DEF Spec, EndedRunStaysEnded, StartsBeforeEnd

-----------------------------------------------------------------------------
(* As long as the number of CPUs does not change either *)

\* The number of CPUs has not changed so far, either.
Uncut == Undisturbed /\ spent["cpu"] = 0

Updating == {"resize", "update", "ujoin", "ulock"}
\* Nobody asks for cores back.
NoUpdate ==
  /\ cpuchg = 0 /\ cr.pc \notin Updating /\ qlist = {}
  /\ \A x \in Res : /\ res[x].flags = {} /\ res[x].wd \notin Leaving \union {"delist"}
                    /\ Active(x) => Cpu(x) \in run[x[1]].online
\* Quarantined cores are remembered by the resource that quarantined them only.
Quar ==
  /\ \A x \in Res : res[x].quar \subseteq In("quarantined")
  /\ \A x, y \in Res : x # y => res[x].quar \cap res[y].quar = {}
  /\ \A r \in Runs : we[r].pc = "clear" => we[r].cur \in Groups
\* A resource that its run does not list yet has not been restarted.
Fresh ==
  \A x \in Res : we[x[1]].pc = "none" /\ (Cpu(x) \notin run[x[1]].online \/ ~Started(x[1]))
                   => res[x].retries = 0
CoreInv == NoUpdate /\ CoreAccounted /\ Quar /\ Fresh

LEMMA UncutBefore ==
  ASSUME TypeInv, [Next]_vars, Uncut'
  PROVE  Uncut
<1>1. UNCHANGED spent \/ \E k \in DOMAIN Bounds : Spend(k)
  BY DEF Next, vars, Timeouts, ProcessEnds, StrayEnds, ProcessCrashes, NotifyNewRun, NotifyEnd,
         Herod, CpuChange, MoveByHand, Bounds
<1>2. spent["cpu"] = 0
  BY <1>1 DEF Spend, TypeInv, Bounds, Uncut
<1> QED  BY <1>2, UndisturbedBefore DEF Uncut

\* x holds its cores in online.
Holding(x) == res[x].wd \in Moving \union {"watch"} \/ Starting(x)
LEMMA AccountedByHolder == CoreAccounted <=> \A c \in In("online") : \E x \in Res : c \in Cpu(x) /\ Holding(x)
BY DEF CoreAccounted, Holding, Moving, Leaving
LEMMA AccountedByHolderPrimed ==
  CoreAccounted' <=> \A c \in In("online")' : \E x \in Res : c \in Cpu(x) /\ Holding(x)'
BY DEF CoreAccounted, Holding, Moving, Leaving, Starting, Cpu

\* A step that neither takes cores in use away nor gives cores to a process.
LEMMA CoreQuiet ==
  ASSUME StateInv, CoreInv,
         cpuchg' = 0, cr'.pc \notin Updating, qlist' = {},
         \A x \in Res : /\ res'[x].flags = {} /\ res'[x].wd \notin Leaving \union {"delist"}
                        /\ res'[x].retries = res[x].retries /\ res'[x].quar = res[x].quar
                        /\ Active(x)' => Active(x)
                        /\ Holding(x) => Holding(x)',
         \A r \in Runs : /\ run'[r].online = run[r].online
                         /\ we'[r].pc = "none" => we[r].pc = "none" /\ (Started(r)' <=> Started(r))
                         /\ we'[r].pc = "clear" => we'[r].cur \in Groups,
         UNCHANGED where \/ \E S \in SUBSET In("except") : Moved(S, "idle")
  PROVE  CoreInv'
<1>1. where \in [Cores -> Dirs]
  BY DEF StateInv, StateTypeOK
<1>2. In("online")' = In("online") /\ In("quarantined") \subseteq In("quarantined")'
  <2>1. CASE UNCHANGED where
    BY <2>1 DEF In
  <2>2. ASSUME NEW S \in SUBSET In("except"), Moved(S, "idle")
        PROVE  In("online")' = In("online") /\ In("quarantined") \subseteq In("quarantined")'
    BY <1>1, <2>2 DEF Moved, In
  <2> QED  BY <2>1, <2>2
<1>3. NoUpdate'
  <2>1. \A x \in Res : Active(x)' => Cpu(x) \in run'[x[1]].online
    BY ResType DEF CoreInv, NoUpdate
  <2> QED  BY <2>1 DEF NoUpdate
<1>4. CoreAccounted'
  BY <1>2, AccountedByHolder, AccountedByHolderPrimed DEF CoreInv
<1>5. Quar'
  BY <1>2 DEF CoreInv, Quar
<1>6. Fresh'
  BY ResType DEF CoreInv, Fresh
<1> QED  BY <1>3, <1>4, <1>5, <1>6 DEF CoreInv

LEMMA CoreWatchdog ==
  ASSUME StateInv, RunInv, HeldInv, WatchInv, CoreInv, NEW x \in Res, WatchdogNext(x)
  PROVE  CoreInv'
<1>1. WatchdogEffect(x) /\ res \in [Res -> ResState] /\ where \in [Cores -> Dirs]
  BY WatchdogEffects DEF HeldInv, MovesInOrder, StateInv, StateTypeOK
<1>2. res[x].wd \notin Leaving \union {"delist"} /\ res[x].flags = {}
  BY DEF CoreInv, NoUpdate
<1>3. /\ UNCHANGED <<rr, cr, runs, we, qlist, cpuchg>>
      /\ \A y \in Res \ {x} : res'[y] = res[y]
      /\ \A r \in Runs : run'[r].online = run[r].online /\ run'[r].marker = run[r].marker
      /\ \A y \in Res : Starting(y)' <=> Starting(y)
      /\ ~NoWatchdog(x)
  BY <1>1, <1>2 DEF WatchdogEffect, Starting, NoWatchdog, Moving, Leaving
<1>4. /\ res'[x].flags = {} /\ res'[x].wd \notin Leaving \union {"delist"}
      /\ res'[x].retries >= res[x].retries
      /\ \/ UNCHANGED where /\ res'[x].quar = res[x].quar /\ (Holding(x) => Holding(x)')
         \/ \E dir \in Dirs \ {"online"} :
              /\ Moved(Used(x), dir)
              /\ \/ res'[x].quar = res[x].quar
                 \/ dir = "quarantined" /\ res'[x].quar = res[x].quar \union Used(x)
  <2>1. res[x].wd = "watch" => res[x].obj
    BY DEF WatchInv, WatchInOrder
  <2> QED  BY <1>1, <1>2, <1>3, <2>1 DEF WatchdogEffect, Holding, Moving, Leaving
<1>5. NoUpdate'
  <2>1. \A y \in Res : Active(y)' => Active(y)
    BY <1>3 DEF Active, NoWatchdog
  <2>2. \A y \in Res : Active(y)' => Cpu(y) \in run'[y[1]].online
    BY <1>3, <2>1, ResType DEF CoreInv, NoUpdate
  <2> QED  BY <1>3, <1>4, <2>2 DEF CoreInv, NoUpdate
<1>6. CoreAccounted'
  <2>1. \A y \in Res \ {x} : Holding(y)' <=> Holding(y)
    BY <1>3 DEF Holding
  <2>2. CASE UNCHANGED where /\ (Holding(x) => Holding(x)')
    <3>1. In("online")' = In("online")
      BY <2>2 DEF In
    <3> QED  BY <2>1, <2>2, <3>1, AccountedByHolder, AccountedByHolderPrimed DEF CoreInv
  <2>3. ASSUME NEW dir \in Dirs \ {"online"}, Moved(Used(x), dir)
        PROVE  CoreAccounted'
    <3>1. \A c \in In("online")' : c \in In("online") /\ c \notin Cpu(x)
      BY <2>3 DEF Moved, In, Used
    <3> QED  BY <2>1, <3>1, AccountedByHolder, AccountedByHolderPrimed DEF CoreInv
  <2> QED  BY <1>4, <2>2, <2>3
<1>7. Quar'
  <2>1. CASE UNCHANGED where /\ res'[x].quar = res[x].quar
    <3>1. \A y \in Res : res'[y].quar = res[y].quar
      BY <1>3, <2>1
    <3> QED  BY <1>3, <2>1, <3>1 DEF CoreInv, Quar, In
  <2>2. ASSUME NEW dir \in Dirs \ {"online"}, Moved(Used(x), dir),
               \/ res'[x].quar = res[x].quar
               \/ dir = "quarantined" /\ res'[x].quar = res[x].quar \union Used(x)
        PROVE  Quar'
    <3>1. Used(x) \subseteq In("online")
      BY DEF Used
    <3>2. In("quarantined") \subseteq In("quarantined")' /\ In("quarantined") \cap Used(x) = {}
      BY <1>1, <2>2, <3>1 DEF Moved, In
    <3>3. dir = "quarantined" => Used(x) \subseteq In("quarantined")'
      BY <2>2, <3>1 DEF Moved, In
    <3>4. res'[x].quar \subseteq In("quarantined")' /\ res'[x].quar \subseteq res[x].quar \union Used(x)
      BY <2>2, <3>2, <3>3 DEF CoreInv, Quar
    <3> QED  BY <1>3, <3>2, <3>4 DEF CoreInv, Quar
  <2> QED  BY <1>4, <2>1, <2>2
<1>8. Fresh'
  <2>1. Active(x) /\ Started(x[1]) /\ Cpu(x) \in run[x[1]].online
    BY <1>3, ResType DEF Active, CoreInv, NoUpdate, WatchInv, WatchInOrder, RunInv, RunsInOrder, ThreadsInOrder
  <2>2. \A r \in Runs : Started(r)' <=> Started(r)
    BY <1>3 DEF Started
  <2> QED  BY <1>3, <2>1, <2>2, ResType DEF CoreInv, Fresh
<1> QED  BY <1>5, <1>6, <1>7, <1>8 DEF CoreInv

LEMMA CoreRangerOthers ==
  ASSUME StateInv, WatchInv, CoreInv, OtherEffect, UNCHANGED <<cr, qlist, cpuchg>>
  PROVE  CoreInv'
<1>1. \A x \in Res : ~Starting(x) /\ ~Starting(x)'
  <2> SUFFICES ASSUME NEW x \in Res, Starting(x)  PROVE  FALSE
    BY DEF OtherEffect, Starting
  <2>1. rr.pc = "start" /\ rr.res = x /\ x[1] = rr.run
    BY DEF OtherEffect, Starting, WatchInv, StartsInOrder
  <2>2. Cpu(x) \in run[x[1]].online
    BY DEF CoreInv, NoUpdate, Active
  <2> QED  BY <2>1, <2>2 DEF OtherEffect, Cpu
<1>2. \A x \in Res : /\ res'[x].wd = res[x].wd /\ res'[x].flags = res[x].flags
                     /\ res'[x].retries = res[x].retries /\ res'[x].quar = res[x].quar
  BY DEF OtherEffect, WatchInv, StartsInOrder
<1>3. \A x \in Res : (Active(x)' => Active(x)) /\ (Holding(x) => Holding(x)')
  BY <1>1, <1>2 DEF Active, NoWatchdog, Holding
<1>4. UNCHANGED <<run, we>> /\ (UNCHANGED where \/ \E S \in SUBSET In("except") : Moved(S, "idle"))
  BY DEF OtherEffect
<1> QED  BY <1>2, <1>3, <1>4, CoreQuiet DEF CoreInv, NoUpdate, Quar, Started

LEMMA CoreAcquire ==
  ASSUME StateInv, HeldInv, WatchInv, CoreInv, RangerAcquire
  PROVE  CoreInv'
<1>1. PICK g : AcquireEffect(g)
  BY AcquireEffects
<1>2. PICK x \in Res : x = <<rr.run, g>>
  BY <1>1 DEF AcquireEffect
<1>3. /\ UNCHANGED <<cr, runs, qlist, cpuchg>> /\ where \in [Cores -> Dirs]
      /\ g \subseteq In(rr.dir) /\ rr.dir \in Watched \ {"quarantined"} /\ Moved(g, "online")
      /\ rr.run \in Runs /\ x[1] = rr.run /\ Cpu(x) = g /\ g # {}
  BY <1>1, <1>2 DEF AcquireEffect, RangerAcquire, StateInv, StateTypeOK, RangerState, WatchInv, StartsInOrder, Cpu
<1>4. /\ \A y \in Res \ {x} : res'[y] = res[y]
      /\ res'[x] = res[x] \/ (res'[x] = NewRes /\ g \notin run[rr.run].online)
      /\ \A y \in Res : (Starting(y)' <=> y = x) /\ ~Starting(y)
  BY <1>1, <1>2 DEF AcquireEffect, Starting
<1>5. ~Held(x)
  BY <1>3 DEF HeldInv, OneHolder, In, Watched
<1>6. /\ NewRes.wd = "none" /\ NewRes.flags = {} /\ NewRes.retries = 0 /\ NewRes.quar = {}
  BY DEF NewRes
<1>7. \A r \in Runs : /\ run'[r].online = IF r = rr.run THEN run[r].online \union {g} ELSE run[r].online
                      /\ run'[r].marker = run[r].marker
                      /\ we'[r].pc = we[r].pc /\ we'[r].cur = we[r].cur
  BY <1>1 DEF AcquireEffect
<1>8. NoUpdate'
  <2> SUFFICES ASSUME NEW y \in Res
               PROVE  /\ res'[y].flags = {} /\ res'[y].wd \notin Leaving \union {"delist"}
                      /\ Active(y)' => Cpu(y) \in run'[y[1]].online
    BY <1>3 DEF CoreInv, NoUpdate
  <2>1. CASE y = x
    BY <1>3, <1>4, <1>6, <1>7, <2>1 DEF CoreInv, NoUpdate, Leaving
  <2>2. CASE y # x
    <3>1. Active(y)' => Active(y)
      BY <1>4, <2>2 DEF Active, NoWatchdog
    <3>2. Cpu(y) \in run[y[1]].online => Cpu(y) \in run'[y[1]].online
      BY <1>7, ResType
    <3> QED  BY <1>4, <2>2, <3>1, <3>2 DEF CoreInv, NoUpdate
  <2> QED  BY <2>1, <2>2
<1>9. CoreAccounted'
  <2>1. \A y \in Res : Holding(y) => Holding(y)'
    BY <1>4, <1>5 DEF Holding, Held
  <2>2. \A c \in In("online")' : c \in In("online") \/ c \in Cpu(x)
    BY <1>3 DEF Moved, In
  <2>3. Holding(x)'
    BY <1>4 DEF Holding
  <2> QED  BY <2>1, <2>2, <2>3, AccountedByHolder, AccountedByHolderPrimed DEF CoreInv
<1>10. Quar'
  <2>1. In("quarantined") \subseteq In("quarantined")'
    BY <1>3 DEF Moved, In
  <2>2. \A y \in Res : res'[y].quar \subseteq res[y].quar
    BY <1>4, <1>6
  <2> QED  BY <1>7, <2>1, <2>2 DEF CoreInv, Quar
<1>11. Fresh'
  <2>1. \A y \in Res : res'[y].retries = res[y].retries \/ res'[y].retries = 0
    BY <1>4, <1>6
  <2>2. \A r \in Runs : Started(r)' <=> Started(r)
    BY <1>7 DEF Started
  <2>3. \A y \in Res : Cpu(y) \notin run'[y[1]].online => Cpu(y) \notin run[y[1]].online
    BY <1>7, ResType
  <2> QED  BY <1>7, <2>1, <2>2, <2>3, ResType DEF CoreInv, Fresh
<1> QED  BY <1>8, <1>9, <1>10, <1>11 DEF CoreInv

LEMMA CoreStart ==
  ASSUME StateInv, WatchInv, CoreInv, RangerStart \/ RangerRestarted
  PROVE  CoreInv'
<1>1. (StartEffect \/ RestartEffect) /\ UNCHANGED <<cr, qlist, cpuchg>>
  BY StartEffects, RestartEffects DEF RangerStart, RangerRestarted
<1>2. PICK x : x = rr.res
  OBVIOUS
<1>3. /\ UNCHANGED <<where, run, we>> /\ RangerIdle.pc = "wait"
      /\ \/ rr' = RangerIdle
         \/ rr'.pc = "rejoin" /\ rr'.res = rr.res
      /\ rr.pc \in {"start", "rejoin"}
      /\ \A y \in Res \ {x} : res'[y] = res[y]
  BY <1>1, <1>2 DEF StartEffect, RestartEffect, RangerIdle
<1>4. \A y \in Res \ {x} : ~Starting(y) /\ ~Starting(y)'
  BY <1>2, <1>3 DEF Starting
<1>5. ASSUME x \in Res
      PROVE  /\ res'[x].flags = {} /\ res'[x].wd \notin Leaving \union {"delist"}
             /\ res'[x].retries = res[x].retries /\ res'[x].quar = res[x].quar
             /\ Active(x) /\ Holding(x)'
  <2>1. Starting(x) /\ Active(x)
    BY <1>2, <1>3 DEF Starting, Active
  <2>2. CASE StartEffect
    <3>1. /\ res'[x].flags = {} /\ res'[x].retries = res[x].retries /\ res'[x].quar = res[x].quar
          /\ IF res[x].wd = "none" THEN res'[x].wd = "watch" ELSE rr'.pc = "rejoin" /\ res'[x].wd = res[x].wd
      BY <1>2, <1>5, <2>2 DEF StartEffect
    <3>2. rr'.pc = "rejoin" => rr'.res = x
      BY <1>2, <1>3
    <3> QED  BY <1>5, <2>1, <3>1, <3>2 DEF CoreInv, NoUpdate, Leaving, Holding, Starting
  <2>3. CASE RestartEffect
    <3>1. res[x].obj
      BY <1>5, <2>1, <2>3 DEF WatchInv, StartsInOrder, RestartEffect
    <3>2. res'[x].flags = res[x].flags /\ res'[x].retries = res[x].retries /\ res'[x].quar = res[x].quar /\ res'[x].wd = "watch"
      BY <1>2, <1>5, <2>3, <3>1 DEF RestartEffect
    <3> QED  BY <1>5, <2>1, <3>2 DEF CoreInv, NoUpdate, Leaving, Holding
  <2> QED  BY <1>1, <2>2, <2>3
<1>6. \A y \in Res : /\ res'[y].flags = {} /\ res'[y].wd \notin Leaving \union {"delist"}
                     /\ res'[y].retries = res[y].retries /\ res'[y].quar = res[y].quar
                     /\ Active(y)' => Active(y)
                     /\ Holding(y) => Holding(y)'
  <2> SUFFICES ASSUME NEW y \in Res
               PROVE  /\ res'[y].flags = {} /\ res'[y].wd \notin Leaving \union {"delist"}
                      /\ res'[y].retries = res[y].retries /\ res'[y].quar = res[y].quar
                      /\ Active(y)' => Active(y)
                      /\ Holding(y) => Holding(y)'
    OBVIOUS
  <2>1. CASE y = x
    BY <1>5, <2>1
  <2>2. CASE y # x
    BY <1>3, <1>4, <2>2 DEF CoreInv, NoUpdate, Active, NoWatchdog, Holding
  <2> QED  BY <2>1, <2>2
<1>7. cpuchg' = 0 /\ cr'.pc \notin Updating /\ qlist' = {}
  BY <1>1 DEF CoreInv, NoUpdate
<1>8. \A r \in Runs : /\ run'[r].online = run[r].online
                      /\ we'[r].pc = "none" => we[r].pc = "none" /\ (Started(r)' <=> Started(r))
                      /\ we'[r].pc = "clear" => we'[r].cur \in Groups
  BY <1>3 DEF CoreInv, Quar, Started
<1> QED  BY <1>3, <1>6, <1>7, <1>8, CoreQuiet

\* Without a change of the number of CPUs the RunRanger moves no core file, except
\* to start a run.
LEMMA RunnerUncut ==
  ASSUME StateInv, CoreInv, RunnerNext \/ UpdateJoinTimeout
  PROVE  /\ cpuchg' = 0 /\ cr'.pc \notin Updating /\ qlist' = {}
         /\ NewRunStart \/ UNCHANGED where
<1>1. /\ cpuchg = 0 /\ cr.pc \notin Updating /\ qlist = {}
      /\ where \in [Cores -> Dirs] /\ cr \in RunnerState /\ RunnerIdle.pc = "wait"
  BY DEF CoreInv, NoUpdate, StateInv, StateTypeOK, RunnerIdle
<1>2. RunnerNext /\ ~NewRunResize /\ ~UpdateUnlock /\ ~UpdateJoined /\ ~UpdateEnd /\ ~(\E g \in Groups : UpdateStop(g))
  BY <1>1 DEF UpdateJoinTimeout, NewRunResize, UpdateUnlock, UpdateJoined, UpdateEnd, UpdateStop, Updating
<1>3. CASE NewRunCmd \/ NewRunTakeChange \/ NewRunStart
  BY <1>1, <1>3 DEF NewRunCmd, NewRunTakeChange, NewRunStart, RunnerState, RunnerIdle, Updating
<1>4. CASE EndRunCmd \/ EndRunStart \/ QuarantinedCmd \/ HerodCmd \/ HerodShutdownReturns
  BY <1>1, <1>4 DEF EndRunCmd, EndRunStart, QuarantinedCmd, HerodCmd, HerodShutdownReturns, RunnerState, RunnerIdle, Updating
<1>5. CASE \E r \in Runs : HerodRun(r)
  BY <1>1, <1>5 DEF HerodRun, RunnerState, Updating
<1>6. CASE HerodClear
  <2>1. UNCHANGED where
    BY <1>1, <1>6 DEF HerodClear, MoveTo
  <2> QED  BY <1>1, <1>6, <2>1 DEF HerodClear, Updating
<1>7. CASE UpdateCmd
  BY <1>1, <1>7 DEF UpdateCmd, Updating
<1> QED  BY <1>2, <1>3, <1>4, <1>5, <1>6, <1>7 DEF RunnerNext

LEMMA CoreRunner ==
  ASSUME StateInv, RunInv, CoreInv, RunnerNext \/ UpdateJoinTimeout, ~NewRunStart
  PROVE  CoreInv'
<1>1. RunnerEffect /\ RunnerCourse /\ UNCHANGED where
  BY RunnerEffects, RunnerCourses, RunnerUncut
<1>2. cpuchg' = 0 /\ cr'.pc \notin Updating /\ qlist' = {} /\ cr.pc # "update"
  BY RunnerUncut DEF CoreInv, NoUpdate, Updating
<1>3. \A x \in Res : /\ res'[x].flags = {} /\ res'[x].wd \notin Leaving \union {"delist"}
                     /\ res'[x].retries = res[x].retries /\ res'[x].quar = res[x].quar
                     /\ Active(x)' => Active(x)
                     /\ Holding(x) => Holding(x)'
  BY <1>1, <1>2 DEF RunnerEffect, CoreInv, NoUpdate, Active, NoWatchdog, Holding, Starting
<1>4. \A r \in Runs : /\ run'[r].online = run[r].online
                      /\ we'[r].pc = "none" => we[r].pc = "none" /\ (Started(r)' <=> Started(r))
                      /\ we'[r].pc = "clear" => we'[r].cur \in Groups
  <2>1. CASE UNCHANGED we /\ \A r \in Runs : run'[r].marker = run[r].marker
    BY <1>1, <2>1 DEF RunnerCourse, CoreInv, Quar, Started
  <2>2. ASSUME NEW r \in Runs, we'[r] = [NoEnd EXCEPT !.pc = "join"],
               \A s \in Runs \ {r} : we'[s] = we[s] /\ run'[s].marker = run[s].marker
        PROVE  \A s \in Runs : /\ run'[s].online = run[s].online
                               /\ we'[s].pc = "none" => we[s].pc = "none" /\ (Started(s)' <=> Started(s))
                               /\ we'[s].pc = "clear" => we'[s].cur \in Groups
    <3>1. we'[r].pc = "join"
      BY <2>2 DEF NoEnd
    <3> QED  BY <1>1, <2>2, <3>1 DEF RunnerCourse, CoreInv, Quar, Started
  <2> QED  BY <1>1, <2>1, <2>2 DEF RunnerCourse
<1> QED  BY <1>1, <1>2, <1>3, <1>4, CoreQuiet

LEMMA CoreBegin ==
  ASSUME StateInv, RunInv, HeldInv, WatchInv, CoreInv, NewRunStart
  PROVE  CoreInv'
<1>1. PICK P : BeginEffect(P)
  BY BeginEffects
<1> DEFINE New(x) == x[1] = cr.run /\ Cpu(x) \in P
<1>2. /\ cr.run \in Runs /\ UNCHANGED <<rr, we>> /\ where \in [Cores -> Dirs]
      /\ Moved(UNION P, "online") /\ \A g \in P : g \in Groups /\ g \subseteq In("idle")
      /\ cpuchg' = 0 /\ cr'.pc \notin Updating /\ qlist' = {}
  <2>1. cpuchg' = 0 /\ cr'.pc \notin Updating /\ qlist' = {}
    BY RunnerUncut DEF RunnerNext
  <2>2. \A g \in P : g \in Groups /\ g \subseteq In("idle")
    BY <1>1 DEF BeginEffect
  <2>3. where \in [Cores -> Dirs]
    BY DEF StateInv, StateTypeOK
  <2> QED  BY <1>1, <2>1, <2>2, <2>3 DEF BeginEffect
<1>3. /\ ~Started(cr.run) /\ we[cr.run].pc = "none"
      /\ \A x \in Res : x[1] = cr.run => ~Active(x)
  BY <1>1, BeginsFresh
<1>4. \A x \in Res : New(x) => /\ res'[x].wd = "watch" /\ res'[x].flags = {} /\ res'[x].retries = 0
                               /\ res'[x].quar = {} /\ Cpu(x) \in run'[x[1]].online
  BY <1>1, <1>2, ResType DEF BeginEffect
<1>5. /\ \A x \in Res : ~New(x) => res'[x] = res[x]
      /\ \A s \in Runs \ {cr.run} : run'[s] = run[s]
      /\ \A x \in Res : Starting(x)' <=> Starting(x)
  BY <1>1, <1>2 DEF BeginEffect, Starting
<1>6. \A x \in Res : New(x) => x[1] = cr.run
  OBVIOUS
<1>7. \A g \in P : \E x \in Res : New(x) /\ Cpu(x) = g
  <2> SUFFICES ASSUME NEW g \in P  PROVE  \E x \in Res : New(x) /\ Cpu(x) = g
    OBVIOUS
  <2>1. <<cr.run, g>> \in Res /\ New(<<cr.run, g>>) /\ Cpu(<<cr.run, g>>) = g
    BY <1>2 DEF Res, Cpu
  <2> QED  BY <2>1
<1> HIDE DEF New
<1>8. NoUpdate'
  <2> SUFFICES ASSUME NEW x \in Res
               PROVE  /\ res'[x].flags = {} /\ res'[x].wd \notin Leaving \union {"delist"}
                      /\ Active(x)' => Cpu(x) \in run'[x[1]].online
    BY <1>2 DEF NoUpdate
  <2>1. CASE New(x)
    BY <1>4, <2>1 DEF Leaving
  <2>2. CASE ~New(x)
    <3>1. Active(x)' => Active(x)
      BY <1>5, <2>2 DEF Active, NoWatchdog
    <3>2. Active(x) => Cpu(x) \in run'[x[1]].online
      BY <1>3, <1>5, ResType DEF CoreInv, NoUpdate
    <3> QED  BY <1>5, <2>2, <3>1, <3>2 DEF CoreInv, NoUpdate
  <2> QED  BY <2>1, <2>2
<1>9. CoreAccounted'
  <2>1. \A x \in Res : Holding(x) => Holding(x)'
    BY <1>4, <1>5 DEF Holding
  <2>2. \A x \in Res : New(x) => Holding(x)'
    BY <1>4 DEF Holding
  <2>3. \A c \in In("online")' : c \in In("online") \/ \E g \in P : c \in g
    BY <1>2 DEF Moved, In
  <2>4. \A c \in In("online")' : \E x \in Res : c \in Cpu(x) /\ (Holding(x) \/ New(x))
    BY <1>7, <2>3, AccountedByHolder DEF CoreInv
  <2> QED  BY <2>1, <2>2, <2>4, AccountedByHolderPrimed
<1>10. Quar'
  <2>1. In("quarantined") \subseteq In("quarantined")'
    BY <1>2 DEF Moved, In
  <2>2. \A x \in Res : res'[x].quar \subseteq res[x].quar
    BY <1>4, <1>5
  <2> QED  BY <1>2, <2>1, <2>2 DEF CoreInv, Quar
<1>11. Fresh'
  <2> SUFFICES ASSUME NEW x \in Res, we'[x[1]].pc = "none",
                      Cpu(x) \notin run'[x[1]].online \/ ~Started(x[1])'
               PROVE  res'[x].retries = 0
    BY DEF Fresh
  <2>1. CASE New(x)
    BY <1>4, <2>1
  <2>2. CASE ~New(x)
    <3>1. x[1] # cr.run => (Started(x[1])' <=> Started(x[1]))
      BY <1>5, ResType DEF Started
    <3>2. Cpu(x) \notin run[x[1]].online \/ ~Started(x[1])
      BY <1>3, <1>5, <3>1, ResType
    <3> QED  BY <1>2, <1>5, <2>2, <3>2 DEF CoreInv, Fresh
  <2> QED  BY <2>1, <2>2
<1> QED  BY <1>8, <1>9, <1>10, <1>11 DEF CoreInv

\* What WaitForEnd restores are the cores that its resource has quarantined.
LEMMA ClearsOwn ==
  ASSUME StateInv, CoreInv, NEW r \in Runs, WaitForEndClear(r)
  PROVE  LET x == <<r, we[r].cur>>
         IN /\ x \in Res /\ Moved(res[x].quar, "idle")
            /\ res'[x].quar = {}
            /\ \A y \in Res \ {x} : res'[y] = res[y]
<1>1. PICK x : x = <<r, we[r].cur>>
  OBVIOUS
<1>2. ClearEffect(r) /\ x \in Res
  BY <1>1, ClearEffects DEF CoreInv, Quar, WaitForEndClear, Res
<1>3. PICK S \in Restorable(res[x].quar) : Moved(S, "idle") /\ res'[x].quar = LeftOver(res[x].quar, S)
  BY <1>1, <1>2 DEF ClearEffect
<1>4. S = res[x].quar
  BY <1>2, <1>3 DEF Restorable, CoreInv, Quar
<1> QED  BY <1>1, <1>2, <1>3, <1>4 DEF ClearEffect, LeftOver

LEMMA CoreWaitForEnd ==
  ASSUME StateInv, RunInv, WatchInv, CoreInv, NEW r \in Runs, WaitForEndNext(r)
  PROVE  CoreInv'
<1>1. /\ we \in [Runs -> EndState] /\ we[r] \in EndState /\ run \in [Runs -> RunState] /\ run[r] \in RunState
      /\ where \in [Cores -> Dirs]
  BY DEF StateInv, StateTypeOK
<1>2. /\ we[r].pc # "none" /\ Started(r) /\ UNCHANGED <<rr, cr, qlist, cpuchg>>
      /\ cpuchg' = 0 /\ cr'.pc \notin Updating /\ qlist' = {}
  BY DEF WaitForEndNext, WaitForEndJoin, WaitForEndClear, WaitForEndReset, WaitForEndRmtree, WaitForEndRemove,
     RunInv, RunsInOrder, ThreadsInOrder, CoreInv, NoUpdate
<1>3. CASE WaitForEndClear(r)
  <2>1. PICK x \in Res : /\ x = <<r, we[r].cur>> /\ Moved(res[x].quar, "idle")
                         /\ res'[x].quar = {}
                         /\ \A y \in Res \ {x} : res'[y] = res[y]
    BY <1>3, ClearsOwn
  <2>2. /\ \A y \in Res : /\ res'[y].wd = res[y].wd /\ res'[y].flags = res[y].flags /\ res'[y].retries = res[y].retries
                          /\ Starting(y)' <=> Starting(y)
        /\ UNCHANGED run
        /\ \A s \in Runs \ {r} : we'[s] = we[s]
        /\ we'[r].pc = "join"
    BY <1>2, <1>3, ClearEffects DEF ClearEffect, Starting
  <2>3. NoUpdate'
    BY <1>2, <2>2 DEF CoreInv, NoUpdate, Active, NoWatchdog
  <2>4. In("online")' = In("online")
    BY <1>1, <2>1 DEF Moved, In, CoreInv, Quar
  <2>5. CoreAccounted'
    BY <2>2, <2>4, AccountedByHolder, AccountedByHolderPrimed DEF CoreInv, Holding
  <2>6. Quar'
    <3>1. \A y \in Res \ {x} : res[y].quar \subseteq In("quarantined")'
      BY <2>1 DEF Moved, In, CoreInv, Quar
    <3>2. \A s \in Runs : we'[s].pc = "clear" => we'[s].cur \in Groups
      BY <2>2 DEF CoreInv, Quar
    <3> QED  BY <2>1, <3>1, <3>2 DEF CoreInv, Quar
  <2>7. Fresh'
    BY <1>2, <2>2, ResType DEF CoreInv, Fresh, Started
  <2> QED  BY <2>3, <2>5, <2>6, <2>7 DEF CoreInv
<1>4. CASE WaitForEndReset(r)
  <2>1. \A x \in Res : x[1] = r => ~Active(x)
    BY <1>4, EndFindsAll
  <2>2. /\ \A s \in Runs \ {r} : we'[s] = we[s] /\ run'[s] = run[s]
        /\ we'[r].pc \in {"done", "tail"}
        /\ UNCHANGED <<where, res>>
    BY <1>1, <1>4 DEF WaitForEndReset, EndState
  <2>3. \A x \in Res : /\ Starting(x)' <=> Starting(x)
                       /\ Active(x)' <=> Active(x)
                       /\ Holding(x)' <=> Holding(x)
    BY <1>2, <2>2 DEF Starting, Active, NoWatchdog, Holding
  <2>4. NoUpdate'
    <3>1. \A x \in Res : Active(x)' => Cpu(x) \in run'[x[1]].online
      BY <2>1, <2>2, <2>3, ResType DEF CoreInv, NoUpdate
    <3> QED  BY <1>2, <2>2, <3>1 DEF CoreInv, NoUpdate
  <2>5. CoreAccounted'
    <3>1. In("online")' = In("online")
      BY <2>2 DEF In
    <3> QED  BY <2>3, <3>1, AccountedByHolder, AccountedByHolderPrimed DEF CoreInv
  <2>6. Quar'
    BY <2>2 DEF CoreInv, Quar, In
  <2>7. Fresh'
    BY <2>2, ResType DEF CoreInv, Fresh, Started
  <2> QED  BY <2>4, <2>5, <2>6, <2>7 DEF CoreInv
<1>5. CASE WaitForEndJoin(r) \/ WaitForEndRmtree(r) \/ WaitForEndRemove(r)
  <2>1. UNCHANGED <<where, res>>
    BY <1>5 DEF WaitForEndJoin, WaitForEndRmtree, WaitForEndRemove
  <2>2. /\ \A s \in Runs \ {r} : we'[s] = we[s] /\ run'[s] = run[s]
        /\ run'[r].online = run[r].online
        /\ we'[r].pc # "none" /\ (we'[r].pc = "clear" => we'[r].cur \in Groups)
    <3>1. CASE WaitForEndJoin(r)
      <4>1. PICK g \in JoinList(r) : we' = [we EXCEPT ![r] = [we[r] EXCEPT !.pc = "clear", !.cur = g]]
        BY <1>1, <3>1 DEF WaitForEndJoin
      <4>2. g \in Groups /\ UNCHANGED run
        BY <1>1, <3>1 DEF JoinList, EndState, RunState, WaitForEndJoin
      <4> QED  BY <1>1, <4>1, <4>2 DEF EndState
    <3>2. CASE WaitForEndRmtree(r)
      BY <1>1, <3>2 DEF WaitForEndRmtree, EndState, RunState
    <3>3. CASE WaitForEndRemove(r)
      BY <1>1, <3>3 DEF WaitForEndRemove, EndState
    <3> QED  BY <1>5, <3>1, <3>2, <3>3
  <2>3. \A x \in Res : /\ res'[x].flags = {} /\ res'[x].wd \notin Leaving \union {"delist"}
                       /\ res'[x].retries = res[x].retries /\ res'[x].quar = res[x].quar
                       /\ Active(x)' => Active(x)
                       /\ Holding(x) => Holding(x)'
    BY <1>2, <2>1 DEF CoreInv, NoUpdate, Active, NoWatchdog, Holding, Starting
  <2>4. \A s \in Runs : /\ run'[s].online = run[s].online
                        /\ we'[s].pc = "none" => we[s].pc = "none" /\ (Started(s)' <=> Started(s))
                        /\ we'[s].pc = "clear" => we'[s].cur \in Groups
    BY <2>2 DEF CoreInv, Quar, Started
  <2> QED  BY <1>2, <2>1, <2>3, <2>4, CoreQuiet
<1> QED  BY <1>3, <1>4, <1>5 DEF WaitForEndNext

LEMMA CoreStep ==
  TypeInv /\ RunInv /\ (Undisturbed => HeldInv /\ WatchInv) /\ (Uncut => CoreInv) /\ [Next]_vars
    => (Uncut => CoreInv)'
<1> SUFFICES ASSUME TypeInv, RunInv, Undisturbed => HeldInv /\ WatchInv, Uncut => CoreInv, [Next]_vars, Uncut'
             PROVE  CoreInv'
  OBVIOUS
<1>1. Uncut /\ HeldInv /\ WatchInv /\ CoreInv /\ StateInv
  BY UncutBefore DEF TypeInv, Uncut
<1>2. CASE \E x \in Res : WatchdogNext(x)
  BY <1>1, <1>2, CoreWatchdog
<1>3. CASE RangerNext \/ RangerJoinTimeout
  <2>1. CASE RangerAcquire
    BY <1>1, <2>1, CoreAcquire
  <2>2. CASE RangerStart \/ RangerRestarted
    BY <1>1, <2>2, CoreStart
  <2>3. CASE ~(RangerAcquire \/ RangerStart \/ RangerRestarted)
    <3>1. OtherEffect /\ UNCHANGED <<cr, qlist, cpuchg>>
      BY <1>1, <1>3, <2>3, OtherEffects DEF RangerNext
    <3> QED  BY <1>1, <3>1, CoreRangerOthers
  <2> QED  BY <2>1, <2>2, <2>3
<1>4. CASE RunnerNext \/ UpdateJoinTimeout
  BY <1>1, <1>4, CoreBegin, CoreRunner
<1>5. CASE \E r \in Runs : WaitForEndNext(r)
  BY <1>1, <1>5, CoreWaitForEnd
<1>6. ASSUME NEW r \in Runs, ShutdownNext(r)  PROVE  FALSE
  BY <1>1, <1>6 DEF Uncut, Undisturbed, ShutdownNext, ShutdownBegin, ShutdownKill, ShutdownJoin, ShutdownClear,
       ShutdownReset, ShutdownRemove, ShutdownRmtree
<1>7. ASSUME UNCHANGED <<rr, we, cr, qlist, cpuchg, where>>,
             \A x \in Res : /\ res'[x].wd = res[x].wd /\ res'[x].flags = res[x].flags
                            /\ res'[x].retries = res[x].retries /\ res'[x].quar = res[x].quar,
             \A r \in Runs : run'[r].online = run[r].online /\ (Started(r)' <=> Started(r))
      PROVE  CoreInv'
  <2>1. \A x \in Res : /\ res'[x].flags = {} /\ res'[x].wd \notin Leaving \union {"delist"}
                       /\ res'[x].retries = res[x].retries /\ res'[x].quar = res[x].quar
                       /\ Active(x)' => Active(x)
                       /\ Holding(x) => Holding(x)'
    BY <1>1, <1>7 DEF CoreInv, NoUpdate, Active, NoWatchdog, Holding, Starting
  <2>2. \A r \in Runs : /\ run'[r].online = run[r].online
                        /\ we'[r].pc = "none" => we[r].pc = "none" /\ (Started(r)' <=> Started(r))
                        /\ we'[r].pc = "clear" => we'[r].cur \in Groups
    BY <1>1, <1>7 DEF CoreInv, Quar
  <2>3. cpuchg' = 0 /\ cr'.pc \notin Updating /\ qlist' = {}
    BY <1>1, <1>7 DEF CoreInv, NoUpdate
  <2> QED  BY <1>1, <1>7, <2>1, <2>2, <2>3, CoreQuiet
<1>8. ASSUME NEW x \in Res, ProcessEnds(x) \/ StrayEnds(x) \/ ProcessCrashes(x)
      PROVE  CoreInv'
  BY <1>1, <1>7, <1>8, ProcessEffects DEF Started
<1>9. CASE \/ \E r \in Runs : NotifyNewRun(r) \/ NotifyEnd(r)
           \/ \E r \in Runs \union {NoRun} : Herod(r)
           \/ UNCHANGED vars
  <2>1. UNCHANGED <<res, rr, we, cr, qlist, cpuchg, where>>
    BY <1>9 DEF NotifyNewRun, NotifyEnd, Herod, vars, fuVars
  <2>2. run \in [Runs -> RunState]
    BY <1>1 DEF StateInv, StateTypeOK
  <2>3. \A r \in Runs : run'[r].online = run[r].online /\ (Started(r)' <=> Started(r))
    BY <1>9, <2>2 DEF NotifyNewRun, NotifyEnd, Herod, vars, fuVars, RunState, Started
  <2> QED  BY <1>7, <2>1, <2>3
<1>10. ASSUME NEW c \in Cores, NEW dir \in {"idle", "quarantined"}, MoveByHand(c, dir)  PROVE  FALSE
  BY <1>1, <1>10 DEF MoveByHand, Spend, Uncut, Undisturbed, TypeInv, Bounds
<1>11. ASSUME NEW d \in {-1, 1}, CpuChange(d)  PROVE  FALSE
  BY <1>1, <1>11 DEF CpuChange, Spend, Uncut, TypeInv, Bounds
<1> QED  BY <1>2, <1>3, <1>4, <1>5, <1>6, <1>8, <1>9, <1>10, <1>11 DEF Next, Threads, Timeouts

LEMMA CoreInit == Init => CoreInv
<1> SUFFICES ASSUME Init  PROVE  CoreInv
  OBVIOUS
<1>1. /\ \A x \in Res : res[x].wd = "none" /\ res[x].flags = {} /\ res[x].retries = 0 /\ res[x].quar = {}
      /\ \A x \in Res : ~Starting(x)
      /\ \A r \in Runs : we[r].pc = "none"
      /\ cpuchg = 0 /\ cr.pc = "wait" /\ qlist = {} /\ In("online") = {}
  BY DEF Init, NewRes, NoEnd, RangerIdle, RunnerIdle, Starting, In
<1> QED
  BY <1>1 DEF CoreInv, NoUpdate, CoreAccounted, Quar, Fresh, Updating, Leaving, Active, NoWatchdog

\* As long as, besides, the number of CPUs does not change, no core file is
\* forgotten in online: a thread that has yet to move it holds it.
THEOREM CoreAccountedHolds ==
  ASSUME SettleDelay
  PROVE  Spec => [](Uncut => CoreAccounted)
<1>1. CoreInv => CoreAccounted
  BY DEF CoreInv
<1>2. Init => (Undisturbed => HeldInv) /\ (Undisturbed => WatchInv) /\ (Uncut => CoreInv)
  BY HeldInit, WatchInit, CoreInit
<1> QED  BY <1>1, <1>2, InitTypes, TypeInvStep, InitRuns, RunInvStep, HeldStep, WatchStep, CoreStep, PTL DEF Spec

\* And the end of a run finds every process of the run, on cores that nobody else
\* takes: its run is listed, and its resource in the lists of the run.
THEOREM ProcessReachableHolds ==
  ASSUME SettleDelay
  PROVE  Spec => [](Uncut => ProcessReachable)
<1>1. HeldInv /\ WatchInv /\ CoreInv => ProcessReachable
  <2> SUFFICES ASSUME HeldInv, WatchInv, CoreInv, NEW x \in Res, Alive(x)
               PROVE  /\ InList(x[1]) /\ Cpu(x) \in run[x[1]].online \cap run[x[1]].joinl
                      /\ Cpu(x) \subseteq In("online")
    BY DEF ProcessReachable
  <2>1. Active(x)
    BY DEF WatchInv, WatchInOrder, Active, NoWatchdog
  <2>2. InList(x[1]) /\ Cpu(x) \in run[x[1]].joinl
    BY <2>1 DEF WatchInv, WatchInOrder
  <2>3. Cpu(x) \in run[x[1]].online
    BY <2>1 DEF CoreInv, NoUpdate
  <2>4. Cpu(x) \subseteq In("online")
    BY DEF HeldInv, OneHolder, Held
  <2> QED  BY <2>2, <2>3, <2>4
<1>2. Init => (Undisturbed => HeldInv) /\ (Undisturbed => WatchInv) /\ (Uncut => CoreInv)
  BY HeldInit, WatchInit, CoreInit
<1>3. Uncut => Undisturbed
  BY DEF Uncut
<1> QED
  BY <1>1, <1>2, <1>3, InitTypes, TypeInvStep, InitRuns, RunInvStep, HeldStep, WatchStep, CoreStep, PTL DEF Spec

\* What a step may do to the counts of the restarts and to quarantined cores.
CountsKept ==
  \A x \in Res : run[x[1]].ongoing /\ run'[x[1]].ongoing => res'[x].retries >= res[x].retries
CoresKept ==
  \A x \in Res : run'[x[1]].ongoing =>
    \A c \in res[x].quar : where[c] = "quarantined" => where'[c] \in {"quarantined", "gone"}

\* A step that resets no count and moves only cores that are not quarantined.
LEMMA KeptQuiet ==
  ASSUME StateInv, \A x \in Res : res'[x].retries = res[x].retries,
         \/ UNCHANGED where
         \/ \E S, dir : Moved(S, dir) /\ S \cap In("quarantined") = {}
  PROVE  CountsKept /\ CoresKept
<1>1. where \in [Cores -> Dirs] /\ \A x \in Res : res[x] \in ResState
  BY DEF StateInv, StateTypeOK
<1>2. \A c \in Cores : where[c] = "quarantined" => where'[c] = "quarantined"
  BY <1>1 DEF Moved, In
<1>3. \A x \in Res : res[x].quar \subseteq Cores /\ res[x].retries \in Nat
  BY <1>1, StateAssumption DEF ResState
<1> QED  BY <1>2, <1>3 DEF CountsKept, CoresKept

LEMMA KeptWatchdog ==
  ASSUME StateInv, HeldInv, NEW x \in Res, WatchdogNext(x)
  PROVE  CountsKept /\ CoresKept
<1>1. WatchdogEffect(x)
  BY WatchdogEffects DEF HeldInv, MovesInOrder
<1>2. where \in [Cores -> Dirs] /\ res \in [Res -> ResState] /\ \A y \in Res : res[y] \in ResState
  BY DEF StateInv, StateTypeOK
<1>3. CountsKept
  <2>1. \A y \in Res : res'[y].retries >= res[y].retries
    BY <1>1, <1>2, StateAssumption DEF WatchdogEffect, ResState
  <2> QED  BY <2>1 DEF CountsKept
<1>4. UNCHANGED where \/ \E dir : Moved(Used(x), dir)
  BY <1>1 DEF WatchdogEffect
<1>5. \A c \in Cores : where[c] = "quarantined" => where'[c] = "quarantined"
  BY <1>2, <1>4 DEF Moved, Used, In
<1>6. CoresKept
  BY <1>2, <1>5 DEF CoresKept, ResState
<1> QED  BY <1>3, <1>6

LEMMA KeptAcquire ==
  ASSUME StateInv, WatchInv, CoreInv, RangerAcquire
  PROVE  CountsKept /\ CoresKept
<1>1. PICK g : AcquireEffect(g)
  BY AcquireEffects
<1>2. PICK x \in Res : x = <<rr.run, g>>
  BY <1>1 DEF AcquireEffect
<1>3. where \in [Cores -> Dirs] /\ \A y \in Res : res[y] \in ResState
  BY DEF StateInv, StateTypeOK
<1>4. rr.run \in Runs /\ x[1] = rr.run /\ Cpu(x) = g /\ we[rr.run].pc = "none" /\ rr.dir # "quarantined"
  BY <1>1, <1>2 DEF AcquireEffect, WatchInv, StartsInOrder, StartInProgress, Cpu
<1>5. g \notin run[rr.run].online => res[x].retries = 0
  BY <1>4 DEF CoreInv, Fresh
<1>6. NewRes.retries = 0
  BY DEF NewRes
<1>7. \A y \in Res : res'[y].retries = res[y].retries
  BY <1>1, <1>2, <1>5, <1>6 DEF AcquireEffect
<1>8. Moved(g, "online") /\ g \cap In("quarantined") = {}
  BY <1>1, <1>4 DEF AcquireEffect, In
<1> QED  BY <1>7, <1>8, KeptQuiet

LEMMA KeptBegin ==
  ASSUME StateInv, RunInv, WatchInv, NewRunStart
  PROVE  CountsKept /\ CoresKept
<1>1. PICK P : BeginEffect(P)
  BY BeginEffects
<1>2. ~run[cr.run].ongoing
  BY <1>1, BeginsFresh
<1>3. where \in [Cores -> Dirs] /\ \A y \in Res : res[y] \in ResState
  BY DEF StateInv, StateTypeOK
<1>4. Moved(UNION P, "online") /\ \A g \in P : g \subseteq In("idle")
  BY <1>1 DEF BeginEffect
<1>5. \A c \in Cores : where[c] = "quarantined" => where'[c] = "quarantined"
  BY <1>3, <1>4 DEF Moved, In
<1>6. \A x \in Res : x[1] # cr.run => res'[x] = res[x]
  BY <1>1 DEF BeginEffect
<1>7. \A x \in Res : res[x].quar \subseteq Cores /\ res[x].retries \in Nat
  BY <1>3, StateAssumption DEF ResState
<1> QED  BY <1>2, <1>5, <1>6, <1>7 DEF CountsKept, CoresKept

LEMMA KeptWaitForEnd ==
  ASSUME StateInv, RunInv, CoreInv, NEW r \in Runs, WaitForEndNext(r)
  PROVE  CountsKept /\ CoresKept
<1>1. where \in [Cores -> Dirs] /\ \A y \in Res : res[y] \in ResState
  BY DEF StateInv, StateTypeOK
<1>2. CASE WaitForEndClear(r)
  <2>1. PICK x \in Res : x = <<r, we[r].cur>> /\ Moved(res[x].quar, "idle")
    BY <1>2, ClearsOwn
  <2>2. UNCHANGED run /\ we[r].pc = "clear" /\ \A y \in Res : res'[y].retries = res[y].retries
    BY <1>2, ClearEffects DEF ClearEffect
  <2>3. ~run[r].ongoing /\ x[1] = r
    BY <2>1, <2>2 DEF RunInv, RunsInOrder, EndingInOrder
  <2>4. CountsKept
    <3>1. \A y \in Res : res[y].retries \in Nat
      BY <1>1, StateAssumption DEF ResState
    <3> QED  BY <2>2, <3>1 DEF CountsKept
  <2>5. \A y \in Res : run'[y[1]].ongoing => y # x
    BY <2>2, <2>3
  <2>6. \A y \in Res : y # x => res[y].quar \cap res[x].quar = {}
    BY DEF CoreInv, Quar
  <2>7. CoresKept
    <3> SUFFICES ASSUME NEW y \in Res, run'[y[1]].ongoing, NEW c \in res[y].quar, where[c] = "quarantined"
                 PROVE  where'[c] = "quarantined"
      BY DEF CoresKept
    <3>1. c \in Cores /\ c \notin res[x].quar
      BY <1>1, <2>5, <2>6 DEF ResState
    <3> QED  BY <2>1, <3>1 DEF Moved
  <2> QED  BY <2>4, <2>7
<1>3. CASE ~WaitForEndClear(r)
  <2>1. UNCHANGED <<where, res>>
    BY <1>3 DEF WaitForEndNext, WaitForEndJoin, WaitForEndReset, WaitForEndRmtree, WaitForEndRemove
  <2> QED  BY <2>1, KeptQuiet
<1> QED  BY <1>2, <1>3

LEMMA KeptStep ==
  ASSUME TypeInv, RunInv, HeldInv, WatchInv, CoreInv, Uncut, Uncut', [Next]_vars
  PROVE  CountsKept /\ CoresKept
<1>1. StateInv
  BY DEF TypeInv
<1>2. CASE \E x \in Res : WatchdogNext(x)
  BY <1>1, <1>2, KeptWatchdog
<1>3. CASE RangerNext \/ RangerJoinTimeout
  <2>1. CASE RangerAcquire
    BY <1>1, <2>1, KeptAcquire
  <2>2. CASE RangerStart \/ RangerRestarted
    <3>1. (StartEffect \/ RestartEffect) /\ UNCHANGED where
      BY <1>1, <2>2, StartEffects, RestartEffects DEF StartEffect, RestartEffect
    <3>2. PICK x : x = rr.res
      OBVIOUS
    <3>3. /\ \A y \in Res \ {x} : res'[y] = res[y]
          /\ x \in Res => res'[x].retries = res[x].retries
      BY <3>1, <3>2 DEF StartEffect, RestartEffect
    <3>4. \A y \in Res : res'[y].retries = res[y].retries
      BY <3>3
    <3> QED  BY <1>1, <3>1, <3>4, KeptQuiet
  <2>3. CASE ~(RangerAcquire \/ RangerStart \/ RangerRestarted)
    <3>1. OtherEffect
      BY <1>1, <1>3, <2>3, OtherEffects DEF RangerNext
    <3>2. UNCHANGED where \/ \E S, dir : Moved(S, dir) /\ S \cap In("quarantined") = {}
      BY <3>1 DEF OtherEffect, In
    <3>3. \A y \in Res : res'[y].retries = res[y].retries
      BY <3>1 DEF OtherEffect
    <3> QED  BY <1>1, <3>2, <3>3, KeptQuiet
  <2> QED  BY <2>1, <2>2, <2>3
<1>4. CASE RunnerNext \/ UpdateJoinTimeout
  <2>1. CASE NewRunStart
    BY <1>1, <2>1, KeptBegin
  <2>2. CASE ~NewRunStart
    <3>1. RunnerEffect /\ UNCHANGED where
      BY <1>1, <1>4, <2>2, RunnerEffects, RunnerUncut
    <3> QED  BY <1>1, <3>1, KeptQuiet DEF RunnerEffect
  <2> QED  BY <2>1, <2>2
<1>5. CASE \E r \in Runs : WaitForEndNext(r)
  BY <1>1, <1>5, KeptWaitForEnd
<1>6. ASSUME NEW r \in Runs, ShutdownNext(r)  PROVE  FALSE
  BY <1>6 DEF Uncut, Undisturbed, ShutdownNext, ShutdownBegin, ShutdownKill, ShutdownJoin, ShutdownClear,
       ShutdownReset, ShutdownRemove, ShutdownRmtree
<1>7. CASE \E x \in Res : ProcessEnds(x) \/ StrayEnds(x) \/ ProcessCrashes(x)
  BY <1>1, <1>7, ProcessEffects, KeptQuiet
<1>8. CASE \/ \E r \in Runs : NotifyNewRun(r) \/ NotifyEnd(r)
           \/ \E r \in Runs \union {NoRun} : Herod(r)
           \/ UNCHANGED vars
  <2>1. UNCHANGED <<res, where>>
    BY <1>8 DEF NotifyNewRun, NotifyEnd, Herod, vars, fuVars
  <2> QED  BY <1>1, <2>1, KeptQuiet
<1>9. ASSUME NEW c \in Cores, NEW dir \in {"idle", "quarantined"}, MoveByHand(c, dir)  PROVE  FALSE
  BY <1>9 DEF MoveByHand, Spend, Uncut, Undisturbed, TypeInv, Bounds
<1>10. ASSUME NEW d \in {-1, 1}, CpuChange(d)  PROVE  FALSE
  BY <1>10 DEF CpuChange, Spend, Uncut, TypeInv, Bounds
<1> QED  BY <1>2, <1>3, <1>4, <1>5, <1>6, <1>7, <1>8, <1>9, <1>10 DEF Next, Threads, Timeouts

\* As long as nobody moves core files by hand, no run is shut down and the number
\* of CPUs does not change, the restarts of a process are counted for as long as
\* its run is ongoing: no new resource object forgets them.
THEOREM RetriesAreKept ==
  ASSUME SettleDelay
  PROVE  Spec /\ []Uncut => RetriesKept
<1>1. TypeInv /\ RunInv /\ HeldInv /\ WatchInv /\ CoreInv /\ Uncut /\ Uncut' /\ [Next]_vars => CountsKept
  BY KeptStep
<1>2. Init => (Undisturbed => HeldInv) /\ (Undisturbed => WatchInv) /\ (Uncut => CoreInv)
  BY HeldInit, WatchInit, CoreInit
<1>3. Uncut => Undisturbed
  BY DEF Uncut
<1> QED
  BY <1>1, <1>2, <1>3, InitTypes, TypeInvStep, InitRuns, RunInvStep, HeldStep, WatchStep, CoreStep, PTL
  DEF Spec, RetriesKept, CountsKept

\* Under the same conditions cores that a watchdog has quarantined stay there
\* until their run is no longer ongoing.
THEOREM QuarantineIsKept ==
  ASSUME SettleDelay
  PROVE  Spec /\ []Uncut => QuarantineKept
<1>1. TypeInv /\ RunInv /\ HeldInv /\ WatchInv /\ CoreInv /\ Uncut /\ Uncut' /\ [Next]_vars => CoresKept
  BY KeptStep
<1>2. Init => (Undisturbed => HeldInv) /\ (Undisturbed => WatchInv) /\ (Uncut => CoreInv)
  BY HeldInit, WatchInit, CoreInit
<1>3. Uncut => Undisturbed
  BY DEF Uncut
<1> QED
  BY <1>1, <1>2, <1>3, InitTypes, TypeInvStep, InitRuns, RunInvStep, HeldStep, WatchStep, CoreStep, PTL
  DEF Spec, QuarantineKept, CoresKept
=============================================================================
