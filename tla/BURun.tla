-------------------------------- MODULE BURun --------------------------------
(***************************************************************************)
(* Runs on a builder unit and its filter units: a run is taken, announced  *)
(* to the units, ended by the data acquisition or by a herod command, and  *)
(* declared complete when no box file shows it any more.                   *)
(***************************************************************************)
EXTENDS BUContact

-----------------------------------------------------------------------------
(* The RunRanger *)

\* AcquireResources: units with a box file younger than ten seconds, and those of
\* the whitelist that have none; one that does not answer may still have a young file.
Acquired(l, young) ==
  {f \in FUs : /\ f \notin l.black
               /\ IF f \in box THEN ~Barred(l, f) /\ (Up(f) \/ f \in young)
                  ELSE l.hasWhite /\ f \in l.white}

\* resource_lock is taken, and all units are called at the same time.
NewRunCmd ==
  /\ ru.pc = "idle" /\ cmds # <<>> /\ Head(cmds) # Herod /\ cmds' = Tail(cmds)
  /\ LET r == Head(cmds)
     IN IF dir[r] = "gone" THEN UNCHANGED <<ru, lists, listed, run, calls>>
        ELSE \E l \in Lists, young \in SUBSET {f \in box : ~Up(f)} :
               /\ lists' = l
               /\ listed' = listed \union {r}
               /\ run' = [run EXCEPT ![r].joined = Acquired(l, young)]
               /\ calls' = calls \union {Notify("start", r, f) : f \in Acquired(l, young)}
               /\ ru' = [ru EXCEPT !.pc = "start", !.cur = r]
  /\ UNCHANGED <<dir, rr, created, map, box, fu, flight, known, spent>>

\* All calls have been joined.
Started ==
  /\ ru.pc = "start" /\ ~\E c \in calls : c.by = "start"
  /\ run' = [run EXCEPT ![ru.cur].async = IF run[ru.cur].pending = {} THEN "none" ELSE "wait",
                        ![ru.cur].checker = "eor"]
  /\ ru' = RunnerIdle
  /\ UNCHANGED <<dir, cmds, lists, listed, calls, rr, created, map, box, fu, flight, known, spent>>

\* cleanupBUCmd sends the command to the units first; the calls may be lost.
HerodCmd ==
  /\ ru.pc = "idle" /\ cmds # <<>> /\ Head(cmds) = Herod /\ cmds' = Tail(cmds)
  /\ LET reached == {f \in box : Up(f)}
     IN \E lost \in SUBSET reached :
          /\ IF lost = {} THEN UNCHANGED spent ELSE Spend("lost")
          /\ fu' = [f \in FUs |-> IF f \in reached \ lost
                                  THEN [fu[f] EXCEPT !.work = {}] ELSE fu[f]]
  /\ ru' = [ru EXCEPT !.pc = "herod", !.todo = listed]
  /\ UNCHANGED <<dir, lists, listed, run, calls, rr, created, map, box, flight, known>>

\* Mutant of WithEoR: the run is left open.
BugWithEoR(r) == dir
WithEoR(r) == [dir EXCEPT ![r] = IF @ = "open" THEN "eor" ELSE @]
\* createEmptyEoRMaybe and the first half of ShutdownBU.
HerodRun(r) ==
  /\ ru.pc = "herod" /\ r \in ru.todo
  /\ dir' = WithEoR(r)
  /\ run' = [run EXCEPT ![r].pending = {}]
  /\ ru' = [pc |-> "join", cur |-> r, todo |-> ru.todo \ {r}]
  /\ UNCHANGED <<cmds, lists, listed, calls, rr, created, map, box, fu, flight, known, spent>>
HerodJoined ==
  /\ ru.pc = "join" /\ AsyncJoined(ru.cur)
  /\ listed' = listed \ {ru.cur}
  /\ ru' = [ru EXCEPT !.pc = "herod", !.cur = NoRun]
  /\ UNCHANGED <<dir, cmds, lists, run, calls, rr, created, map, box, fu, flight, known, spent>>
HerodDone ==
  /\ ru.pc = "herod" /\ ru.todo = {}
  /\ ru' = RunnerIdle
  /\ UNCHANGED <<dir, cmds, lists, listed, run, calls, rr, created, map, box, fu, flight, known, spent>>

\* With the threads of Start, which it waits for.
RunRanger == \/ NewRunCmd \/ Started \/ HerodCmd \/ HerodJoined \/ HerodDone
             \/ \E r \in Runs : HerodRun(r) \/ Calling("start", r)

-----------------------------------------------------------------------------
(* runCompletedChecker *)

CheckerGoto(r, pc) == run' = [run EXCEPT ![r].checker = pc]
CheckerEoR(r) ==
  /\ run[r].checker = "eor" /\ Over(r)
  /\ run' = [run EXCEPT ![r].checker = "stop", ![r].pending = {}]
  /\ UNCHANGED <<dir, cmds, ru, lists, listed, calls, rr, created, map, box, fu, flight, known, spent>>
CheckerJoined(r) ==
  /\ run[r].checker = "stop" /\ AsyncJoined(r)
  /\ CheckerGoto(r, "poll")
  /\ UNCHANGED <<dir, cmds, ru, lists, listed, calls, rr, created, map, box, fu, flight, known, spent>>

\* Mutant of Counted: boxes that are not updated any more count.
BugCounted(f) == map[f].known
Counted(f) == map[f].known /\ ~map[f].old
\* checkNotifiedBoxes
NoBoxShows(r) == \A f \in FUs : Counted(f) => map[f].ok /\ r \notin map[f].runs

\* Assumption on the five seconds between two polls: units that are up have handled
\* their commands and written their boxes, and the ResourceRanger has read them,
\* unless it is held up by a start that takes long.
Settled == \A f \in FUs : Up(f) => Barred(lists, f) \/ HeldUp \/ map[f] = Reported(f)

\* Units of which the boxes say nothing: they hang, the lists exclude them, they are
\* being called, or no box is read.
Unseen(r) == {f \in FUs : \/ ~Up(f) \/ Barred(lists, f) \/ HeldUp \/ <<f, r>> \in flight
                          \/ \E c \in calls : c.run = r /\ c.to = f}
CheckerPoll(r) ==
  /\ run[r].checker = "poll" /\ Settled /\ NoBoxShows(r)
  /\ CheckerGoto(r, "remove")
  /\ known' = [known EXCEPT !.complete = @ \union {r},
                            !.excused = @ \union (Unseen(r) \X {r})]
  /\ UNCHANGED <<dir, cmds, ru, lists, listed, calls, rr, created, map, box, fu, flight, spent>>
CheckerRemove(r) ==
  /\ run[r].checker = "remove" /\ LockFree
  /\ listed' = listed \ {r}
  /\ CheckerGoto(r, "over")
  /\ UNCHANGED <<dir, cmds, ru, lists, calls, rr, created, map, box, fu, flight, known, spent>>

CompletedChecker(r) == CheckerEoR(r) \/ CheckerJoined(r) \/ CheckerPoll(r) \/ CheckerRemove(r)

-----------------------------------------------------------------------------
(* The data acquisition and the operator *)

BuOpens(r) ==
  /\ dir[r] = "none" /\ \A q \in Runs : q < r => Over(q)
  /\ dir' = [dir EXCEPT ![r] = "open"]
  /\ cmds' = Append(cmds, r)
  /\ IF r = 1 THEN UNCHANGED spent ELSE Spend("run")
  /\ UNCHANGED <<ru, lists, listed, run, calls, rr, created, map, box, fu, flight, known>>
BuEnds(r) ==
  /\ dir[r] = "open"
  /\ dir' = [dir EXCEPT ![r] = "eor"]
  /\ UNCHANGED <<cmds, ru, lists, listed, run, calls, rr, created, map, box, fu, flight, known, spent>>
BuRemoves(r) ==
  /\ dir[r] = "eor" /\ Spend("remove")
  /\ dir' = [dir EXCEPT ![r] = "gone"]
  /\ UNCHANGED <<cmds, ru, lists, listed, run, calls, rr, created, map, box, fu, flight, known>>
HerodCgi ==
  /\ Spend("herod")
  /\ cmds' = Append(cmds, Herod)
  /\ UNCHANGED <<dir, ru, lists, listed, run, calls, rr, created, map, box, fu, flight, known>>

-----------------------------------------------------------------------------
(* The filter units *)

buSide == <<dir, cmds, ru, lists, listed, run, calls, rr, map>>

\* A run ends on a unit when its data end, and in cloud mode.
FuEnds(f, r) ==
  /\ Up(f) /\ r \in fu[f].work /\ (Over(r) \/ fu[f].cloud)
  /\ fu' = [fu EXCEPT ![f].work = @ \ {r}]
  /\ UNCHANGED <<buSide, created, box, flight, known, spent>>
\* It may also end early, by crashes or missing cores.
FuDrops(f, r) ==
  /\ Up(f) /\ r \in fu[f].work /\ Spend("drop")
  /\ fu' = [fu EXCEPT ![f].work = @ \ {r}]
  /\ UNCHANGED <<buSide, created, box, flight, known>>

FuCreatesBox(f) ==
  /\ Up(f) /\ f \notin box
  /\ box' = box \union {f} /\ created' = created \union {f}
  /\ UNCHANGED <<buSide, fu, flight, known, spent>>

FuToCloud(f) ==
  /\ Up(f) /\ ~fu[f].cloud /\ Spend("cloud")
  /\ fu' = [fu EXCEPT ![f].cloud = TRUE]
  /\ UNCHANGED <<buSide, created, box, flight, known>>
FuFromCloud(f) ==
  /\ Up(f) /\ fu[f].cloud /\ fu[f].work = {}
  /\ fu' = [fu EXCEPT ![f].cloud = FALSE]
  /\ UNCHANGED <<buSide, created, box, flight, known, spent>>

FuHangs(f) ==
  /\ Up(f) /\ Spend("stuck")
  /\ fu' = [fu EXCEPT ![f].st = "stuck"]
  /\ UNCHANGED <<buSide, created, box, flight, known>>
FuRecovers(f) ==
  /\ fu[f].st = "stuck"
  /\ fu' = [fu EXCEPT ![f].st = "up"]
  /\ UNCHANGED <<buSide, created, box, flight, known, spent>>
\* The server executes a request long after the BU has given up the connection.
FlightLands(f, r) ==
  /\ Up(f) /\ <<f, r>> \in flight
  /\ fu' = WithStart(f, r)
  /\ flight' = flight \ {<<f, r>>}
  /\ known' = Noted(known)
  /\ UNCHANGED <<buSide, created, box, spent>>

\* hltd on the unit stops, which removes the box file, or the machine crashes; the
\* run directories are removed when hltd starts again.
FuFails(f) ==
  /\ Up(f) /\ Spend("crash")
  /\ fu' = [fu EXCEPT ![f] = [@ EXCEPT !.st = "down", !.work = {}]]
  /\ box' \in {box, box \ {f}}
  /\ flight' = flight \ ({f} \X Runs)
  /\ UNCHANGED <<buSide, created, known>>
FuBoots(f) ==
  /\ fu[f].st = "down"
  /\ fu' = [fu EXCEPT ![f].st = "up"]
  /\ UNCHANGED <<buSide, created, box, flight, known, spent>>

-----------------------------------------------------------------------------

Init ==
  /\ dir = [r \in Runs |-> "none"] /\ cmds = <<>> /\ ru = RunnerIdle
  /\ lists = [black |-> {}, hasWhite |-> FALSE, white |-> {}] /\ listed = {}
  /\ run = [r \in Runs |-> NewRun] /\ calls = {} /\ rr = RangerIdle
  /\ box \in {FUs \ F : F \in SUBSET Faulty} /\ created = {}
  /\ map = [f \in FUs |-> NoReport]
  /\ fu = [f \in FUs |-> [st |-> "up", cloud |-> FALSE, work |-> {}]]
  /\ flight = {}
  /\ known = [complete |-> {}, excused |-> {}, unlisted |-> {}, ran |-> {}, again |-> {}]
  /\ spent = 0

Outside ==
  \/ HerodCgi
  \/ \E r \in Runs : BuOpens(r) \/ BuEnds(r) \/ BuRemoves(r)
  \/ \E f \in Faulty : FuToCloud(f) \/ FuFromCloud(f) \/ FuHangs(f) \/ FuRecovers(f)
                       \/ FuFails(f) \/ FuBoots(f) \/ BoxTorn(f)
  \/ \E f \in Faulty, r \in Runs : FuDrops(f, r)
Unit(f) == FuCreatesBox(f) \/ \E r \in Runs : FuEnds(f, r) \/ FlightLands(f, r)
Next ==
  \/ RunRanger \/ ResourceRanger \/ StartIsLong \/ Outside
  \/ \E r \in Runs : AsyncContact(r) \/ CompletedChecker(r)
  \/ \E f \in FUs : Unit(f) \/ BoxAges(f)
Spec == Init /\ [][Next]_buVars

\* Threads are scheduled, attempts end after ten seconds, and units that are up write
\* their box, end runs whose data have ended, and execute what they have accepted.
FairSpec ==
  /\ Spec
  /\ WF_buVars(RunRanger) /\ WF_buVars(ResourceRanger)
  /\ \A r \in Runs : WF_buVars(AsyncContact(r)) /\ WF_buVars(CompletedChecker(r))
  /\ \A f \in FUs : WF_buVars(Unit(f)) /\ WF_buVars(BoxAges(f))

-----------------------------------------------------------------------------
(* Properties *)

\* When the completion checker says that a run has been processed, no filter unit
\* works on it or will, except one that the boxes do not tell of: one that hangs, that the
\* lists of a later run exclude, that is being called or has been attached since, and all
\* while no box is read because Start holds resource_lock.
CompletionTrue ==
  \A r \in known.complete, f \in FUs : r \in fu[f].work => <<f, r>> \in known.excused

\* Units on the blacklist of the run that was started last, or not on its whitelist, take
\* no part in it; maybeNotifyNewRun does not look if no unit took part before.
Begun(r) == (ru.pc = "start" /\ ru.cur = r) \/ run[r].checker # "none"
ListsRespected ==
  \A r \in Runs, f \in FUs :
    Begun(r) /\ (\A q \in Runs : Begun(q) => q <= r) /\ Barred(lists, f) /\ r \notin known.unlisted
      => f \notin run[r].joined

\* A unit starts a run a second time, with the same data, only if an answer was lost
\* or it was asked again after it came back from the cloud.
StartedOnce ==
  [][\A f \in FUs, r \in Runs :
       r \in fu'[f].work \ fu[f].work /\ <<f, r>> \in known.ran => <<f, r>> \in known.again]_buVars

\* A run that is over leaves the list of the BU, whatever units fail.
RunLeavesList == \A r \in Runs : (r \in listed /\ Over(r)) ~> (r \notin listed)

\* Units that did not answer are contacted until all have done so or the run ends, unless
\* one of them fails for good.
PendingContacted ==
  \A r \in Runs : (\A f \in FUs : []<>Up(f)) => (run[r].pending # {}) ~> (run[r].pending = {})

\* After a herod command every unit that is up gets rid of the run, also one that the
\* command did not reach, or that was called too late.
HerodEnds ==
  \A r \in Runs :
    (ru.pc = "herod" /\ r \in ru.todo) ~> (\A f \in FUs : r \notin fu[f].work \/ ~Up(f))
=============================================================================
