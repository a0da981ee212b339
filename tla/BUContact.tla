------------------------------ MODULE BUContact ------------------------------
(***************************************************************************)
(* How filter units learn of a run: NotifyNewRun with its attempts, called *)
(* by the threads of Start, by AsyncContact for those that did not answer, *)
(* and by the ResourceRanger for boxes that appear later.                  *)
(***************************************************************************)
EXTENDS BUState

\* NotifyNewRun: each attempt waits ten seconds for an answer.
Notify(by, r, f) == [by |-> by, run |-> r, to |-> f, left |-> Attempts]
Repeated(f, r) == [known EXCEPT !.again = @ \union {<<f, r>>}]

\* The call ends: the unit has answered (resource.ok), or the attempts are used up.
Finished(c, ok) ==
  /\ calls' = calls \ {c}
  /\ run' = CASE c.by = "start" -> [run EXCEPT ![c.run].pending = IF ok THEN @ ELSE @ \union {c.to}]
              [] c.by = "async" -> [run EXCEPT ![c.run].pending = IF ok THEN @ \ {c.to} ELSE @]
              [] c.by = "box" -> run
  /\ rr' = IF c.by = "box" THEN RangerIdle ELSE rr

Answered(c) ==
  /\ Up(c.to)
  /\ fu' = WithStart(c.to, c.run)
  /\ known' = Noted(known)
  /\ Finished(c, TRUE)
  /\ UNCHANGED <<dir, cmds, ru, lists, listed, created, map, box, flight, spent>>

\* Mutant of LastAttempt: no attempt is the last.
BugLastAttempt(c) == FALSE
LastAttempt(c) == c.left = 1
\* The request may have been executed; a machine that hangs accepts it, one that is down
\* does not.
Unanswered(c) ==
  /\ \/ Up(c.to) /\ Spend("lost") /\ fu' \in {fu, WithStart(c.to, c.run)} /\ UNCHANGED flight
     \/ ~Up(c.to) /\ UNCHANGED <<fu, spent>>
        /\ flight' = IF fu[c.to].st = "stuck" THEN flight \union {<<c.to, c.run>>} ELSE flight
  /\ known' = IF fu' = fu /\ flight' = flight THEN known ELSE Noted(Repeated(c.to, c.run))
  /\ IF LastAttempt(c) THEN Finished(c, FALSE)
     ELSE calls' = (calls \ {c}) \union {[c EXCEPT !.left = @ - 1]} /\ UNCHANGED <<run, rr>>
  /\ UNCHANGED <<dir, cmds, ru, lists, listed, created, map, box>>

Calling(by, r) == \E c \in calls : c.by = by /\ c.run = r /\ (Answered(c) \/ Unanswered(c))

-----------------------------------------------------------------------------
(* AsyncContact *)

Contacting(r) == \E c \in calls : c.by = "async" /\ c.run = r
\* A minute or five have passed, or the event is set.
AsyncWake(r) ==
  /\ run[r].async = "wait"
  /\ run' = [run EXCEPT ![r].todo = run[r].pending,
                        ![r].async = IF run[r].pending = {} THEN "over" ELSE "contact"]
  /\ UNCHANGED <<dir, cmds, ru, lists, listed, calls, rr, created, map, box, fu, flight, known, spent>>

AsyncCall(r) ==
  /\ run[r].async = "contact" /\ ~Contacting(r)
  /\ \E f \in run[r].todo :
       /\ calls' = calls \union {Notify("async", r, f)}
       /\ run' = [run EXCEPT ![r].todo = @ \ {f}]
  /\ UNCHANGED <<dir, cmds, ru, lists, listed, rr, created, map, box, fu, flight, known, spent>>

\* Mutant of Again: the units are contacted once.
BugAgain == "over"
Again == "wait"
AsyncRest(r) ==
  /\ run[r].async = "contact" /\ ~Contacting(r) /\ run[r].todo = {}
  /\ run' = [run EXCEPT ![r].async = Again]
  /\ UNCHANGED <<dir, cmds, ru, lists, listed, calls, rr, created, map, box, fu, flight, known, spent>>

\* stopAsyncContact: the list is dropped and the thread is joined.
\* Mutant of AsyncJoined: the thread is left alone.
BugAsyncJoined(r) == TRUE
AsyncJoined(r) == run[r].async \in {"none", "over"}

AsyncContact(r) == AsyncWake(r) \/ AsyncCall(r) \/ AsyncRest(r) \/ Calling("async", r)

-----------------------------------------------------------------------------
(* The ResourceRanger *)

FindRun(f, override) == rr' = [pc |-> "lock", to |-> f, override |-> override, late |-> FALSE]

\* process_IN_CREATE of a box file; "resourcesMasked", one of the states that count as
\* cloud here, is set to "off".
BoxCreated(f) ==
  /\ rr.pc = "idle" /\ f \in created
  /\ created' = created \ {f}
  /\ map' \in {map, [map EXCEPT ![f].cloud = FALSE]}
  /\ IF f \in box THEN FindRun(f, FALSE) ELSE UNCHANGED rr
  /\ UNCHANGED <<dir, cmds, ru, lists, listed, run, calls, box, fu, flight, known, spent>>

Reported(f) == [known |-> TRUE, ok |-> TRUE, old |-> FALSE, runs |-> fu[f].work, cloud |-> fu[f].cloud]
\* A unit comes back from the cloud without a run.
Flip(f) == /\ map[f].known /\ map[f].ok /\ map[f].cloud
           /\ ~fu[f].cloud /\ fu[f].work = {}

\* process_IN_CLOSE_WRITE of a box file.
BoxRead(f) ==
  /\ rr.pc = "idle" /\ Up(f) /\ f \in box \ created
  /\ ~Barred(lists, f) /\ map[f] # Reported(f)
  /\ map' = [map EXCEPT ![f] = Reported(f)]
  /\ IF Flip(f) THEN FindRun(f, TRUE) ELSE UNCHANGED rr
  /\ UNCHANGED <<dir, cmds, ru, lists, listed, run, calls, created, box, fu, flight, known, spent>>
\* The file is being written again when it is read.
BoxTorn(f) ==
  /\ rr.pc = "idle" /\ Up(f) /\ f \in box \ created /\ ~Barred(lists, f) /\ Spend("torn")
  /\ map' = [map EXCEPT ![f].known = TRUE, ![f].ok = FALSE]
  /\ UNCHANGED <<dir, cmds, ru, lists, listed, run, calls, rr, created, box, fu, flight, known>>
BoxDropped(f) ==
  /\ rr.pc = "idle" /\ Up(f) /\ f \in box \ created /\ Barred(lists, f) /\ map[f].known
  /\ map' = [map EXCEPT ![f] = NoReport]
  /\ UNCHANGED <<dir, cmds, ru, lists, listed, run, calls, rr, created, box, fu, flight, known, spent>>

\* maybeNotifyNewRun refuses a unit that takes part, unless it came back from the
\* cloud, and one that is barred; the loop that looks at all this is over resources.
\* Mutant of TakesPart: units that took part are asked again.
BugTakesPart(r, f) == FALSE
TakesPart(r, f) == f \in run[r].joined
\* Mutant of Refused: the lists are not looked at.
BugRefused(r, f) == TakesPart(r, f) /\ ~rr.override
Refused(r, f) == \/ TakesPart(r, f) /\ ~rr.override
                 \/ Barred(lists, f) /\ run[r].joined # {}

\* findRunAndNotify: the section with the lock.
Attaches(r, f) == IsLastRun(r) /\ dir[r] # "gone" /\ ~Refused(r, f) /\ ~rr.late
Attached(r, f) ==
  /\ Attaches(r, f)
  /\ run' = [run EXCEPT ![r].joined = @ \union {f}]
  /\ calls' = calls \union {Notify("box", r, f)}
  /\ rr' = [rr EXCEPT !.pc = "call"]
  /\ known' = [known EXCEPT
       !.again = IF rr.override THEN @ \union {<<f, r>>} ELSE @,
       !.unlisted = IF run[r].joined = {} THEN @ \union {r} ELSE @,
       !.excused = IF r \in known.complete THEN @ \union {<<f, r>>} ELSE @]
AttachBox ==
  /\ rr.pc = "lock" /\ LockFree
  /\ \/ \E r \in Runs : Attached(r, rr.to)
     \/ /\ \A r \in Runs : ~Attaches(r, rr.to)
        /\ rr' = RangerIdle /\ UNCHANGED <<run, calls, known>>
  /\ UNCHANGED <<dir, cmds, ru, lists, listed, created, map, box, fu, flight, spent>>

\* A run is started for so long that the box waiting for the lock is too old then,
\* and that the other boxes are not looked at for 20 s.
StartIsLong ==
  /\ rr.pc = "lock" /\ ~LockFree /\ ~rr.late /\ Spend("slow")
  /\ rr' = [rr EXCEPT !.late = TRUE]
  /\ UNCHANGED <<dir, cmds, ru, lists, listed, run, calls, created, map, box, fu, flight, known>>
\* 20 s without an update.
HeldUp == rr.late /\ ~LockFree
BoxAges(f) ==
  /\ map[f].known /\ ~map[f].old /\ (~Up(f) \/ HeldUp)
  /\ map' = [map EXCEPT ![f].old = TRUE]
  /\ UNCHANGED <<dir, cmds, ru, lists, listed, run, calls, rr, created, box, fu, flight, known, spent>>

ResourceRanger == \/ AttachBox
                  \/ \E r \in Runs : Calling("box", r)
                  \/ \E f \in FUs : BoxCreated(f) \/ BoxRead(f) \/ BoxDropped(f)
=============================================================================
