------------------------------ MODULE FURunEnd ------------------------------
(***************************************************************************)
(* The two ways a run leaves a filter unit: WaitForEnd (Run.py:956-1054),  *)
(* which waits for every process to end, and Shutdown (Run.py:725-863),    *)
(* which kills them.  anelastic.py and elastic.py, which both wait for,    *)
(* are taken to end.  Cloud mode, looked at by both at the end, is off.    *)
(***************************************************************************)
EXTENDS FUState

\* clearQuarantined stops at the first file that is not in quarantined.
Restorable(q) == {S \in SUBSET (q \cap In("quarantined")) : q \subseteq In("quarantined") => S = q}
LeftOver(q, S) == IF S = q THEN {} ELSE q

\* Mutant of JoinList: no resource is joined.
BugJoinList(r) == {}
\* The loop goes over the list object it began with: when Shutdown gives the run a
\* new list, the loop keeps the old one.
JoinList(r) == IF we[r].cut THEN we[r].old ELSE run[r].joinl

WaitForEndJoin(r) ==
  /\ we[r].pc = "join"
  /\ \E g \in JoinList(r) \ we[r].seen :
       /\ res[<<r, g>>].pstate = "none" \/ NoWatchdog(<<r, g>>)
       /\ we' = [we EXCEPT ![r].pc = "clear", ![r].cur = g]
  /\ UNCHANGED <<where, events, cmds, lock, rr, cr, runs, run, sh, res, qlist, cpuchg>>

\* clearQuarantined takes resource_lock; process = None follows without it.
WaitForEndClear(r) ==
  /\ we[r].pc = "clear" /\ lock = "free"
  /\ LET x == <<r, we[r].cur>> IN
       \E S \in Restorable(res[x].quar) :
         /\ MoveTo(S, "idle")
         /\ res' = [res EXCEPT ![x].quar = LeftOver(@, S), ![x].obj = FALSE]
  /\ we' = [we EXCEPT ![r].pc = "join", ![r].seen = @ \union {we[r].cur}]
  /\ UNCHANGED <<cmds, lock, rr, cr, runs, run, sh, qlist, cpuchg>>

\* The lists are emptied without the lock.  Once the directory is gone the
\* complete marker cannot be written and the exception ends the thread.
WaitForEndReset(r) ==
  /\ we[r].pc = "join" /\ JoinList(r) \subseteq we[r].seen
  /\ IF run[r].marker = "gone"
     THEN /\ run' = [run EXCEPT ![r].online = {}, ![r].joinl = {}]
          /\ we' = [we EXCEPT ![r].pc = "done"]
     ELSE /\ run' = [run EXCEPT ![r].online = {}, ![r].joinl = {},
                                ![r].marker = "complete", ![r].endfile = FALSE]
          /\ we' = [we EXCEPT ![r].pc = "tail"]
  /\ UNCHANGED <<where, events, cmds, lock, rr, cr, runs, sh, res, qlist, cpuchg>>

WaitForEndRmtree(r) ==
  /\ we[r].pc = "tail"
  /\ run' = [run EXCEPT ![r].marker = "gone"]
  /\ we' = [we EXCEPT ![r].pc = "remove"]
  /\ UNCHANGED <<where, events, cmds, lock, rr, cr, runs, sh, res, qlist, cpuchg>>

WaitForEndRemove(r) ==
  /\ we[r].pc = "remove" /\ lock = "free"
  /\ RemoveRun(r)
  /\ we' = [we EXCEPT ![r].pc = "done"]
  /\ UNCHANGED <<where, events, cmds, lock, rr, cr, run, sh, res, qlist, cpuchg>>

WaitForEndNext(r) ==
  \/ WaitForEndJoin(r) \/ WaitForEndClear(r) \/ WaitForEndReset(r)
  \/ WaitForEndRmtree(r) \/ WaitForEndRemove(r)

-----------------------------------------------------------------------------
ShutdownBegin(r) ==
  /\ sh[r].pc = "begin"
  /\ run' = [run EXCEPT ![r] = [NotOngoing(run[r]) EXCEPT
                        !.pending = FALSE, !.marker = ChangeMarker(run[r].marker, "aborted")]]
  /\ sh' = [sh EXCEPT ![r].pc = "kill"]
  /\ UNCHANGED <<where, events, cmds, lock, rr, cr, runs, we, res, qlist, cpuchg>>

\* The resources that run now are killed and will be joined; no lock is held.
ShutdownKill(r) ==
  /\ sh[r].pc = "kill"
  /\ LET term == {g \in run[r].online : res[<<r, g>>].pstate = "running"} IN
       /\ sh' = [sh EXCEPT ![r].pc = "join", ![r].term = term]
       /\ res' = [x \in Res |-> IF x[1] = r /\ x[2] \in term /\ res[x].obj /\ res[x].proc = "alive"
                                THEN [res[x] EXCEPT !.proc = "crash"] ELSE res[x]]
  /\ UNCHANGED <<where, events, cmds, lock, rr, cr, runs, run, we, qlist, cpuchg>>

ShutdownJoin(r) ==
  /\ sh[r].pc = "join" /\ \A g \in sh[r].term : NoWatchdog(<<r, g>>)
  /\ sh' = [sh EXCEPT ![r].pc = "clear"]
  /\ UNCHANGED <<where, events, cmds, lock, rr, cr, runs, run, we, res, qlist, cpuchg>>

\* Quarantined cores are restored, back[g] of them for group g, or remembered in
\* q_list; the other cores of the listed resources go from online to idle.
GiveBack(r, restore, back) ==
  LET listed == {<<r, g>> : g \in run[r].online}
      quar == UNION {res[x].quar : x \in listed}
      free == UNION {g \ (IF restore THEN back[g] ELSE res[<<r, g>>].quar) : g \in run[r].online}
  IN /\ MoveTo((UNION {back[g] : g \in run[r].online}) \union (free \cap In("online")), "idle")
     /\ qlist' = IF restore THEN qlist ELSE qlist \union quar
     /\ res' = [x \in Res |-> IF x \notin listed THEN res[x]
                  ELSE [res[x] EXCEPT !.obj = FALSE, !.quar = LeftOver(@, back[x[2]])]]

\* With the lock; q_list is used when the run has reached its quarantined limit and
\* nothing clears the cores automatically.
ShutdownClear(r) ==
  /\ sh[r].pc = "clear" /\ lock = "free"
  /\ \E restore \in BOOLEAN, back \in [run[r].online -> SUBSET Cores] :
       /\ ~restore => QuarantinedLimit(r)
       /\ \A g \in run[r].online :
            back[g] \in IF restore THEN Restorable(res[<<r, g>>].quar) ELSE {{}}
       /\ GiveBack(r, restore, back)
  /\ sh' = [sh EXCEPT ![r].pc = "reset"]
  /\ UNCHANGED <<cmds, lock, rr, cr, runs, run, we, cpuchg>>

ShutdownReset(r) ==
  /\ sh[r].pc = "reset"
  /\ run' = [run EXCEPT ![r].online = {}, ![r].joinl = {},
                        ![r].marker = ChangeMarker(@, "abortcomplete")]
  /\ we' = [we EXCEPT ![r] = IF @.pc \in {"join", "clear"} /\ ~@.cut
                             THEN [@ EXCEPT !.cut = TRUE, !.old = run[r].joinl] ELSE @]
  /\ sh' = [sh EXCEPT ![r].pc = "wait"]
  /\ UNCHANGED <<where, events, cmds, lock, rr, cr, runs, res, qlist, cpuchg>>

\* Wait for a WaitForEnd thread of the run, then take the run off the list.
ShutdownRemove(r) ==
  /\ sh[r].pc = "wait" /\ we[r].pc \in {"none", "done"} /\ lock = "free"
  /\ RemoveRun(r)
  /\ sh' = [sh EXCEPT ![r].pc = "rmdir"]
  /\ UNCHANGED <<where, events, cmds, lock, rr, cr, run, we, res, qlist, cpuchg>>

\* Removing the end file is skipped when the directory is already gone.
ShutdownRmtree(r) ==
  /\ sh[r].pc = "rmdir"
  /\ run' = IF run[r].marker = "gone" THEN run
            ELSE [run EXCEPT ![r].marker = "gone", ![r].endfile = FALSE]
  /\ sh' = [sh EXCEPT ![r].pc = "done"]
  /\ UNCHANGED <<where, events, cmds, lock, rr, cr, runs, we, res, qlist, cpuchg>>

ShutdownNext(r) ==
  \/ ShutdownBegin(r) \/ ShutdownKill(r) \/ ShutdownJoin(r) \/ ShutdownClear(r)
  \/ ShutdownReset(r) \/ ShutdownRemove(r) \/ ShutdownRmtree(r)
=============================================================================
