-------------------------- MODULE LumiSectionRanger --------------------------
(***************************************************************************)
(* The main loop of anelastic.py (LumiSectionRanger) and the DQMMerger     *)
(* thread.  The main loop takes one event after the other; between two     *)
(* events files appear and the merging thread goes on.                     *)
(***************************************************************************)
EXTENDS LumiHandler

Looping == main.pc = "loop" /\ queue # <<>>
Started == Looping /\ main.started
Event == Head(queue)
Open(l) == lumi[l].st = "open"
\* Open lumisections before l whose EoLS file has not been seen.
Unended(l) == {k \in Lumis : k < l /\ Open(k) /\ ~lumi[k].eols}

Conclude(l, h) == CheckClosure({l}, [lumi EXCEPT ![l] = h])

-----------------------------------------------------------------------------
(* Before the first lumisection files: flushBuffer *)

\* Index files wait in initBuffer.
BufferIndex ==
  /\ Looping /\ ~main.started /\ Event.kind = "index"
  /\ main' = [main EXCEPT !.buffer = Append(@, Event), !.index = TRUE]
  /\ queue' = Tail(queue)
  /\ UNCHANGED <<queued, seen, lumi, ledger, errors, dqm, proc, grab, valid, torn, eols, buEols, spent>>

Flushed == Append(main.buffer, Event)
\* The buffered events are the next ones that process() takes.
FlushBuffer ==
  /\ Looping /\ ~main.started
  /\ \/ Event.kind \in {"eols", "complete", "abort", "processing"}
     \/ Event.kind = "crash" /\ main.index
  /\ main' = [main EXCEPT !.started = TRUE, !.buffer = <<>>,
                          !.allowEmpty = @ \/ Event.kind = "processing"]
  /\ queue' = Flushed \o Tail(queue)
  /\ UNCHANGED <<queued, seen, lumi, ledger, errors, dqm, proc, grab, valid, torn, eols, buEols, spent>>

\* A crash before any data, and output files that are too early, have no effect.
DropEarly ==
  /\ Looping /\ ~main.started
  /\ Event.kind \in {"json", "bad"} \/ (Event.kind = "crash" /\ ~main.index)
  /\ queue' = Tail(queue)
  /\ UNCHANGED <<queued, seen, main, lumi, ledger, errors, dqm, proc, grab, valid, torn, eols, buEols, spent>>

-----------------------------------------------------------------------------
(* process() *)

\* An index file makes the handler of its lumisection, and tells that earlier
\* lumisections have ended.
TakeIndex ==
  /\ Started /\ Event.kind = "index"
  /\ LET l == Event.ls
         h == IF Open(l) THEN lumi[l] ELSE NewHandler("index")
     IN /\ IF Open(l) THEN queue' = Tail(queue) /\ UNCHANGED <<queued, eols>>
           ELSE WriteEoLS(Unended(l), Tail(queue), queued)
        /\ Conclude(l, WithIndex(h, Event.pid, Event.n))
  /\ UNCHANGED <<seen, main, proc, grab, valid, torn, buEols>>

\* Mutant of TakeEoLS: a second EoLS file does not take the lumisection off the list.
BugNotify(l) == IF l \in seen THEN queued ELSE queued \ {l}
\* notifyLumi takes the lumisection off queuedLumiList.
Notify(l) == queued \ {l}
TakeEoLS ==
  /\ Started /\ Event.kind = "eols"
  /\ LET l == Event.ls
         h == IF Open(l) THEN lumi[l] ELSE NewHandler("eols")
     IN IF l \in seen
        THEN /\ queue' = Tail(queue) /\ queued' = Notify(l)
             /\ UNCHANGED <<seen, lumi, ledger, errors, dqm, eols, spent>>
        ELSE /\ seen' = seen \union {l}
             /\ WriteEoLS(Unended(l), Tail(queue), Notify(l))
             /\ IF Open(l) \/ (lumi[l].st = "none" /\ main.allowEmpty)
                THEN Conclude(l, [h EXCEPT !.eols = TRUE])
                ELSE UNCHANGED <<lumi, ledger, errors, dqm, spent>>
  /\ UNCHANGED <<main, proc, grab, valid, torn, buEols>>

\* A stream file of a process that has read events of the lumisection; one of a
\* process that has not is forwarded if nobody has, and removed otherwise.
TakeJson ==
  /\ Started /\ Event.kind = "json"
  /\ LET l == Event.ls
         h == IF Open(l) THEN lumi[l] ELSE NewHandler("json")
     IN IF ~Open(l) /\ (lumi[l].st = "closed" \/ ~main.allowEmpty)
        THEN UNCHANGED <<lumi, ledger, errors, dqm, spent>>
        ELSE IF h.pid[Event.pid].seen
        THEN Conclude(l, WithJson(h, Event.pid, Event.stream, Event.n))
        ELSE /\ IF Event.n = 0 /\ h.empty THEN Forward(l, h, Event.stream)
                ELSE lumi' = [lumi EXCEPT ![l] = h] /\ UNCHANGED <<ledger, errors, dqm>>
             /\ UNCHANGED spent
  /\ queue' = Tail(queue)
  /\ UNCHANGED <<queued, seen, main, proc, grab, valid, torn, eols, buEols>>

\* An empty or malformed stream file.
TakeBad ==
  /\ Started /\ Event.kind = "bad"
  /\ LET l == Event.ls
         h == lumi[l]
     IN IF Open(l) /\ h.pid[Event.pid].seen /\ h.out[Event.stream].open /\ ~h.empty
        THEN Conclude(l, WithBad(h, Event.pid, Event.stream))
        ELSE /\ IF h.st = "none" /\ main.allowEmpty
                THEN lumi' = [lumi EXCEPT ![l] = NewHandler("bad")] ELSE UNCHANGED lumi
             /\ UNCHANGED <<ledger, errors, dqm, spent>>
  /\ queue' = Tail(queue)
  /\ UNCHANGED <<queued, seen, main, proc, grab, valid, torn, eols, buEols>>

\* The crash file goes to every handler; some of the raw files may be left.
TakeCrash ==
  /\ Started /\ Event.kind = "crash"
  /\ LET p == Event.pid
         hit == {l \in Lumis : Open(l) /\ lumi[l].pid[p].seen}
     IN \E raw \in [hit -> 0 .. Max["files"]] :
          /\ \A l \in hit : raw[l] <= lumi[l].pid[p].n
          /\ CheckClosure(hit, [l \in Lumis |-> IF l \in hit THEN WithCrash(lumi[l], p, raw[l])
                                            ELSE lumi[l]])
  /\ queue' = Tail(queue)
  /\ UNCHANGED <<queued, seen, main, proc, grab, valid, torn, eols, buEols>>

TakeMerged ==
  /\ Started /\ Event.kind = "merged"
  /\ IF Open(Event.ls) THEN Conclude(Event.ls, WithMerged(lumi[Event.ls], Event.stream))
     ELSE UNCHANGED <<lumi, ledger, errors, dqm, spent>>
  /\ queue' = Tail(queue)
  /\ UNCHANGED <<queued, seen, main, proc, grab, valid, torn, eols, buEols>>

TakeProcessing ==
  /\ Started /\ Event.kind = "processing"
  /\ main' = [main EXCEPT !.allowEmpty = TRUE]
  /\ queue' = Tail(queue)
  /\ UNCHANGED <<queued, seen, lumi, ledger, errors, dqm, proc, grab, valid, torn, eols, buEols, spent>>

\* checkOpenLumis: lumisections that nobody on this machine has ended.
MissingEoLS == {l \in Lumis : Open(l) /\ ~lumi[l].eols /\ l \in buEols \ eols}
TakeComplete ==
  /\ Started /\ Event.kind \in {"complete", "abort"}
  /\ IF Event.kind = "complete" THEN WriteEoLS(MissingEoLS, Tail(queue), queued)
     ELSE queue' = Tail(queue) /\ UNCHANGED <<queued, eols>>
  /\ main' = [main EXCEPT !.stop = Event.kind]
  /\ UNCHANGED <<seen, lumi, ledger, errors, dqm, proc, grab, valid, torn, buEols, spent>>

-----------------------------------------------------------------------------
(* An iteration without an event, and the end *)

AllClosed == \A l \in Lumis : ~Open(l)
\* Mutant of Countdown: the countdown is not initialised.
BugCountdown == main.left - 1
Countdown == (IF main.left <= -1 THEN 2 * UseTimeout ELSE main.left) - 1
\* The loop ends when everything is closed.  Otherwise the time that is left
\* begins to run; after half of it merging is given up.
Idle ==
  /\ main.pc = "loop" /\ queue = <<>> /\ main.stop # "no"
  /\ main' = IF AllClosed \/ main.left = 0 THEN [main EXCEPT !.pc = "finish"]
             ELSE [main EXCEPT !.left = Countdown,
                               !.skip = @ \/ (main.left # -1 /\ main.left <= UseTimeout /\ dqm.up)]
  /\ UNCHANGED <<queue, queued, seen, lumi, ledger, errors, dqm, proc, grab, valid, torn, eols, buEols, spent>>

\* The merging thread is joined, for ten seconds at most; then the EoR file is written.
Finish ==
  /\ main.pc = "finish"
  /\ main' = [main EXCEPT !.pc = "exited"]
  /\ UNCHANGED <<queue, queued, seen, lumi, ledger, errors, dqm, proc, grab, valid, torn, eols, buEols, spent>>

-----------------------------------------------------------------------------
(* DQMMerger.run *)

\* The events that the processes in P say they have read: n comes from their index files,
\* and the "Processed" and "ErrorEvents" of what a process merged add up to the same.
ReadBy(h, P) == Cardinality({f \in P \X (1 .. Max["files"]) : f[2] <= h.pid[f[1]].n})

\* mergeDQM merges the files of the processes in kept.  What the other inputs say
\* they processed is lost, and so is what none of the inputs accounts for.
MergedCounts(h, s, kept) ==
  LET inputs == {p \in Pids : s \in h.pid[p].merged}
      total == h.out[s].proc + h.out[s].err
      missing == ReadBy(h, inputs \ kept)
  IN [proc |-> ReadBy(h, kept),
      err |-> IF total > ReadBy(h, kept) + missing THEN total - ReadBy(h, kept) ELSE missing]

\* The counts are read when mergeDQM begins.  None of the inputs is kept if the
\* merging is skipped or fails as a whole, and not those whose file is missing.
DqmTake ==
  /\ main.pc # "exited" /\ dqm.cur = {} /\ dqm.q # <<>>
  /\ LET m == Head(dqm.q)
         h == lumi[m.ls]
         inputs == {p \in Pids : m.stream \in h.pid[p].merged}
     IN \E kept \in SUBSET inputs :
          /\ main.skip => kept = {}
          /\ SpendIf(kept # inputs /\ ~main.skip, "lost")
          /\ dqm' = [dqm EXCEPT !.cur = {m}, !.q = Tail(@),
                                !.counts = MergedCounts(h, m.stream, kept)]
  /\ UNCHANGED <<queue, queued, seen, main, lumi, ledger, errors, proc, grab, valid, torn, eols, buEols>>

\* The counts of the stream are set to those, and the merged file appears.
Merged(o, c) == [o EXCEPT !.proc = c.proc, !.err = c.err]
DqmDone ==
  /\ main.pc # "exited"
  /\ \E m \in dqm.cur :
       /\ lumi' = [lumi EXCEPT ![m.ls].out[m.stream] = Merged(@, dqm.counts)]
       /\ queue' = Append(queue, Ev("merged", m.ls, NoPid, m.stream, 0))
  /\ dqm' = [dqm EXCEPT !.cur = {}, !.counts = NoCounts]
  /\ UNCHANGED <<queued, seen, main, ledger, errors, proc, grab, valid, torn, eols, buEols, spent>>
=============================================================================
