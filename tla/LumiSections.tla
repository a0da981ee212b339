---------------------------- MODULE LumiSections ----------------------------
(***************************************************************************)
(* The anelastic script together with what writes the files it follows:    *)
(* the cmsRun processes of the run, the BU, and hltd.                      *)
(***************************************************************************)
EXTENDS LumiSectionRanger

\* The script's side of lumiVars.
scriptVars == <<seen, main, lumi, ledger, errors, dqm>>

Report(ev) == queue' = Append(queue, ev) /\ UNCHANGED queued
HasRoom == Len(queue) < Max["queue"]
Current(p) == proc[p].ls
FilesRead(l) == {f \in Pids \X (1 .. Max["files"]) : f[2] <= grab[l][f[1]]}
AllFiles == UNION {{l} \X FilesRead(l) : l \in Lumis}

-----------------------------------------------------------------------------
(* The BU and the processes *)

Reported == {main.stop} \union {queue[i].kind : i \in DOMAIN queue}
RunOver == Reported \cap {"complete", "abort"} # {}

\* The BU ends a lumisection once all its raw files have been read; what it does
\* after the run is over on this machine does not matter here.
BuEnds(l) ==
  /\ ~RunOver
  /\ l = Cardinality(buEols) + 1
  /\ buEols' = buEols \union {l}
  /\ UNCHANGED <<queue, queued, scriptVars, proc, grab, valid, torn, eols, spent>>

\* Processes are started with the run, and by hltd after a crash; they begin with
\* the lumisection that the BU is writing.
Begin(p) ==
  /\ proc[p].st = "new"
  /\ buEols = {} \/ \E q \in Pids : proc[q].st = "crashed"
  /\ proc' = [proc EXCEPT ![p].st = "work", ![p].ls = Cardinality(buEols) + 1]
  /\ UNCHANGED <<queue, queued, scriptVars, grab, valid, torn, eols, buEols, spent>>

\* A raw file is read under the lock that all processes share, and its index
\* file is written before the lock is released.  Versions of cmsRun that write
\* stream files for lumisections without events tell so by the file "processing",
\* when they begin with the first event.
Grab(p) ==
  LET l == Current(p)
  IN /\ HasRoom /\ proc[p].st = "work" /\ l \in Lumis \ buEols
     /\ Cardinality(AllFiles) < Max["files"]
     /\ grab' = [grab EXCEPT ![l][p] = @ + 1]
     /\ \E announce \in BOOLEAN :
          /\ announce => AllFiles = {}
          /\ queue' = queue \o <<Ev("index", l, p, NoStream, 1)>>
                        \o IF announce THEN <<Ev("processing", 0, NoPid, NoStream, 0)>> ELSE <<>>
          /\ UNCHANGED queued
     /\ UNCHANGED <<scriptVars, proc, valid, torn, eols, buEols, spent>>

\* The first process to see the end of a lumisection writes the EoLS file; two
\* may find that it is missing ("double file create race", aUtils.py:135).
Leave(p) ==
  LET l == Current(p)
  IN /\ HasRoom /\ proc[p].st = "work" /\ l \in buEols
     /\ proc' = [proc EXCEPT ![p].st = "output", ![p].out = {}]
     /\ \/ l \in eols /\ UNCHANGED <<queue, queued, eols, spent>>
        \/ l \notin eols /\ WriteEoLS({l}, queue, queued) /\ UNCHANGED spent
        \/ l \in eols /\ WriteEoLS({l}, queue, queued) /\ Spend("twice")
     /\ UNCHANGED <<scriptVars, grab, valid, torn, buEols>>

\* The results of a lumisection, stream by stream.
Output(p, s) ==
  LET l == Current(p)
      done == proc[p].out \union {s}
  IN /\ HasRoom /\ proc[p].st = "output" /\ s \notin proc[p].out
     /\ \/ /\ Report(Ev("json", l, p, s, grab[l][p]))
           /\ valid' = [valid EXCEPT ![l][p] = @ \union {s}]
           /\ UNCHANGED <<torn, spent>>
        \/ /\ Report(Ev("bad", l, p, s, 0)) /\ Spend("torn")
           /\ torn' = [torn EXCEPT ![l][p] = @ \union {s}]
           /\ UNCHANGED valid
     /\ proc' = [proc EXCEPT ![p] =
          IF done # Streams THEN [@ EXCEPT !.out = done]
          ELSE [st |-> IF l = NLumis THEN "ended" ELSE "work", ls |-> l + 1, out |-> {}]]
     /\ UNCHANGED <<scriptVars, grab, eols, buEols>>

Running(p) == proc[p].st \in {"work", "output"}
Die(p) ==
  /\ Running(p) /\ Spend("crash")
  /\ proc' = [proc EXCEPT ![p].st = "died"]
  /\ UNCHANGED <<queue, queued, scriptVars, grab, valid, torn, eols, buEols>>

-----------------------------------------------------------------------------
(* hltd *)

\* The watchdog of a process that failed writes the crash file.
ReportCrash(p) ==
  /\ HasRoom /\ proc[p].st = "died"
  /\ proc' = [proc EXCEPT ![p].st = "crashed"]
  /\ Report(Ev("crash", 0, p, NoStream, 0))
  /\ UNCHANGED <<scriptVars, grab, valid, torn, eols, buEols, spent>>

\* The run is complete when its processes are gone; one that is aborted ends them.
RunComplete ==
  /\ HasRoom /\ ~RunOver
  /\ \A p \in Pids : proc[p].st \in {"new", "ended", "crashed"}
  /\ \E p \in Pids : proc[p].st # "new"
  /\ proc' = [p \in Pids |-> [proc[p] EXCEPT !.st = IF @ = "new" THEN "ended" ELSE @]]
  /\ Report(Ev("complete", 0, NoPid, NoStream, 0))
  /\ UNCHANGED <<scriptVars, grab, valid, torn, eols, buEols, spent>>
RunAborted ==
  /\ ~RunOver /\ Spend("abort")
  /\ proc' = [p \in Pids |-> [proc[p] EXCEPT !.st = IF @ = "crashed" THEN @ ELSE "ended"]]
  /\ Report(Ev("abort", 0, NoPid, NoStream, 0))
  /\ UNCHANGED <<scriptVars, grab, valid, torn, eols, buEols>>

-----------------------------------------------------------------------------
Init ==
  /\ queue = <<>> /\ queued = {} /\ seen = {} /\ eols = {} /\ buEols = {}
  /\ main = [pc |-> "loop", started |-> FALSE, index |-> FALSE, buffer |-> <<>>,
             allowEmpty |-> FALSE, stop |-> "no", left |-> -1, skip |-> FALSE]
  /\ lumi = [l \in Lumis |-> NoHandler]
  /\ ledger = [l \in Lumis |-> [s \in Streams |-> Unwritten]]
  /\ errors = [l \in Lumis |-> 0]
  /\ dqm = [up |-> FALSE, q |-> <<>>, cur |-> {}, counts |-> NoCounts, refused |-> {}]
  /\ proc = [p \in Pids |-> [st |-> "new", ls |-> 1, out |-> {}]]
  /\ grab = [l \in Lumis |-> [p \in Pids |-> 0]]
  /\ valid = [l \in Lumis |-> [p \in Pids |-> {}]]
  /\ torn = [l \in Lumis |-> [p \in Pids |-> {}]]
  /\ spent = [f \in Faults |-> 0]

MainLoop ==
  \/ BufferIndex \/ FlushBuffer \/ DropEarly
  \/ TakeIndex \/ TakeEoLS \/ TakeJson \/ TakeBad \/ TakeCrash
  \/ TakeMerged \/ TakeProcessing \/ TakeComplete
  \/ Idle \/ Finish
DqmMerger == DqmTake \/ DqmDone
Outside ==
  \/ \E l \in Lumis : BuEnds(l)
  \/ \E p \in Pids : Begin(p) \/ Grab(p) \/ Leave(p) \/ Die(p) \/ ReportCrash(p)
  \/ \E p \in Pids, s \in Streams : Output(p, s)
  \/ RunComplete \/ RunAborted
Next == MainLoop \/ DqmMerger \/ Outside
Spec == Init /\ [][Next]_lumiVars

-----------------------------------------------------------------------------
(* Properties *)

EventsRead(l) == Cardinality(FilesRead(l))
Delivered(l, s) == {p \in Pids : s \in valid[l][p]}
EventsReadBy(l, P) == Cardinality({f \in FilesRead(l) : f[1] \in P})
Written(l, s) == ledger[l][s] # Unwritten

\* A process that left an empty stream file and then died is counted twice.
CountedTwice(l) == \E p \in Pids : torn[l][p] # {} /\ proc[p].st = "crashed"

\* What is written for a stream says what became of the events: each is processed
\* or lost, and unless some were counted twice those are processed whose process
\* has delivered the stream.  Where the files of a stream could not be merged or
\* moved none are; the merging of histograms may also leave out single processes.
EventsAccounted ==
  \A l \in Lumis, s \in Streams : Written(l, s) =>
    /\ ledger[l][s].proc + ledger[l][s].err = EventsRead(l)
    /\ \/ CountedTwice(l)
       \/ \E P \in SUBSET Delivered(l, s) :
            /\ ledger[l][s].proc = EventsReadBy(l, P)
            /\ s \in DqmStreams \/ P \in {{}, Delivered(l, s)}

\* Events in the error stream are lost in every output stream.
ErrorStreamCovered ==
  \A l \in Lumis, s \in Streams : Written(l, s) => errors[l] <= ledger[l][s].err

\* queuedLumiList, whose length throttles the run, is the set of lumisections
\* whose EoLS event is waiting, and none waits twice.
Waiting == {i \in DOMAIN queue : queue[i].kind = "eols"}
QueueCounted ==
  /\ queued = {queue[i].ls : i \in Waiting}
  /\ \A i, j \in Waiting : queue[i] = queue[j] => i = j

\* When the run is complete and nothing is on its way any more, every lumisection
\* that the BU has ended is closed; an exception is one whose histograms the
\* merging thread was not given, or with events that were counted twice.
Quiet == queue = <<>> /\ dqm.q = <<>> /\ dqm.cur = {} /\ main.stop = "complete"
QuietMeansClosed ==
  Quiet => \A l \in buEols : Open(l) /\ ~lumi[l].empty =>
             CountedTwice(l) \/ \E m \in dqm.refused : m.ls = l

ReadSoFar == [l \in Lumis |-> EventsRead(l)]
Ledger == INSTANCE LumiLedger WITH read <- ReadSoFar
\* Each stream of a lumisection is written once, when all its events were read.
ImplementsLedger == Ledger!LedgerSpec
=============================================================================
