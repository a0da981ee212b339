----------------------------- MODULE LumiHandler -----------------------------
(***************************************************************************)
(* LumiSectionHandler of anelastic.py: the account of the events of one    *)
(* lumisection.  A file of the lumisection changes the account, and every  *)
(* stream whose processed and lost events are then as many as the events   *)
(* that were read is merged, moved to the output directory and closed.     *)
(***************************************************************************)
EXTENDS LumiState

\* A handler made for a file other than an index file is that of an empty lumisection.
NewHandler(kind) == [NoHandler EXCEPT !.st = "open", !.empty = (kind # "index")]

\* processIndexFile
WithIndex(h, p, n) ==
  [h EXCEPT !.total = @ + n, !.pid[p].seen = TRUE, !.pid[p].n = @ + n]

\* processStreamFile, the file of a process whose index files were seen.
WithJson(h, p, s, n) ==
  IF h.out[s].open
  THEN [h EXCEPT !.pid[p].merged = @ \union {s},
                 !.out[s].proc = @ + n, !.out[s].pb = @ \/ s \in DqmStreams]
  ELSE [h EXCEPT !.pid[p].merged = @ \union {s}]

\* The same for an empty file: the events of the process are lost for the stream.
WithBad(h, p, s) == [h EXCEPT !.out[s].err = @ + h.pid[p].n]

\* Mutant of Unmerged: a stream that was delivered is lost as well.
BugUnmerged(h, p) == {s \in Streams : h.out[s].open}
\* streamDiff: the streams for which the process has not delivered.
Unmerged(h, p) == Streams \ h.pid[p].merged

\* Mutant of NoneMerged: one missing stream is enough.
BugNoneMerged(gone) == gone # {}
\* The events go to the error stream if no stream was merged.
NoneMerged(gone) == gone = Streams

\* processCRASHFile; raw is how many of the events are in files that still exist.
WithCrash(h, p, raw) ==
  LET gone == Unmerged(h, p)
  IN [h EXCEPT
        !.out = [s \in Streams |-> IF s \in gone /\ h.out[s].open
                                   THEN [h.out[s] EXCEPT !.err = @ + h.pid[p].n] ELSE h.out[s]],
        !.raw = IF NoneMerged(gone) THEN @ + raw ELSE @]

\* processStreamDQMHistoOutput: the merged file has come back.
WithMerged(h, s) ==
  IF h.out[s].open /\ h.out[s].stage = 1 THEN [h EXCEPT !.out[s].stage = 2] ELSE h

-----------------------------------------------------------------------------
(* checkClosure *)

\* Mutant of Full: the end of the lumisection is not waited for.
BugFull(h) ==
  IF h.st = "open" /\ ~h.empty
  THEN {s \in Streams : h.out[s].open /\ h.out[s].proc + h.out[s].err = h.total} ELSE {}
\* The open streams in which all events are accounted for.
Full(h) ==
  IF h.st = "open" /\ h.eols /\ ~h.empty
  THEN {s \in Streams : h.out[s].open /\ h.out[s].proc + h.out[s].err = h.total} ELSE {}

\* Histograms go to the merging thread first and are written when they come back.
ToMerge(h) == {s \in Full(h) : h.out[s].pb /\ h.out[s].stage = 0}
ToWrite(h) == {s \in Full(h) : h.out[s].pb => h.out[s].stage = 2}

\* Mutant of Entry: the processed events are dropped.
BugEntry(o, isLost) == [proc |-> IF isLost THEN 0 ELSE o.proc, err |-> o.err]
\* The stream JSON with which a stream is closed; writeoutError makes all its events lost.
Entry(o, isLost) ==
  IF isLost THEN [proc |-> 0, err |-> o.proc + o.err] ELSE [proc |-> o.proc, err |-> o.err]

\* What is left of a handler: nothing once all its streams are written.
Complete(h) ==
  /\ h.st = "open" /\ h.eols /\ ~h.empty
  /\ \A s \in Streams : h.out[s].open => s \in ToWrite(h)
Settled(h) ==
  IF Complete(h) THEN Closed
  ELSE [h EXCEPT !.out = [s \in Streams |->
         [h.out[s] EXCEPT !.open = @ /\ s \notin ToWrite(h),
                          !.stage = IF s \in ToMerge(h) THEN 1 ELSE @]]]

MergeOrders(S) == {f \in [1 .. Cardinality(S) -> S] : \A i, j \in DOMAIN f : f[i] = f[j] => i = j}
\* startDQMHandlerMaybe and dqmQueue.put: M are the new merges, of which no are
\* those for which the thread could not be started.
GiveToMerger(M, no) ==
  /\ dqm.up => no = {}
  /\ \E f \in MergeOrders(M \ no) :
       dqm' = [dqm EXCEPT !.q = @ \o f, !.up = @ \/ M # no, !.refused = @ \union no]

\* The handlers in S have got the states hs.  The streams in fail are lost: the checksum of
\* the data differs, merging the data fails, or the JSON itself cannot be moved; then its
\* account is in the copy for the monitoring only.  That a data file could not be moved is
\* not noticed without a checksum: its events stay processed in the account.
CheckClosure(S, hs) ==
  LET toWrite == UNION {{l} \X ToWrite(hs[l]) : l \in S}
      toMerge == UNION {{[ls |-> l, stream |-> s] : s \in ToMerge(hs[l])} : l \in S}
  IN \E fail \in SUBSET toWrite, no \in SUBSET toMerge :
     /\ fail = {} \/ no = {}
     /\ IF fail # {} THEN Spend("lost") ELSE SpendIf(no # {}, "refused")
     /\ lumi' = [l \in Lumis |-> IF l \in S THEN Settled(hs[l]) ELSE lumi[l]]
     /\ ledger' = [l \in Lumis |-> [s \in Streams |->
          IF <<l, s>> \in toWrite THEN Entry(hs[l].out[s], <<l, s>> \in fail) ELSE ledger[l][s]]]
     /\ errors' = [l \in Lumis |-> IF l \in S /\ Complete(hs[l]) THEN hs[l].raw ELSE errors[l]]
     /\ GiveToMerger(toMerge, no)

-----------------------------------------------------------------------------
(* A lumisection without events *)

\* processStreamFile for an empty lumisection: the first file of each stream is
\* forwarded, to the output directory only if the EoLS file has been seen.
Forward(l, h, s) ==
  /\ lumi' = [lumi EXCEPT ![l] = IF h.fwd \union {s} = Streams THEN Closed
                                 ELSE [h EXCEPT !.fwd = @ \union {s}]]
  /\ ledger' = IF h.eols /\ s \notin h.fwd
               THEN [ledger EXCEPT ![l][s] = [proc |-> 0, err |-> 0]] ELSE ledger
  /\ UNCHANGED <<errors, dqm>>
=============================================================================
