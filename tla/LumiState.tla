------------------------------ MODULE LumiState ------------------------------
(***************************************************************************)
(* The state of the anelastic script (anelastic.py), which follows one run *)
(* on a filter unit, and of the processes whose files it takes.            *)
(*                                                                         *)
(* Each cmsRun process reports every raw file it reads by an index file,   *)
(* the end of a lumisection by an EoLS file and its own results by one     *)
(* JSON file per output stream; hltd reports a process that failed by a    *)
(* crash file and the end of the run by a complete file.  inotify turns    *)
(* the files into events in the order in which they are written.           *)
(***************************************************************************)
EXTENDS Integers, Sequences, FiniteSets

CONSTANTS NLumis,     \* lumisections of the run
          Pids,       \* processes, a restarted one has a pid of its own
          Streams,    \* activeStreams, known from the INI files
          DqmStreams, \* streams whose data files are histograms (.pb)
          UseTimeout, \* LumiSectionRanger.useTimeout, in iterations of the main loop
          Max,        \* bounds: each kind of Faults, files, queue
          NoPid, NoStream, Unwritten

Lumis == 1 .. NLumis
Faults == {"crash", "torn", "twice", "lost", "refused", "abort"}

ASSUME LumiAssumption ==
  /\ NLumis \in Nat \ {0}
  /\ UseTimeout \in Nat \ {0}
  /\ IsFiniteSet(Pids) /\ IsFiniteSet(Streams)
  /\ DqmStreams \subseteq Streams
  /\ Max \in [Faults \union {"files", "queue"} -> Nat]
  /\ NoPid \notin Pids /\ NoStream \notin Streams
  /\ Unwritten \notin [proc : Nat, err : Nat]

VARIABLES
  queue,   \* eventQueue
  queued,  \* MonitorRanger.queuedLumiList
  seen,    \* LumiSectionRanger.EOLS_list
  main,    \* the main loop of the LumiSectionRanger
  lumi,    \* the LumiSectionHandler of each lumisection
  ledger,  \* the stream JSON files with which the streams were closed: moved to the
           \* output directory, and copied to the monitoring in any case (esCopy)
  errors,  \* error events in the error stream file moved there
  dqm,     \* the DQMMerger thread and its queue
  proc,    \* the cmsRun processes
  grab,    \* grab[l][p]: events of lumisection l that process p has read
  valid,   \* valid[l][p]: streams whose JSON p has written properly
  torn,    \* torn[l][p]: streams whose JSON p has left empty
  eols,    \* EoLS files in the run directory
  buEols,  \* EoLS files in the input directory of the BU
  spent    \* how much of each bound has been used

lumiVars == <<queue, queued, seen, main, lumi, ledger, errors, dqm,
              proc, grab, valid, torn, eols, buEols, spent>>

-----------------------------------------------------------------------------
(* Types *)

Kinds == {"index", "json", "bad", "eols", "crash", "merged",
          "processing", "complete", "abort"}
FileEvent == [kind : Kinds, ls : Lumis \union {0}, pid : Pids \union {NoPid},
              stream : Streams \union {NoStream}, n : Nat]
PidEntry == [seen : BOOLEAN, n : Nat, merged : SUBSET Streams]
OutFile == [open : BOOLEAN, proc : Nat, err : Nat, pb : BOOLEAN, stage : 0 .. 2]
Handler == [st : {"none", "open", "closed"}, empty : BOOLEAN, eols : BOOLEAN,
            total : Nat, pid : [Pids -> PidEntry], out : [Streams -> OutFile],
            raw : Nat, fwd : SUBSET Streams]
Merge == [ls : Lumis, stream : Streams]
MainState == [pc : {"loop", "finish", "exited"}, started : BOOLEAN, index : BOOLEAN,
              buffer : Seq(FileEvent), allowEmpty : BOOLEAN,
              stop : {"no", "complete", "abort"}, left : -1 .. 2 * UseTimeout, skip : BOOLEAN]
DqmState == [up : BOOLEAN, q : Seq(Merge), cur : SUBSET Merge,
             counts : [proc : Nat, err : Nat],  \* what the merge in cur will set
             refused : SUBSET Merge]  \* never given to the thread (history)
ProcState == [st : {"new", "work", "output", "ended", "died", "crashed"},
              ls : 1 .. NLumis + 1, out : SUBSET Streams]

NoHandler ==
  [st |-> "none", empty |-> FALSE, eols |-> FALSE, total |-> 0,
   pid |-> [p \in Pids |-> [seen |-> FALSE, n |-> 0, merged |-> {}]],
   out |-> [s \in Streams |-> [open |-> TRUE, proc |-> 0, err |-> 0, pb |-> FALSE, stage |-> 0]],
   raw |-> 0, fwd |-> {}]
Closed == [NoHandler EXCEPT !.st = "closed"]
NoCounts == [proc |-> 0, err |-> 0]

LumiTypeOK ==
  /\ queue \in Seq(FileEvent)
  /\ queued \in SUBSET Lumis
  /\ seen \in SUBSET Lumis
  /\ main \in MainState
  /\ lumi \in [Lumis -> Handler]
  /\ ledger \in [Lumis -> [Streams -> [proc : Nat, err : Nat] \union {Unwritten}]]
  /\ errors \in [Lumis -> Nat]
  /\ dqm \in DqmState
  /\ proc \in [Pids -> ProcState]
  /\ grab \in [Lumis -> [Pids -> Nat]]
  /\ valid \in [Lumis -> [Pids -> SUBSET Streams]]
  /\ torn \in [Lumis -> [Pids -> SUBSET Streams]]
  /\ eols \in SUBSET Lumis
  /\ buEols \in SUBSET Lumis
  /\ spent \in [Faults -> Nat]

-----------------------------------------------------------------------------
(* Faults *)

\* Bound: besides crashes, one kind of fault in a run.
Spend(f) ==
  /\ spent[f] < Max[f]
  /\ f # "crash" => \A g \in Faults \ {"crash", f} : spent[g] = 0
  /\ spent' = [spent EXCEPT ![f] = @ + 1]
SpendIf(cond, f) == IF cond THEN Spend(f) ELSE UNCHANGED spent

-----------------------------------------------------------------------------
(* Files and their events *)

Ev(kind, l, p, s, n) == [kind |-> kind, ls |-> l, pid |-> p, stream |-> s, n |-> n]
EoLS(l) == Ev("eols", l, NoPid, NoStream, 0)

\* Every order of a set of lumisections.
LumiOrders(S) == {f \in [1 .. Cardinality(S) -> S] : \A i, j \in DOMAIN f : f[i] = f[j] => i = j}

\* EoLS files of S are written; checkNewLumi drops the event of one that is in
\* queuedLumiList (q and ql are the queues of events and lumisections before).
WriteEoLS(S, q, ql) ==
  LET new == S \ ql
  IN /\ \E f \in LumiOrders(new) : queue' = q \o [i \in 1 .. Cardinality(new) |-> EoLS(f[i])]
     /\ queued' = ql \union S
     /\ eols' = eols \union S
=============================================================================
