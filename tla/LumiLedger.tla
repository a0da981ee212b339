------------------------------ MODULE LumiLedger ------------------------------
(***************************************************************************)
(* What the anelastic script promises about the events of a lumisection:   *)
(* for each output stream one entry is written, once, when no event of     *)
(* the lumisection can be read any more, and it accounts for every event   *)
(* that was read, as processed or as lost.                                 *)
(***************************************************************************)
EXTENDS Naturals

CONSTANTS Lumis, Streams, Unwritten
VARIABLES read,   \* read[l]: the events of lumisection l that processes have read
          ledger  \* ledger[l][s]: the entry written for stream s
ledgerVars == <<read, ledger>>

LedgerInit ==
  /\ read = [l \in Lumis |-> 0]
  /\ ledger = [l \in Lumis |-> [s \in Streams |-> Unwritten]]

Read(l) ==
  /\ \A s \in Streams : ledger[l][s] = Unwritten
  /\ read' = [read EXCEPT ![l] = @ + 1]
  /\ UNCHANGED ledger

\* Entries that were not there account for all events; several streams and
\* lumisections may be complete at the same time.
Settle ==
  /\ ledger' \in [Lumis -> [Streams -> [proc : Nat, err : Nat] \union {Unwritten}]]
  /\ \A l \in Lumis, s \in Streams : ledger'[l][s] # ledger[l][s] =>
       /\ ledger[l][s] = Unwritten
       /\ ledger'[l][s].proc + ledger'[l][s].err = read[l]
  /\ UNCHANGED read

LedgerNext == Settle \/ \E l \in Lumis : Read(l)
LedgerSpec == LedgerInit /\ [][LedgerNext]_ledgerVars
=============================================================================
