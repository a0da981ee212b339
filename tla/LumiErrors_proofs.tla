------------------------- MODULE LumiErrors_proofs --------------------------
(***************************************************************************)
(* The files of the processes that the anelastic script follows: which of  *)
(* them are waiting, what the handlers have of those that were taken, and  *)
(* the theorem that the events of the error stream are lost in every       *)
(* output stream.                                                          *)
(***************************************************************************)
EXTENDS LumiSections_proofs

-----------------------------------------------------------------------------
(* Files that wait *)

Waits(P, Z) == \E i \in DOMAIN P : P[i] \in Z
JsonFiles(l, p, s) == {e \in FileEvent : e.kind = "json" /\ e.ls = l /\ e.pid = p /\ e.stream = s}
BadFiles(l, p, s) == {e \in FileEvent : e.kind = "bad" /\ e.ls = l /\ e.pid = p /\ e.stream = s}
CrashFiles(p) == {e \in FileEvent : e.kind = "crash" /\ e.pid = p}

Crashed(p) == proc[p].st = "crashed"
Files(l, p) == valid[l][p] \union torn[l][p]

\* The stream files that process p has written.
MadeBy(p, l) ==
  /\ valid[l][p] \cap torn[l][p] = {}
  /\ Files(l, p) # {} => l \in buEols
  /\ proc[p].st = "new" => Files(l, p) = {}
  /\ proc[p].st \in {"work", "output"} /\ l > proc[p].ls => Files(l, p) = {}
  /\ proc[p].st = "work" /\ l = proc[p].ls => Files(l, p) = {}
  /\ proc[p].st = "output" /\ l = proc[p].ls => Files(l, p) \subseteq proc[p].out
Made == \A p \in Pids, l \in Lumis : MadeBy(p, l)

\* What is known of a file that waits.
IsTrue(e) ==
  /\ e.kind = "json" => /\ e.stream \in valid[e.ls][e.pid] /\ e.n = grab[e.ls][e.pid]
                        /\ e.stream \notin lumi[e.ls].pid[e.pid].merged
  /\ e.kind = "bad" => e.stream \in torn[e.ls][e.pid]
  /\ e.kind = "crash" => Crashed(e.pid)
  /\ e.kind \in {"index", "json", "bad"} /\ Crashed(e.pid) => Waits(Pend, CrashFiles(e.pid))

\* Of two files, the first comes first: the crash file of a process is its last
\* file, and each stream of a lumisection is written once.
Apart(e, f) ==
  /\ e.kind = "crash" /\ f.kind \in {"index", "json", "bad", "crash"} => f.pid # e.pid
  /\ e.kind \in {"json", "bad"} /\ f.kind = e.kind => <<e.ls, e.pid, e.stream>> # <<f.ls, f.pid, f.stream>>

Pending ==
  /\ \A i \in DOMAIN Pend : IsTrue(Pend[i])
  /\ \A i, j \in DOMAIN Pend : i < j => Apart(Pend[i], Pend[j])

\* Only a process whose index files were seen has events and delivers.
Known(h) == \A p \in Pids : h.pid[p].seen \/ (h.pid[p].n = 0 /\ h.pid[p].merged = {})

\* What has become of the stream files of process p for lumisection l.
TakenOf(l, p) ==
  /\ lumi[l].pid[p].merged \subseteq valid[l][p]
  /\ lumi[l].pid[p].merged # {} => Over(Pend, buEols, l)
  /\ \A s \in Streams :
     /\ s \in torn[l][p] /\ ~Waits(Pend, BadFiles(l, p, s)) => Over(Pend, buEols, l)
     /\ s \in valid[l][p] /\ grab[l][p] > 0 /\ lumi[l].st # "closed" =>
          Waits(Pend, JsonFiles(l, p, s)) \/ s \in lumi[l].pid[p].merged

FilesInv == /\ Made /\ Pending
            /\ \A l \in Lumis : Known(lumi[l])
            /\ \A l \in Lumis, p \in Pids : TakenOf(l, p)

-----------------------------------------------------------------------------
(* What a step does to the files *)

LEMMA WaitsShift ==
  ASSUME NEW P, NEW Q, NEW k, NEW X, Shifted(P, Q, k, X), NEW Z
  PROVE  /\ Waits(Q, Z) => Waits(P, Z) \/ Waits(X, Z)
         /\ Waits(X, Z) => Waits(Q, Z)
         /\ Waits(P, Z) => Waits(Q, Z) \/ (k = 1 /\ 1 \in DOMAIN P /\ P[1] \in Z)
<1>1. Waits(Q, Z) => Waits(P, Z) \/ Waits(X, Z)
  BY ShiftedFrom DEF Waits
<1>2. Waits(X, Z) => Waits(Q, Z)
  BY ShiftedTo DEF Waits
<1>3. ASSUME Waits(P, Z), ~Waits(Q, Z) PROVE k = 1 /\ 1 \in DOMAIN P /\ P[1] \in Z
  <2>1. PICK i \in DOMAIN P : P[i] \in Z
    BY <1>3 DEF Waits
  <2>2. ~(i > k)
    BY <1>3, <2>1, ShiftedTo DEF Waits
  <2>3. i \in Nat /\ i >= 1 /\ k \in {0, 1}
    BY LenProperties DEF Shifted
  <2>4. k = 1 /\ i = 1
    BY <2>2, <2>3
  <2> QED  BY <2>1, <2>4
<1> QED  BY <1>1, <1>2, <1>3

\* Nothing that was written is unwritten, and no event of a lumisection that the
\* BU has ended is read.
FilesGrow ==
  /\ \A l \in Lumis, p \in Pids :
       /\ valid[l][p] \subseteq valid'[l][p] /\ torn[l][p] \subseteq torn'[l][p]
       /\ grab'[l][p] = grab[l][p] \/ (l \notin buEols /\ Files(l, p)' = {})
  /\ \A p \in Pids : Crashed(p) => Crashed(p)'
  /\ buEols \subseteq buEols'

\* The events X that appear.
FilesAppear(k, X) ==
  /\ \A i \in DOMAIN X : IsTrue(X[i])' /\ (X[i].kind = "index" => X[i].ls \notin buEols)
  /\ \A i, j \in DOMAIN X : i < j => Apart(X[i], X[j])
  /\ \A i \in DOMAIN Pend, j \in DOMAIN X : i > k => Apart(Pend[i], X[j])
  /\ \A p \in Pids : Crashed(p)' => Crashed(p) \/ Waits(X, CrashFiles(p))
  /\ \A l \in Lumis, p \in Pids, s \in Streams :
       /\ s \in torn'[l][p] => s \in torn[l][p] \/ Waits(X, BadFiles(l, p, s))
       /\ s \in valid'[l][p] => s \in valid[l][p] \/ Waits(X, JsonFiles(l, p, s))

\* The file that is taken, if it is a stream file with events, is delivered.
IsHead(k, Z) == k = 1 /\ 1 \in DOMAIN Pend /\ Pend[1] \in Z
Delivers(k) ==
  /\ k = 1 => \A l \in Lumis : Pend[1].kind \in {"json", "bad"} /\ Pend[1].ls = l => Over(Pend, buEols, l)
  /\ \A l \in Lumis, p \in Pids :
       /\ \A s \in lumi'[l].pid[p].merged :
            s \in lumi[l].pid[p].merged \/ (s \in Streams /\ IsHead(k, JsonFiles(l, p, s)))
       /\ lumi'[l].st # "closed" =>
            /\ lumi[l].st # "closed" /\ lumi[l].pid[p].merged \subseteq lumi'[l].pid[p].merged
            /\ \A s \in Streams : IsHead(k, JsonFiles(l, p, s)) =>
                 s \in lumi'[l].pid[p].merged \/ grab[l][p] = 0

LEMMA PendingShift ==
  ASSUME Course, Pending, NEW k, NEW X, Shifted(Pend, Pend', k, X), FilesGrow, FilesAppear(k, X),
         Delivers(k)
  PROVE  Pending'
<1> DEFINE P == Pend
           Q == Pend'
           m == Len(P) - k
<1>1. /\ DOMAIN P = 1 .. Len(P) /\ DOMAIN Q = 1 .. Len(Q) /\ DOMAIN X = 1 .. Len(X)
      /\ Len(P) \in Nat /\ Len(Q) \in Nat /\ Len(X) \in Nat /\ k \in {0, 1}
      /\ k <= Len(P)
  BY LenProperties DEF Shifted
<1>2. \A j \in DOMAIN Q :
        \/ j + k \in DOMAIN P /\ Q[j] = P[j + k] /\ j <= m
        \/ j > m /\ j - m \in DOMAIN X /\ Q[j] = X[j - m]
  BY ShiftedFrom
<1>3. \A i \in DOMAIN P : WellFormed(P[i]) /\ AfterEnd(P[i], buEols)
  BY DEF Course, Events
<1>4. /\ \A i \in DOMAIN P : IsTrue(P[i])
      /\ \A i, j \in DOMAIN P : i < j => Apart(P[i], P[j])
  BY DEF Pending
<1>5. ASSUME NEW i \in DOMAIN P, i > k, NEW e, e = P[i] PROVE IsTrue(e)'
  <2>1. WellFormed(e) /\ AfterEnd(e, buEols) /\ IsTrue(e)
    BY <1>3, <1>4, <1>5
  <2>2. k = 1 => 1 \in DOMAIN P /\ Apart(P[1], e)
    BY <1>1, <1>4, <1>5
  <2>3. ASSUME e.kind = "json"
        PROVE  /\ e.stream \in valid'[e.ls][e.pid] /\ e.n = grab'[e.ls][e.pid]
               /\ e.stream \notin lumi'[e.ls].pid[e.pid].merged
    <3>1. e.ls \in Lumis /\ e.pid \in Pids /\ e.stream \in Streams /\ e.ls \in buEols
      BY <2>1, <2>3 DEF WellFormed, AfterEnd
    <3>2. /\ e.stream \in valid[e.ls][e.pid] /\ e.n = grab[e.ls][e.pid]
          /\ e.stream \notin lumi[e.ls].pid[e.pid].merged
      BY <2>1, <2>3 DEF IsTrue
    <3>3. ~IsHead(k, JsonFiles(e.ls, e.pid, e.stream))
      <4> SUFFICES ASSUME IsHead(k, JsonFiles(e.ls, e.pid, e.stream)) PROVE FALSE
        OBVIOUS
      <4>1. /\ k = 1 /\ P[1].kind = "json" /\ P[1].ls = e.ls /\ P[1].pid = e.pid
            /\ P[1].stream = e.stream
        BY DEF IsHead, JsonFiles
      <4> HIDE DEF P
      <4> QED  BY <2>2, <2>3, <4>1 DEF Apart
    <3> QED  BY <3>1, <3>2, <3>3 DEF FilesGrow, Delivers
  <2>4. ASSUME e.kind = "bad" PROVE e.stream \in torn'[e.ls][e.pid]
    BY <2>1, <2>4 DEF WellFormed, IsTrue, FilesGrow
  <2>5. ASSUME e.kind = "crash" PROVE Crashed(e.pid)'
    BY <2>1, <2>5 DEF WellFormed, IsTrue, FilesGrow
  <2>6. ASSUME e.kind \in {"index", "json", "bad"}, Crashed(e.pid)'
        PROVE  Waits(Q, CrashFiles(e.pid))
    <3>1. e.pid \in Pids
      BY <2>1, <2>6 DEF WellFormed
    <3>2. CASE Crashed(e.pid)
      <4>1. Waits(P, CrashFiles(e.pid))
        BY <2>1, <2>6, <3>2 DEF IsTrue
      <4>2. ASSUME k = 1, P[1] \in CrashFiles(e.pid) PROVE FALSE
        <5>1. P[1].kind = "crash" /\ P[1].pid = e.pid
          BY <4>2 DEF CrashFiles
        <5> HIDE DEF P
        <5> QED  BY <2>2, <2>6, <4>2, <5>1 DEF Apart
      <4> HIDE DEF P, Q
      <4>3. Shifted(P, Q, k, X)
        BY DEF P, Q
      <4> QED  BY <4>1, <4>2, <4>3, WaitsShift
    <3>3. CASE ~Crashed(e.pid)
      <4>1. Waits(X, CrashFiles(e.pid))
        BY <2>6, <3>1, <3>3 DEF FilesAppear
      <4> HIDE DEF P, Q
      <4>3. Shifted(P, Q, k, X)
        BY DEF P, Q
      <4> QED  BY <4>1, <4>3, WaitsShift
    <3> QED  BY <3>2, <3>3
  <2> QED  BY <2>3, <2>4, <2>5, <2>6 DEF IsTrue
<1>6. /\ \A i \in DOMAIN X : IsTrue(X[i])'
      /\ \A i, j \in DOMAIN X : i < j => Apart(X[i], X[j])
      /\ \A i \in DOMAIN P, j \in DOMAIN X : i > k => Apart(P[i], X[j])
  BY DEF FilesAppear
<1>7. ASSUME NEW j \in DOMAIN Q, NEW e, e = Q[j] PROVE IsTrue(e)'
  <2>1. CASE j + k \in DOMAIN P /\ Q[j] = P[j + k]
    <3>1. j + k > k
      BY <1>1
    <3> QED  BY <1>5, <1>7, <2>1, <3>1
  <2>2. CASE j - m \in DOMAIN X /\ Q[j] = X[j - m]
    BY <1>6, <1>7, <2>2
  <2> QED  BY <1>2, <2>1, <2>2
<1>8. \A i, j \in DOMAIN Q : i < j => Apart(Q[i], Q[j])
  <2> SUFFICES ASSUME NEW i \in DOMAIN Q, NEW j \in DOMAIN Q, i < j PROVE Apart(Q[i], Q[j])
    OBVIOUS
  <2>1. CASE j + k \in DOMAIN P /\ Q[j] = P[j + k] /\ j <= m
    <3>1. i + k \in DOMAIN P /\ Q[i] = P[i + k] /\ i + k < j + k
      BY <1>1, <1>2, <2>1
    <3> QED  BY <1>4, <2>1, <3>1
  <2>2. CASE j - m \in DOMAIN X /\ Q[j] = X[j - m]
    <3>1. CASE i + k \in DOMAIN P /\ Q[i] = P[i + k]
      <4>1. i + k > k
        BY <1>1
      <4> QED  BY <1>6, <2>2, <3>1, <4>1
    <3>2. CASE i - m \in DOMAIN X /\ Q[i] = X[i - m]
      <4>1. i - m < j - m
        BY <1>1
      <4> QED  BY <1>6, <2>2, <3>2, <4>1
    <3> QED  BY <1>2, <3>1, <3>2
  <2> QED  BY <1>2, <2>1, <2>2
<1> QED  BY <1>7, <1>8 DEF Pending

LEMMA TakenShift ==
  ASSUME Course, Made, NEW k, NEW X, Shifted(Pend, Pend', k, X), FilesGrow, FilesAppear(k, X),
         Delivers(k), Pending, NEW l \in Lumis, NEW p \in Pids, TakenOf(l, p)
  PROVE  TakenOf(l, p)'
<1> DEFINE P == Pend
           Q == Pend'
<1>1. Shifted(P, Q, k, X) /\ k \in {0, 1}
  BY DEF Shifted
<1>2. Over(P, buEols, l) => Over(Q, buEols', l)
  <2>1. ASSUME Over(P, buEols, l)
        PROVE  \A i \in DOMAIN X : X[i].kind = "index" => X[i].ls # l
    BY <2>1 DEF Over, FilesAppear
  <2>2. buEols \subseteq buEols'
    BY DEF FilesGrow
  <2> HIDE DEF P, Q
  <2> QED  BY <1>1, <2>1, <2>2, OverShift
<1>3. ASSUME NEW s \in Streams, IsHead(k, JsonFiles(l, p, s)) \/ IsHead(k, BadFiles(l, p, s))
      PROVE  Over(P, buEols, l)
  BY <1>3 DEF IsHead, JsonFiles, BadFiles, Delivers
<1>4. ASSUME NEW s \in Streams, IsHead(k, JsonFiles(l, p, s)) PROVE s \in valid[l][p]
  <2>1. Pend[1] \in JsonFiles(l, p, s) /\ 1 \in DOMAIN Pend
    BY <1>4 DEF IsHead
  <2> QED  BY <2>1 DEF Pending, IsTrue, JsonFiles
<1>5. /\ valid[l][p] \subseteq valid'[l][p] /\ torn[l][p] \subseteq torn'[l][p]
      /\ grab'[l][p] = grab[l][p] \/ (l \notin buEols /\ Files(l, p)' = {})
  BY DEF FilesGrow
<1>6. lumi'[l].pid[p].merged \subseteq valid'[l][p]
  BY <1>4, <1>5 DEF TakenOf, Delivers
<1>7. lumi'[l].pid[p].merged # {} => Over(Q, buEols', l)
  BY <1>2, <1>3 DEF TakenOf, Delivers
<1>8. ASSUME NEW s \in Streams, s \in torn'[l][p], ~Waits(Q, BadFiles(l, p, s))
      PROVE  Over(Q, buEols', l)
  <2> DEFINE Z == BadFiles(l, p, s)
  <2>1. ~Waits(Q, Z)
    BY <1>8
  <2>2. s \in torn[l][p] \/ Waits(X, Z)
    BY <1>8 DEF FilesAppear
  <2>3. ASSUME k = 1, 1 \in DOMAIN P, P[1] \in Z PROVE Over(P, buEols, l)
    BY <1>3, <2>3 DEF IsHead
  <2>4. s \in torn[l][p] /\ ~Waits(P, Z) => Over(P, buEols, l)
    BY DEF TakenOf
  <2> HIDE DEF Z, P, Q
  <2>5. /\ Waits(X, Z) => Waits(Q, Z)
        /\ Waits(P, Z) => Waits(Q, Z) \/ (k = 1 /\ 1 \in DOMAIN P /\ P[1] \in Z)
    BY <1>1, WaitsShift
  <2> QED  BY <1>2, <2>1, <2>2, <2>3, <2>4, <2>5
<1>9. ASSUME NEW s \in Streams, s \in valid'[l][p], grab'[l][p] > 0, lumi'[l].st # "closed"
      PROVE  Waits(Q, JsonFiles(l, p, s)) \/ s \in lumi'[l].pid[p].merged
  <2> DEFINE Z == JsonFiles(l, p, s)
  <2>1. grab'[l][p] = grab[l][p]
    BY <1>5, <1>9 DEF Files
  <2>2. s \in valid[l][p] \/ Waits(X, Z)
    BY <1>9 DEF FilesAppear
  <2>3. /\ lumi[l].st # "closed" /\ lumi[l].pid[p].merged \subseteq lumi'[l].pid[p].merged
        /\ IsHead(k, Z) => s \in lumi'[l].pid[p].merged \/ grab[l][p] = 0
    BY <1>9 DEF Delivers
  <2>4. s \in valid[l][p] => Waits(P, Z) \/ s \in lumi[l].pid[p].merged
    BY <1>9, <2>1, <2>3 DEF TakenOf
  <2>5. grab[l][p] # 0
    BY <1>9, <2>1
  <2>6. k = 1 /\ 1 \in DOMAIN P /\ P[1] \in Z => s \in lumi'[l].pid[p].merged
    BY <2>3, <2>5 DEF IsHead
  <2> HIDE DEF Z, P, Q
  <2>7. /\ Waits(X, Z) => Waits(Q, Z)
        /\ Waits(P, Z) => Waits(Q, Z) \/ (k = 1 /\ 1 \in DOMAIN P /\ P[1] \in Z)
    BY <1>1, WaitsShift
  <2>8. Waits(Q, Z) \/ s \in lumi'[l].pid[p].merged
    BY <2>2, <2>3, <2>4, <2>6, <2>7
  <2> QED  BY <2>8 DEF Z
<1> QED  BY <1>6, <1>7, <1>8, <1>9 DEF TakenOf

-----------------------------------------------------------------------------
(* What the main loop does to a handler and what it writes *)

Untouched(l) == lumi'[l] = lumi[l] /\ ledger'[l] = ledger[l] /\ errors'[l] = errors[l]

\* The handler gets the state h, then its full streams are written.
Settles(l, h) ==
  /\ lumi'[l] = Settled(h)
  /\ WrittenFor(h, ledger[l], ledger'[l])
  /\ errors'[l] = IF Complete(h) THEN h.raw ELSE errors[l]
  /\ Given(l, h)

\* A lumisection without events is followed.
Blank(h) == h.st = "open" /\ h.empty
Empties(l) ==
  /\ lumi[l].st = "none" \/ Blank(lumi[l])
  /\ lumi'[l].st = "closed" \/ Blank(lumi'[l])
  /\ lumi'[l].pid = NoHandler.pid \/ lumi'[l].pid = lumi[l].pid
  /\ \A s \in Streams : ledger'[l][s] = ledger[l][s] \/ ledger'[l][s] = [proc |-> 0, err |-> 0]
  /\ errors'[l] = errors[l]

LEMMA ClosureSettles ==
  ASSUME Course, NEW S \in SUBSET Lumis, NEW hs \in [Lumis -> Handler], CheckClosure(S, hs)
  PROVE  \A l \in Lumis : IF l \in S THEN Settles(l, hs[l]) ELSE Untouched(l)
<1>1. LumiTypeOK
  BY DEF Course
<1> QED  BY <1>1, ClosureFacts, ZenonT(60) DEF Settles, Untouched

LEMMA ConcludeSettles ==
  ASSUME Course, NEW l \in Lumis, NEW h \in Handler, Conclude(l, h)
  PROVE  Settles(l, h) /\ \A k \in Lumis \ {l} : Untouched(k)
<1> DEFINE hs == [lumi EXCEPT ![l] = h]
           S == {l}
<1>1. hs \in [Lumis -> Handler] /\ hs[l] = h /\ S \in SUBSET Lumis /\ l \in S
  BY ConcludeTyped
<1>2. CheckClosure(S, hs)
  BY DEF Conclude
<1>3. \A k \in Lumis \ {l} : k \notin S
  OBVIOUS
<1> HIDE DEF hs, S
<1>4. \A k \in Lumis : IF k \in S THEN Settles(k, hs[k]) ELSE Untouched(k)
  BY <1>1, <1>2, ClosureSettles
<1> QED  BY <1>1, <1>3, <1>4

LEMMA ReplaceEmpties ==
  ASSUME Course, NEW l \in Lumis, NEW g, lumi' = [lumi EXCEPT ![l] = g], UNCHANGED <<ledger, errors>>,
         lumi[l].st = "none" \/ Blank(lumi[l]), Blank(g), g.pid = NoHandler.pid \/ g.pid = lumi[l].pid
  PROVE  Empties(l) /\ \A k \in Lumis \ {l} : Untouched(k)
<1>1. \A k \in Lumis : lumi'[k] = IF k = l THEN g ELSE lumi[k]
  BY DEF Course, LumiTypeOK
<1> QED  BY <1>1 DEF Empties, Untouched

LEMMA ForwardEmpties ==
  ASSUME Course, NEW l \in Lumis, NEW h \in Handler, NEW s \in Streams, Forward(l, h, s),
         lumi[l].st = "none" \/ Blank(lumi[l]), Blank(h), h.pid = NoHandler.pid \/ h.pid = lumi[l].pid
  PROVE  Empties(l) /\ \A k \in Lumis \ {l} : Untouched(k)
<1> DEFINE w == [h EXCEPT !.fwd = @ \union {s}]
           g == IF h.fwd \union {s} = Streams THEN Closed ELSE w
           z == [proc |-> 0, err |-> 0]
<1>1. w.st = h.st /\ w.empty = h.empty /\ w.pid = h.pid
  BY DEF Handler
<1>2. Closed.st = "closed" /\ Closed.pid = NoHandler.pid
  BY NoHandlerTyped
<1>3. lumi' = [lumi EXCEPT ![l] = g] /\ errors' = errors
  BY DEF Forward
<1>4. ledger' = IF h.eols /\ s \notin h.fwd THEN [ledger EXCEPT ![l][s] = z] ELSE ledger
  BY DEF Forward
<1>5. z = [proc |-> 0, err |-> 0]
  OBVIOUS
<1>6. g = Closed \/ g = w
  OBVIOUS
<1> HIDE DEF w, g, z
<1>7. \A k \in Lumis : lumi'[k] = IF k = l THEN g ELSE lumi[k]
  BY <1>3 DEF Course, LumiTypeOK
<1>8. /\ \A k \in Lumis \ {l} : ledger'[k] = ledger[k]
      /\ \A u \in Streams : ledger'[l][u] = ledger[l][u] \/ ledger'[l][u] = z
  BY <1>4 DEF Course, LumiTypeOK
<1>9. g.st = "closed" \/ Blank(g)
  BY <1>1, <1>2, <1>6 DEF Blank
<1>10. g.pid = NoHandler.pid \/ g.pid = lumi[l].pid
  BY <1>1, <1>2, <1>6
<1> QED  BY <1>3, <1>5, <1>7, <1>8, <1>9, <1>10 DEF Empties, Untouched

Others(l) == \A k \in Lumis \ {l} : Untouched(k)

LEMMA IndexEffect ==
  ASSUME Course, Books, TakeIndex, NEW l, l = Event.ls, NEW p, p = Event.pid,
         NEW h, h = IF Open(l) THEN lumi[l] ELSE NewHandler("index")
  PROVE  /\ l \in Lumis /\ p \in Pids /\ h \in Handler /\ h.st = "open" /\ ~h.eols /\ ~h.empty
         /\ Open(l) \/ lumi[l].st = "none"
         /\ Book(l, h, Pend, buEols, grab[l], ledger[l], seen)
         /\ ~Over(Pend, buEols, l)
         /\ Settles(l, WithIndex(h, p, 1)) /\ Others(l)
<1>1. /\ LumiTypeOK /\ Events /\ Buffered /\ Started /\ Event.kind = "index"
  BY DEF Course, TakeIndex
<1>2. /\ WellFormed(Event) /\ Pend[1] = Event /\ 1 \in DOMAIN Pend
  BY <1>1, StartedPend
<1>3. l \in Lumis /\ p \in Pids /\ Event.n = 1
  BY <1>1, <1>2 DEF WellFormed
<1>4. ~Over(Pend, buEols, l)
  BY <1>1, <1>2 DEF Over
<1>5. Book(l, lumi[l], Pend, buEols, grab[l], ledger[l], seen)
  BY <1>3 DEF Books
<1>6. Open(l) \/ lumi[l].st = "none"
  <2>1. lumi[l].st \in {"none", "open", "closed"}
    BY <1>1, <1>3, HandlerFields DEF LumiTypeOK
  <2>2. lumi[l].st # "closed"
    BY <1>4, <1>5 DEF Book
  <2> QED  BY <2>1, <2>2 DEF Open
<1>7. Conclude(l, WithIndex(h, p, 1))
  BY <1>3 DEF TakeIndex
<1>8. /\ h \in Handler /\ h.st = "open" /\ (h.eols => l \in seen)
      /\ Book(l, h, Pend, buEols, grab[l], ledger[l], seen)
  BY <1>3, <1>6, HandlerBook
<1>9. ~h.eols /\ ~h.empty
  BY <1>4, <1>8 DEF Book, Account
<1>10. WithIndex(h, p, 1) \in Handler
  <2> DEFINE g == WithIndex(h, p, 1)
  <2>1. g = WithIndex(h, p, 1) /\ 1 \in Nat
    OBVIOUS
  <2> HIDE DEF g
  <2>2. g \in Handler
    BY <1>3, <1>8, <2>1, IndexFields
  <2> QED  BY <2>1, <2>2
<1>11. Settles(l, WithIndex(h, p, 1)) /\ Others(l)
  BY <1>3, <1>7, <1>10, ConcludeSettles DEF Others
<1> QED  BY <1>3, <1>4, <1>6, <1>8, <1>9, <1>11

\* A handler of a lumisection that has not been opened, or without events, has
\* not seen any process.
LEMMA NotSeen ==
  ASSUME Books, NEW l \in Lumis, lumi[l].st = "none" \/ Blank(lumi[l])
  PROVE  \A p \in Pids : ~lumi[l].pid[p].seen /\ lumi[l].pid[p].n = 0
BY DEF Books, Book, Account, Blank

LEMMA NewIsBlank ==
  ASSUME NEW kind, kind # "index", NEW h, h = NewHandler(kind)
  PROVE  Blank(h) /\ h.pid = NoHandler.pid /\ h \in Handler /\ \A p \in Pids : ~h.pid[p].seen
<1>1. /\ h \in Handler /\ h.st = "open" /\ h.empty = (kind # "index") /\ h.pid = NoHandler.pid
  BY NewFields
<1>2. \A p \in Pids : NoHandler.pid[p] = [seen |-> FALSE, n |-> 0, merged |-> {}]
  BY NoHandlerTyped
<1>3. \A p \in Pids : ~h.pid[p].seen
  BY <1>1, <1>2
<1>4. Blank(h)
  BY <1>1 DEF Blank
<1> QED  BY <1>1, <1>3, <1>4

LEMMA JsonEffect ==
  ASSUME Course, Books, TakeJson, NEW l, l = Event.ls, NEW p, p = Event.pid,
         NEW s, s = Event.stream, NEW n, n = Event.n
  PROVE  /\ l \in Lumis /\ p \in Pids /\ s \in Streams /\ n \in Nat
         /\ Others(l) /\ Over(Pend, buEols, l)
         /\ \/ /\ Open(l) /\ lumi[l].pid[p].seen /\ WithJson(lumi[l], p, s, n) \in Handler
               /\ Settles(l, WithJson(lumi[l], p, s, n))
            \/ /\ lumi[l].st = "closed" \/ ~lumi[l].pid[p].seen
               /\ Untouched(l) \/ Empties(l)
<1>1. /\ LumiTypeOK /\ Events /\ Buffered /\ Started /\ Event.kind = "json"
  BY DEF Course, TakeJson
<1>2. Over(Pend, buEols, l) /\ l \in Lumis
  BY <1>1, HeadOver
<1>3. p \in Pids /\ s \in Streams /\ n \in Nat
  BY <1>1, StartedPend DEF WellFormed, FileEvent
<1>4. lumi[l] \in Handler /\ lumi \in [Lumis -> Handler]
  BY <1>1, <1>2 DEF LumiTypeOK
<1>5. lumi[l].st \in {"none", "open", "closed"}
  BY <1>4, HandlerFields
<1>6. CASE ~Open(l) /\ (lumi[l].st = "closed" \/ ~main.allowEmpty)
  <2>1. UNCHANGED <<lumi, ledger, errors>>
    BY <1>6 DEF TakeJson
  <2>2. lumi[l].st = "closed" \/ ~lumi[l].pid[p].seen
    BY <1>2, <1>3, <1>5, <1>6, NotSeen DEF Open
  <2> QED  BY <1>2, <1>3, <2>1, <2>2 DEF Untouched, Others
<1>7. CASE Open(l)
  <2> DEFINE h == lumi[l]
  <2>1. \/ h.pid[p].seen /\ Conclude(l, WithJson(h, p, s, n))
        \/ ~h.pid[p].seen /\ h.empty /\ Forward(l, h, s)
        \/ ~h.pid[p].seen /\ lumi' = [lumi EXCEPT ![l] = h] /\ UNCHANGED <<ledger, errors>>
    BY <1>7 DEF TakeJson
  <2>2. CASE h.pid[p].seen /\ Conclude(l, WithJson(h, p, s, n))
    <3> DEFINE g == WithJson(h, p, s, n)
    <3>1. g = WithJson(h, p, s, n) /\ h \in Handler
      BY <1>4
    <3>2. Conclude(l, g)
      BY <2>2
    <3> HIDE DEF g, h
    <3>3. g \in Handler
      BY <1>3, <3>1, JsonFields
    <3>4. Settles(l, g) /\ Others(l)
      BY <1>2, <3>2, <3>3, ConcludeSettles DEF Others
    <3> QED  BY <1>2, <1>3, <1>7, <2>2, <3>3, <3>4 DEF g, h
  <2>3. CASE ~h.pid[p].seen /\ h.empty /\ Forward(l, h, s)
    <3>1. Blank(h) /\ Blank(lumi[l]) /\ h.pid = lumi[l].pid /\ h \in Handler
      BY <1>4, <1>7, <2>3 DEF Blank, Open
    <3>2. ~lumi[l].pid[p].seen /\ Forward(l, h, s)
      BY <2>3
    <3> HIDE DEF h
    <3>3. Empties(l) /\ Others(l)
      BY <1>2, <1>3, <3>1, <3>2, ForwardEmpties DEF Others
    <3> QED  BY <1>2, <1>3, <3>2, <3>3
  <2>4. CASE ~h.pid[p].seen /\ lumi' = [lumi EXCEPT ![l] = h] /\ UNCHANGED <<ledger, errors>>
    <3>1. lumi' = lumi
      BY <1>2, <1>4, <2>4
    <3> QED  BY <1>2, <1>3, <2>4, <3>1 DEF Untouched, Others
  <2> QED  BY <2>1, <2>2, <2>3, <2>4
<1>8. CASE lumi[l].st = "none" /\ ~(~Open(l) /\ (lumi[l].st = "closed" \/ ~main.allowEmpty))
  <2> DEFINE h == NewHandler("json")
  <2>0. ~Open(l)
    BY <1>8 DEF Open
  <2>1. h = NewHandler("json") /\ "json" # "index"
    OBVIOUS
  <2>2. \/ h.pid[p].seen
        \/ Forward(l, h, s)
        \/ lumi' = [lumi EXCEPT ![l] = h] /\ UNCHANGED <<ledger, errors>>
    BY <1>8, <2>0 DEF TakeJson
  <2> HIDE DEF h
  <2>3. Blank(h) /\ h.pid = NoHandler.pid /\ h \in Handler /\ ~h.pid[p].seen
    BY <1>3, <2>1, NewIsBlank
  <2>4. Empties(l) /\ Others(l)
    BY <1>2, <1>3, <1>8, <2>2, <2>3, ForwardEmpties, ReplaceEmpties DEF Others
  <2>5. ~lumi[l].pid[p].seen
    BY <1>2, <1>3, <1>8, NotSeen
  <2> QED  BY <1>2, <1>3, <2>4, <2>5
<1> QED  BY <1>5, <1>6, <1>7, <1>8 DEF Open

LEMMA BadEffect ==
  ASSUME Course, Books, TakeBad, NEW l, l = Event.ls, NEW p, p = Event.pid, NEW s, s = Event.stream
  PROVE  /\ l \in Lumis /\ p \in Pids /\ s \in Streams
         /\ Others(l) /\ Over(Pend, buEols, l)
         /\ \/ /\ Open(l) /\ lumi[l].out[s].open /\ ~lumi[l].empty
               /\ WithBad(lumi[l], p, s) \in Handler /\ Settles(l, WithBad(lumi[l], p, s))
            \/ /\ Untouched(l) \/ Empties(l)
               /\ \/ lumi[l].st # "open" \/ lumi[l].empty \/ ~lumi[l].out[s].open
                  \/ ~lumi[l].pid[p].seen
<1>1. /\ LumiTypeOK /\ Events /\ Buffered /\ Started /\ Event.kind = "bad"
  BY DEF Course, TakeBad
<1>2. Over(Pend, buEols, l) /\ l \in Lumis
  BY <1>1, HeadOver
<1>3. p \in Pids /\ s \in Streams
  BY <1>1, StartedPend DEF WellFormed, FileEvent
<1>4. lumi[l] \in Handler /\ lumi \in [Lumis -> Handler]
  BY <1>1, <1>2 DEF LumiTypeOK
<1> DEFINE h == lumi[l]
<1>5. CASE Open(l) /\ h.pid[p].seen /\ h.out[s].open /\ ~h.empty
  <2> DEFINE g == WithBad(h, p, s)
  <2>1. g = WithBad(h, p, s) /\ h \in Handler
    BY <1>4
  <2>2. Conclude(l, g)
    BY <1>5 DEF TakeBad
  <2> HIDE DEF g, h
  <2>3. g \in Handler
    BY <1>3, <2>1, BadFields
  <2>4. Settles(l, g) /\ Others(l)
    BY <1>2, <2>2, <2>3, ConcludeSettles DEF Others
  <2> QED  BY <1>2, <1>3, <1>5, <2>3, <2>4 DEF g, h
<1>6. CASE ~(Open(l) /\ h.pid[p].seen /\ h.out[s].open /\ ~h.empty)
  <2>1. \/ h.st = "none" /\ lumi' = [lumi EXCEPT ![l] = NewHandler("bad")]
        \/ lumi' = lumi
    BY <1>6 DEF TakeBad
  <2>2. UNCHANGED <<ledger, errors>>
    BY <1>6 DEF TakeBad
  <2>3. CASE lumi' = lumi
    BY <1>2, <1>3, <1>6, <2>2, <2>3 DEF Untouched, Others, Open
  <2>4. CASE h.st = "none" /\ lumi' = [lumi EXCEPT ![l] = NewHandler("bad")]
    <3> DEFINE g == NewHandler("bad")
    <3>1. g = NewHandler("bad") /\ "bad" # "index" /\ lumi' = [lumi EXCEPT ![l] = g]
      BY <2>4
    <3> HIDE DEF g
    <3>2. Blank(g) /\ g.pid = NoHandler.pid
      BY <3>1, NewIsBlank
    <3>3. Empties(l) /\ Others(l)
      BY <1>2, <2>2, <2>4, <3>1, <3>2, ReplaceEmpties DEF Others
    <3> QED  BY <1>2, <1>3, <2>4, <3>3
  <2> QED  BY <2>1, <2>3, <2>4
<1> QED  BY <1>5, <1>6

LEMMA CrashEffect ==
  ASSUME Course, TakeCrash, NEW p, p = Event.pid
  PROVE  /\ p \in Pids
         /\ \A l \in Lumis :
              \/ Untouched(l) /\ ~(Open(l) /\ lumi[l].pid[p].seen)
              \/ /\ Open(l)
                 /\ \E raw \in Nat : /\ raw <= lumi[l].pid[p].n
                                     /\ WithCrash(lumi[l], p, raw) \in Handler
                                     /\ Settles(l, WithCrash(lumi[l], p, raw))
<1> DEFINE hit == {l \in Lumis : Open(l) /\ lumi[l].pid[p].seen}
<1>1. /\ LumiTypeOK /\ Events /\ Buffered /\ Started /\ Event.kind = "crash"
  BY DEF Course, TakeCrash
<1>2. p \in Pids
  BY <1>1, StartedPend DEF WellFormed
<1>3. PICK raw \in [hit -> 0 .. Max["files"]] :
        /\ \A l \in hit : raw[l] <= lumi[l].pid[p].n
        /\ CheckClosure(hit, [l \in Lumis |-> IF l \in hit THEN WithCrash(lumi[l], p, raw[l])
                                              ELSE lumi[l]])
  BY DEF TakeCrash
<1> DEFINE hs == [l \in Lumis |-> IF l \in hit THEN WithCrash(lumi[l], p, raw[l]) ELSE lumi[l]]
<1>4. raw \in [hit -> Nat] /\ hit \in SUBSET Lumis
  OBVIOUS
<1>5. hs \in [Lumis -> Handler]
  <2>1. hs = [l \in Lumis |-> IF l \in hit THEN WithCrash(lumi[l], p, raw[l]) ELSE lumi[l]]
    OBVIOUS
  <2> HIDE DEF hs, hit
  <2> QED  BY ONLY Course, <1>2, <1>4, <2>1, CrashHandlers
<1>6. CheckClosure(hit, hs)
  BY <1>3
<1>7. \A l \in hit : Open(l) /\ hs[l] = WithCrash(lumi[l], p, raw[l])
  OBVIOUS
<1>8. \A l \in Lumis \ hit : ~(Open(l) /\ lumi[l].pid[p].seen)
  OBVIOUS
<1>9. \A l \in hit : raw[l] \in Nat /\ raw[l] <= lumi[l].pid[p].n
  BY <1>3, <1>4
<1> HIDE DEF hs, hit
<1>10. \A l \in Lumis : IF l \in hit THEN Settles(l, hs[l]) ELSE Untouched(l)
  BY <1>4, <1>5, <1>6, ClosureSettles
<1>11. \A l \in hit : /\ l \in Lumis /\ Open(l) /\ Settles(l, WithCrash(lumi[l], p, raw[l]))
                      /\ WithCrash(lumi[l], p, raw[l]) \in Handler
  BY <1>4, <1>5, <1>7, <1>10
<1> QED  BY <1>2, <1>8, <1>9, <1>10, <1>11

LEMMA EoLSEffect ==
  ASSUME Course, Books, TakeEoLS, NEW l, l = Event.ls
  PROVE  /\ l \in Lumis /\ Others(l)
         /\ \/ Untouched(l) /\ (l \in seen \/ ~Open(l))
            \/ \E h \in Handler, g \in Handler :
                 /\ h = lumi[l] \/ (Blank(h) /\ h.pid = NoHandler.pid /\ lumi[l].st = "none")
                 /\ h.st = "open" /\ g = [h EXCEPT !.eols = TRUE] /\ Settles(l, g)
<1> DEFINE h == IF Open(l) THEN lumi[l] ELSE NewHandler("eols")
           g == [h EXCEPT !.eols = TRUE]
<1>1. /\ LumiTypeOK /\ Started /\ Event.kind = "eols"
  BY DEF Course, TakeEoLS
<1>2. l \in Lumis
  BY <1>1, HeadOver
<1>3. \/ UNCHANGED <<lumi, ledger, errors>> /\ (l \in seen \/ ~Open(l))
      \/ (Open(l) \/ lumi[l].st = "none") /\ Conclude(l, g)
  BY DEF TakeEoLS
<1>4. CASE UNCHANGED <<lumi, ledger, errors>> /\ (l \in seen \/ ~Open(l))
  BY <1>2, <1>4 DEF Untouched, Others
<1>5. CASE (Open(l) \/ lumi[l].st = "none") /\ Conclude(l, g)
  <2>1. /\ h \in Handler /\ h.st = "open"
        /\ h = lumi[l] \/ (Blank(h) /\ h.pid = NoHandler.pid /\ lumi[l].st = "none")
    <3>1. lumi[l] \in Handler
      BY <1>1, <1>2 DEF LumiTypeOK
    <3>2. CASE Open(l)
      BY <3>1, <3>2 DEF Open
    <3>3. CASE ~Open(l)
      <4> DEFINE w == NewHandler("eols")
      <4>1. w = NewHandler("eols") /\ "eols" # "index" /\ h = w
        BY <3>3
      <4> HIDE DEF w, h
      <4>2. Blank(w) /\ w.pid = NoHandler.pid /\ w \in Handler
        BY <4>1, NewIsBlank
      <4> QED  BY <1>5, <3>3, <4>1, <4>2 DEF Blank
    <3> QED  BY <3>2, <3>3
  <2>2. g = [h EXCEPT !.eols = TRUE] /\ Conclude(l, g)
    BY <1>5
  <2> HIDE DEF h, g
  <2>3. g \in Handler
    BY <2>1, <2>2, EolsFields
  <2>4. Settles(l, g) /\ Others(l)
    BY <1>2, <2>2, <2>3, ConcludeSettles DEF Others
  <2> QED  BY <1>2, <2>1, <2>2, <2>3, <2>4
<1> QED  BY <1>3, <1>4, <1>5

LEMMA MergedEffect ==
  ASSUME Course, TakeMerged, NEW l, l = Event.ls, NEW s, s = Event.stream
  PROVE  /\ l \in Lumis /\ s \in Streams /\ Others(l)
         /\ \/ Untouched(l) /\ ~Open(l)
            \/ /\ Open(l) /\ WithMerged(lumi[l], s) \in Handler
               /\ Settles(l, WithMerged(lumi[l], s))
<1>1. /\ LumiTypeOK /\ Events /\ Buffered /\ Started /\ Event.kind = "merged"
  BY DEF Course, TakeMerged
<1>2. l \in Lumis /\ s \in Streams
  BY <1>1, HeadOver, StartedPend DEF WellFormed
<1>3. \/ UNCHANGED <<lumi, ledger, errors>> /\ ~Open(l)
      \/ Open(l) /\ Conclude(l, WithMerged(lumi[l], s))
  BY DEF TakeMerged
<1>4. CASE UNCHANGED <<lumi, ledger, errors>> /\ ~Open(l)
  BY <1>2, <1>4 DEF Untouched, Others
<1>5. CASE Open(l) /\ Conclude(l, WithMerged(lumi[l], s))
  <2> DEFINE h == lumi[l]
             g == WithMerged(h, s)
  <2>1. g = WithMerged(h, s) /\ h \in Handler /\ Conclude(l, g)
    BY <1>1, <1>2, <1>5 DEF LumiTypeOK
  <2> HIDE DEF g, h
  <2>2. g \in Handler
    BY <1>2, <2>1, MergedFields
  <2>3. Settles(l, g) /\ Others(l)
    BY <1>2, <2>1, <2>2, ConcludeSettles DEF Others
  <2> QED  BY <1>2, <1>5, <2>2, <2>3 DEF g, h
<1> QED  BY <1>3, <1>4, <1>5

-----------------------------------------------------------------------------
(* The files after a step *)

\* No stream file is delivered.
MergedKept(l) ==
  /\ \A p \in Pids : lumi'[l].pid[p].merged \subseteq lumi[l].pid[p].merged
  /\ lumi'[l].st # "closed" =>
       lumi[l].st # "closed" /\ \A p \in Pids : lumi'[l].pid[p].merged = lumi[l].pid[p].merged

LEMMA ClosedEmpty == /\ Closed.st = "closed" /\ Known(Closed)
                     /\ \A p \in Pids : Closed.pid[p].merged = {} /\ NoHandler.pid[p].merged = {}
                                        /\ NoHandler.pid[p].n = 0 /\ ~NoHandler.pid[p].seen
<1>1. \A p \in Pids : NoHandler.pid[p] = [seen |-> FALSE, n |-> 0, merged |-> {}]
  BY NoHandlerTyped
<1>2. \A p \in Pids : NoHandler.pid[p].merged = {} /\ NoHandler.pid[p].n = 0 /\ ~NoHandler.pid[p].seen
  BY <1>1
<1> QED  BY <1>2, NoHandlerTyped DEF Known

\* A handler that settles is closed, or keeps the files it has got.
LEMMA SettledFiles ==
  ASSUME NEW l, NEW h \in Handler, h.st = "open", Settles(l, h)
  PROVE  \/ Complete(h) /\ lumi'[l] = Closed
         \/ ~Complete(h) /\ lumi'[l].st = "open" /\ lumi'[l].pid = h.pid /\ lumi'[l].empty = h.empty
<1>1. CASE Complete(h)
  BY <1>1, SettledTyped DEF Settles
<1>2. CASE ~Complete(h)
  <2> DEFINE g == Settled(h)
  <2>1. g = Settled(h) /\ lumi'[l] = g
    BY DEF Settles
  <2> HIDE DEF g
  <2>2. Kept(g, h) /\ g.pid = h.pid
    BY <1>2, <2>1, SettledFields
  <2> QED  BY <1>2, <2>1, <2>2 DEF Kept
<1> QED  BY <1>1, <1>2

LEMMA SettlesKept ==
  ASSUME NEW l \in Lumis, NEW h \in Handler, h.st = "open", Settles(l, h), lumi[l].st # "closed",
         \A p \in Pids : h.pid[p].merged = lumi[l].pid[p].merged
  PROVE  MergedKept(l)
<1>1. CASE lumi'[l] = Closed
  BY <1>1, ClosedEmpty DEF MergedKept
<1>2. CASE lumi'[l].st = "open" /\ lumi'[l].pid = h.pid
  BY <1>2 DEF MergedKept
<1> QED  BY <1>1, <1>2, SettledFiles

LEMMA SettlesKnown ==
  ASSUME NEW l \in Lumis, NEW h \in Handler, h.st = "open", Settles(l, h), Known(h)
  PROVE  Known(lumi'[l])
<1>1. CASE lumi'[l] = Closed
  BY <1>1, ClosedEmpty
<1>2. CASE lumi'[l].st = "open" /\ lumi'[l].pid = h.pid
  BY <1>2 DEF Known
<1> QED  BY <1>1, <1>2, SettledFiles

LEMMA EmptiesKept ==
  ASSUME Books, NEW l \in Lumis, Known(lumi[l]), Empties(l)
  PROVE  MergedKept(l) /\ Known(lumi'[l])
<1>1. \A p \in Pids : ~lumi[l].pid[p].seen /\ lumi[l].pid[p].n = 0
  BY NotSeen DEF Empties
<1>2. \A p \in Pids : lumi[l].pid[p].merged = {}
  BY <1>1 DEF Known
<1>3. \A p \in Pids : lumi'[l].pid[p].merged = {} /\ lumi'[l].pid[p].n = 0
  BY <1>1, <1>2, ClosedEmpty DEF Empties
<1>4. lumi[l].st # "closed"
  BY DEF Empties, Blank
<1> QED  BY <1>2, <1>3, <1>4 DEF MergedKept, Known

LEMMA UntouchedKept ==
  ASSUME NEW l \in Lumis, Known(lumi[l]), Untouched(l)
  PROVE  MergedKept(l) /\ Known(lumi'[l])
BY DEF Untouched, MergedKept

LEMMA NothingDelivered ==
  ASSUME NEW k, \A l \in Lumis : MergedKept(l), k = 1 => Pend[1].kind # "json",
         k = 1 => (Pend[1].kind = "bad" => Over(Pend, buEols, Pend[1].ls))
  PROVE  Delivers(k)
<1>1. \A l, p, s : ~IsHead(k, JsonFiles(l, p, s))
  BY DEF IsHead, JsonFiles
<1> QED  BY <1>1 DEF Delivers, MergedKept

FileKinds == {"index", "json", "bad", "crash"}

\* Only events that are not about files appear.
LEMMA FilesQuiet ==
  ASSUME Course, FilesInv, NEW k, NEW X, Shifted(Pend, Pend', k, X),
         \A i \in DOMAIN X : X[i].kind \notin FileKinds,
         UNCHANGED <<grab, valid, torn>>, buEols \subseteq buEols', Made',
         \A p \in Pids : Crashed(p)' <=> Crashed(p), Delivers(k), \A l \in Lumis : Known(lumi'[l])
  PROVE  FilesInv'
<1>1. FilesGrow
  BY DEF FilesGrow
<1>2. FilesAppear(k, X)
  <2>1. \A i \in DOMAIN X : X[i].kind # "index" /\ X[i].kind # "json" /\ X[i].kind # "bad" /\ X[i].kind # "crash"
    BY DEF FileKinds
  <2>2. ASSUME NEW e, e.kind # "index", e.kind # "json", e.kind # "bad", e.kind # "crash"
        PROVE  IsTrue(e)' /\ \A f : Apart(f, e)
    BY <2>2 DEF IsTrue, Apart
  <2> QED  BY <2>1, <2>2 DEF FilesAppear
<1>3. Pending'
  BY <1>1, <1>2, PendingShift DEF FilesInv
<1>4. \A l \in Lumis, p \in Pids : TakenOf(l, p)'
  BY <1>1, <1>2, TakenShift DEF FilesInv
<1> QED  BY <1>3, <1>4 DEF FilesInv

\* Events are taken or appear, none that appears is about a file.
Passes(k) ==
  \E X \in Seq(FileEvent) :
    Shifted(Pend, Pend', k, X) /\ \A i \in DOMAIN X : X[i].kind \notin FileKinds

LEMMA PassesAny ==
  /\ Pend \in Seq(FileEvent) /\ Pend' = Pend => Passes(0)
  /\ \A k : Shifted(Pend, Pend', k, <<>>) => Passes(k)
<1>1. <<>> \in Seq(FileEvent) /\ \A i \in DOMAIN <<>> : <<>>[i].kind \notin FileKinds
  BY EmptySeq
<1>2. \A k : Shifted(Pend, Pend', k, <<>>) => Passes(k)
  BY <1>1 DEF Passes
<1>3. ASSUME Pend \in Seq(FileEvent), Pend' = Pend PROVE Shifted(Pend, Pend', 0, <<>>)
  BY <1>3, NothingShifted
<1> QED  BY <1>2, <1>3

\* None appears but ends of lumisections and merged files.
Adds(k) ==
  \E X \in Seq(FileEvent) :
    Shifted(Pend, Pend', k, X) /\ \A i \in DOMAIN X : X[i].kind \in {"eols", "merged"}

LEMMA EndsPass ==
  ASSUME NEW S, NEW X, EndsOf(X, S)
  PROVE  X \in Seq(FileEvent) /\ \A i \in DOMAIN X : X[i].kind \notin FileKinds /\ X[i].kind = "eols"
BY EoLSFields DEF EndsOf, FileKinds

LEMMA TakenPasses ==
  ASSUME Course, Started, main'.buffer = main.buffer,
         \/ queue' = Tail(queue)
         \/ \E S \in SUBSET Lumis, ql \in SUBSET Lumis : WriteEoLS(S, Tail(queue), ql)
  PROVE  Passes(1) /\ Adds(1) /\ Pend[1] = Event /\ WellFormed(Event)
<1>1. LumiTypeOK /\ Events /\ Buffered
  BY DEF Course
<1>2. Pend[1] = Event /\ WellFormed(Event)
  BY <1>1, StartedPend
<1>3. CASE queue' = Tail(queue)
  <2>1. Shifted(Pend, Pend', 1, <<>>)
    BY <1>1, <1>3, TakeOnlyShifts
  <2>2. <<>> \in Seq(FileEvent) /\ \A i \in DOMAIN <<>> : FALSE
    OBVIOUS
  <2>3. Adds(1)
    BY <2>1, <2>2 DEF Adds
  <2> QED  BY <1>2, <2>1, <2>3, PassesAny
<1>4. ASSUME NEW S \in SUBSET Lumis, NEW ql \in SUBSET Lumis, WriteEoLS(S, Tail(queue), ql)
      PROVE  Passes(1) /\ Adds(1)
  <2>1. PICK X : EndsOf(X, S \ ql) /\ queue' = Tail(queue) \o X
    BY <1>4, WritesEnds
  <2>2. X \in Seq(FileEvent) /\ \A i \in DOMAIN X : X[i].kind \notin FileKinds /\ X[i].kind = "eols"
    BY <2>1, EndsPass
  <2>3. Shifted(Pend, Pend', 1, X)
    BY <1>1, <2>1, <2>2, TakeShifts
  <2> QED  BY <2>2, <2>3 DEF Passes, Adds
<1> QED  BY <1>2, <1>3, <1>4

LEMMA AddedPasses ==
  ASSUME Course, main' = main,
         \/ queue' = queue
         \/ \E e \in FileEvent : e.kind \notin FileKinds /\ queue' = Append(queue, e)
         \/ \E S \in SUBSET Lumis, ql \in SUBSET Lumis : WriteEoLS(S, queue, ql)
  PROVE  Passes(0)
<1>1. LumiTypeOK /\ Pend \in Seq(FileEvent)
  BY DEF Course, Events
<1>2. CASE queue' = queue
  <2>1. Pend' = Pend
    BY <1>2 DEF Pend
  <2> QED  BY <1>1, <2>1, PassesAny
<1>3. ASSUME NEW e \in FileEvent, e.kind \notin FileKinds, queue' = Append(queue, e)
      PROVE  Passes(0)
  <2>1. Shifted(Pend, Pend', 0, <<e>>)
    BY <1>1, <1>3, ReportShifts
  <2>2. <<e>> \in Seq(FileEvent) /\ \A i \in DOMAIN <<e>> : <<e>>[i].kind \notin FileKinds
    BY <1>3
  <2> QED  BY <2>1, <2>2 DEF Passes
<1>4. ASSUME NEW S \in SUBSET Lumis, NEW ql \in SUBSET Lumis, WriteEoLS(S, queue, ql)
      PROVE  Passes(0)
  <2>1. PICK X : EndsOf(X, S \ ql) /\ queue' = queue \o X
    BY <1>4, WritesEnds
  <2>2. X \in Seq(FileEvent) /\ \A i \in DOMAIN X : X[i].kind \notin FileKinds
    BY <2>1, EndsPass
  <2>3. Shifted(Pend, Pend', 0, X)
    BY <1>1, <2>1, <2>2, AddShifts
  <2> QED  BY <2>2, <2>3 DEF Passes
<1> QED  BY <1>2, <1>3, <1>4

LEMMA FilesPass ==
  ASSUME Course, FilesInv, NEW k, Passes(k),
         UNCHANGED <<grab, valid, torn>>, buEols \subseteq buEols', Made',
         \A p \in Pids : Crashed(p)' <=> Crashed(p), Delivers(k), \A l \in Lumis : Known(lumi'[l])
  PROVE  FilesInv'
<1>1. PICK X \in Seq(FileEvent) :
        Shifted(Pend, Pend', k, X) /\ \A i \in DOMAIN X : X[i].kind \notin FileKinds
  BY DEF Passes
<1> QED  BY <1>1, FilesQuiet

\* The script takes an event that is not a stream file with events.
LEMMA ScriptFiles ==
  ASSUME Course, FilesInv, NEW k, Passes(k), UNCHANGED <<proc, grab, valid, torn, buEols>>,
         Delivers(k), \A l \in Lumis : Known(lumi'[l])
  PROVE  FilesInv'
<1>1. Made'
  BY DEF FilesInv, Made, MadeBy, Files
<1>2. \A p \in Pids : Crashed(p)' <=> Crashed(p)
  BY DEF Crashed
<1> QED  BY <1>1, <1>2, FilesPass

LEMMA TakeMoves ==
  ASSUME Course, \/ TakeIndex \/ TakeEoLS \/ TakeJson \/ TakeBad \/ TakeCrash
                 \/ TakeMerged \/ TakeProcessing \/ TakeComplete
  PROVE  /\ Passes(1) /\ Adds(1) /\ Pend[1] = Event /\ 1 \in DOMAIN Pend
         /\ WellFormed(Event) /\ Started
         /\ UNCHANGED <<proc, grab, valid, torn, buEols>>
<1>1. LumiTypeOK /\ Started /\ queued \in SUBSET Lumis /\ main \in MainState
  BY DEF Course, LumiTypeOK, TakeIndex, TakeEoLS, TakeJson, TakeBad, TakeCrash, TakeMerged,
         TakeProcessing, TakeComplete
<1>2. UNCHANGED <<proc, grab, valid, torn, buEols>>
  BY DEF TakeIndex, TakeEoLS, TakeJson, TakeBad, TakeCrash, TakeMerged, TakeProcessing, TakeComplete
<1>3. main'.buffer = main.buffer
  <2>1. \/ main' = main \/ main' = [main EXCEPT !.allowEmpty = TRUE]
        \/ main' = [main EXCEPT !.stop = Event.kind]
    BY DEF TakeIndex, TakeEoLS, TakeJson, TakeBad, TakeCrash, TakeMerged, TakeProcessing, TakeComplete
  <2> QED  BY <1>1, <2>1 DEF MainState
<1>4. /\ Unended(Event.ls) \in SUBSET Lumis /\ MissingEoLS \in SUBSET Lumis
      /\ Notify(Event.ls) \in SUBSET Lumis
  BY <1>1 DEF Unended, MissingEoLS, Notify
<1>5. \/ queue' = Tail(queue)
      \/ \E S \in SUBSET Lumis, ql \in SUBSET Lumis : WriteEoLS(S, Tail(queue), ql)
  <2>1. CASE TakeIndex
    BY <1>1, <1>4, <2>1 DEF TakeIndex
  <2>2. CASE TakeEoLS
    BY <1>4, <2>2 DEF TakeEoLS
  <2>3. CASE TakeComplete
    BY <1>1, <1>4, <2>3 DEF TakeComplete
  <2>4. CASE TakeJson \/ TakeBad \/ TakeCrash \/ TakeMerged \/ TakeProcessing
    BY <2>4 DEF TakeJson, TakeBad, TakeCrash, TakeMerged, TakeProcessing
  <2> QED  BY <2>1, <2>2, <2>3, <2>4
<1>6. 1 \in DOMAIN Pend
  BY <1>1, StartedPend DEF Course
<1> QED  BY <1>1, <1>2, <1>3, <1>5, <1>6, TakenPasses

LEMMA TakenFiles ==
  ASSUME Course, FilesInv,
         \/ TakeIndex \/ TakeEoLS \/ TakeBad \/ TakeCrash
         \/ TakeMerged \/ TakeProcessing \/ TakeComplete,
         \A l \in Lumis : MergedKept(l) /\ Known(lumi'[l])
  PROVE  FilesInv'
<1>1. /\ Passes(1) /\ Pend[1] = Event /\ Started
      /\ UNCHANGED <<proc, grab, valid, torn, buEols>>
  BY TakeMoves
<1>2. Event.kind # "json"
  BY DEF TakeIndex, TakeEoLS, TakeBad, TakeCrash, TakeMerged, TakeProcessing, TakeComplete
<1>3. Event.kind = "bad" => Over(Pend, buEols, Event.ls)
  BY <1>1, HeadOver
<1>4. Delivers(1)
  BY <1>1, <1>2, <1>3, NothingDelivered
<1> QED  BY <1>1, <1>4, ScriptFiles

-----------------------------------------------------------------------------
(* The main loop takes a file *)

LEMMA OthersKept ==
  ASSUME FilesInv, NEW l \in Lumis, Others(l), MergedKept(l) /\ Known(lumi'[l])
  PROVE  \A k \in Lumis : MergedKept(k) /\ Known(lumi'[k])
BY UntouchedKept DEF FilesInv, Others

LEMMA TakeIndexFiles ==
  ASSUME Course, Books, FilesInv, TakeIndex
  PROVE  FilesInv'
<1> DEFINE l == Event.ls
           p == Event.pid
           h == IF Open(l) THEN lumi[l] ELSE NewHandler("index")
           g == WithIndex(h, p, 1)
<1>1. /\ l \in Lumis /\ p \in Pids /\ h \in Handler /\ h.st = "open"
      /\ Open(l) \/ lumi[l].st = "none"
      /\ Settles(l, g) /\ Others(l)
  BY IndexEffect
<1>2. Known(lumi[l]) /\ lumi[l].st # "closed"
  BY <1>1 DEF FilesInv, Open
<1>3. Known(h) /\ \A q \in Pids : h.pid[q].merged = lumi[l].pid[q].merged
  <2>1. CASE Open(l)
    BY <1>2, <2>1
  <2>2. CASE ~Open(l)
    <3> DEFINE w == NewHandler("index")
    <3>1. h = w /\ w = NewHandler("index")
      BY <2>2
    <3> HIDE DEF w, h
    <3>2. w.pid = NoHandler.pid
      BY <3>1, NewFields
    <3>3. Known(h) /\ \A q \in Pids : h.pid[q].merged = {}
      BY <3>1, <3>2, ClosedEmpty DEF Known
    <3>4. \A q \in Pids : ~lumi[l].pid[q].seen
      BY <1>1, <2>2, NotSeen
    <3> QED  BY <1>2, <3>3, <3>4 DEF Known
  <2> QED  BY <2>1, <2>2
<1>4. g = WithIndex(h, p, 1) /\ 1 \in Nat
  OBVIOUS
<1> HIDE DEF g, h, l, p
<1>5. /\ g \in Handler /\ g.st = h.st /\ g.pid[p].seen /\ g.pid[p].merged = h.pid[p].merged
      /\ \A q \in Pids \ {p} : g.pid[q] = h.pid[q]
  BY <1>1, <1>4, IndexFields
<1>6. Known(g) /\ \A q \in Pids : g.pid[q].merged = lumi[l].pid[q].merged
  BY <1>3, <1>5 DEF Known
<1>7. MergedKept(l) /\ Known(lumi'[l])
  BY <1>1, <1>2, <1>5, <1>6, SettlesKept, SettlesKnown
<1> QED  BY <1>1, <1>7, OthersKept, TakenFiles

\* The handler settles with the files it had.
LEMMA SettlesSame ==
  ASSUME FilesInv, NEW l \in Lumis, NEW h \in Handler, Settles(l, h), h.st = "open",
         lumi[l].st # "closed", \A p \in Pids : h.pid[p] = lumi[l].pid[p]
  PROVE  MergedKept(l) /\ Known(lumi'[l])
<1>1. Known(h)
  BY DEF FilesInv, Known
<1>2. \A p \in Pids : h.pid[p].merged = lumi[l].pid[p].merged
  OBVIOUS
<1> QED  BY <1>1, <1>2, SettlesKept, SettlesKnown

LEMMA TakeEoLSFiles ==
  ASSUME Course, Books, FilesInv, TakeEoLS
  PROVE  FilesInv'
<1> DEFINE l == Event.ls
<1>1. /\ l \in Lumis /\ Others(l)
      /\ \/ Untouched(l)
         \/ \E h \in Handler, g \in Handler :
              /\ h = lumi[l] \/ (Blank(h) /\ h.pid = NoHandler.pid /\ lumi[l].st = "none")
              /\ h.st = "open" /\ g = [h EXCEPT !.eols = TRUE] /\ Settles(l, g)
  BY EoLSEffect
<1> HIDE DEF l
<1>2. Known(lumi[l])
  BY <1>1 DEF FilesInv
<1>3. ASSUME NEW h \in Handler, NEW g \in Handler,
             h = lumi[l] \/ (Blank(h) /\ h.pid = NoHandler.pid /\ lumi[l].st = "none"),
             h.st = "open", g = [h EXCEPT !.eols = TRUE], Settles(l, g)
      PROVE  MergedKept(l) /\ Known(lumi'[l])
  <2>1. g.st = "open" /\ g.pid = h.pid
    BY <1>3, EolsFields
  <2>2. lumi[l].st # "closed"
    BY <1>3
  <2>3. CASE h = lumi[l]
    BY <1>1, <1>3, <2>1, <2>2, <2>3, SettlesSame
  <2>4. CASE Blank(h) /\ h.pid = NoHandler.pid /\ lumi[l].st = "none"
    <3>1. Known(g) /\ \A q \in Pids : g.pid[q].merged = {}
      BY <2>1, <2>4, ClosedEmpty DEF Known
    <3>2. \A q \in Pids : ~lumi[l].pid[q].seen
      BY <1>1, <2>4, NotSeen
    <3>3. \A q \in Pids : g.pid[q].merged = lumi[l].pid[q].merged
      BY <1>2, <3>1, <3>2 DEF Known
    <3> QED  BY <1>1, <1>3, <2>1, <2>2, <3>1, <3>3, SettlesKept, SettlesKnown
  <2> QED  BY <1>3, <2>3, <2>4
<1>4. MergedKept(l) /\ Known(lumi'[l])
  BY <1>1, <1>2, <1>3, UntouchedKept
<1> QED  BY <1>1, <1>4, OthersKept, TakenFiles

LEMMA TakeBadFiles ==
  ASSUME Course, Books, FilesInv, TakeBad
  PROVE  FilesInv'
<1> DEFINE l == Event.ls
           p == Event.pid
           s == Event.stream
<1>1. /\ l \in Lumis /\ p \in Pids /\ s \in Streams /\ Others(l)
      /\ \/ /\ Open(l) /\ WithBad(lumi[l], p, s) \in Handler /\ Settles(l, WithBad(lumi[l], p, s))
         \/ Untouched(l) \/ Empties(l)
  BY BadEffect
<1> HIDE DEF l, p, s
<1>2. Known(lumi[l]) /\ lumi[l] \in Handler
  BY <1>1 DEF FilesInv, Course, LumiTypeOK
<1>3. ASSUME NEW g \in Handler, Open(l), g = WithBad(lumi[l], p, s), Settles(l, g)
      PROVE  MergedKept(l) /\ Known(lumi'[l])
  <2>1. g.st = "open" /\ g.pid = lumi[l].pid
    BY <1>1, <1>2, <1>3, BadFields DEF Kept, Open
  <2> QED  BY <1>1, <1>3, <2>1, SettlesSame DEF Open
<1>4. MergedKept(l) /\ Known(lumi'[l])
  BY <1>1, <1>2, <1>3, UntouchedKept, EmptiesKept
<1> QED  BY <1>1, <1>4, OthersKept, TakenFiles

LEMMA TakeMergedFiles ==
  ASSUME Course, Books, FilesInv, TakeMerged
  PROVE  FilesInv'
<1> DEFINE l == Event.ls
           s == Event.stream
<1>1. /\ l \in Lumis /\ s \in Streams /\ Others(l)
      /\ \/ Untouched(l)
         \/ /\ Open(l) /\ WithMerged(lumi[l], s) \in Handler
            /\ Settles(l, WithMerged(lumi[l], s))
  BY MergedEffect
<1> HIDE DEF l, s
<1>2. Known(lumi[l]) /\ lumi[l] \in Handler
  BY <1>1 DEF FilesInv, Course, LumiTypeOK
<1>3. ASSUME NEW g \in Handler, Open(l), g = WithMerged(lumi[l], s), Settles(l, g)
      PROVE  MergedKept(l) /\ Known(lumi'[l])
  <2>1. g.st = "open" /\ g.pid = lumi[l].pid
    BY <1>1, <1>2, <1>3, MergedFields DEF Kept, Open
  <2> QED  BY <1>1, <1>3, <2>1, SettlesSame DEF Open
<1>4. MergedKept(l) /\ Known(lumi'[l])
  BY <1>1, <1>2, <1>3, UntouchedKept
<1> QED  BY <1>1, <1>4, OthersKept, TakenFiles

LEMMA TakeCrashFiles ==
  ASSUME Course, Books, FilesInv, TakeCrash
  PROVE  FilesInv'
<1> DEFINE p == Event.pid
<1>1. /\ p \in Pids
      /\ \A l \in Lumis :
           \/ Untouched(l)
           \/ /\ Open(l)
              /\ \E raw \in Nat : /\ WithCrash(lumi[l], p, raw) \in Handler
                                  /\ Settles(l, WithCrash(lumi[l], p, raw))
  BY CrashEffect
<1> HIDE DEF p
<1>2. ASSUME NEW l \in Lumis PROVE MergedKept(l) /\ Known(lumi'[l])
  <2>1. Known(lumi[l]) /\ lumi[l] \in Handler
    BY DEF FilesInv, Course, LumiTypeOK
  <2>2. ASSUME NEW raw \in Nat, NEW g \in Handler, Open(l), g = WithCrash(lumi[l], p, raw),
               Settles(l, g)
        PROVE  MergedKept(l) /\ Known(lumi'[l])
    <3>1. g.st = "open" /\ g.pid = lumi[l].pid
      BY <1>1, <2>1, <2>2, CrashFields DEF Kept, Open
    <3> QED  BY <2>2, <3>1, SettlesSame DEF Open
  <2> QED  BY <1>1, <2>1, <2>2, UntouchedKept
<1> QED  BY <1>2, TakenFiles

LEMMA TakeOtherFiles ==
  ASSUME Course, FilesInv, TakeProcessing \/ TakeComplete
  PROVE  FilesInv'
<1>1. UNCHANGED <<lumi, ledger, errors>>
  BY DEF TakeProcessing, TakeComplete
<1>2. \A l \in Lumis : MergedKept(l) /\ Known(lumi'[l])
  BY <1>1, UntouchedKept DEF FilesInv, Untouched
<1> QED  BY <1>2, TakenFiles

LEMMA TakeJsonFiles ==
  ASSUME Course, Books, FilesInv, TakeJson
  PROVE  FilesInv'
<1> DEFINE l == Event.ls
           p == Event.pid
           s == Event.stream
           n == Event.n
           D(k, q) ==
             /\ \A u \in lumi'[k].pid[q].merged :
                  u \in lumi[k].pid[q].merged \/ (u \in Streams /\ IsHead(1, JsonFiles(k, q, u)))
             /\ lumi'[k].st # "closed" =>
                  /\ lumi[k].st # "closed" /\ lumi[k].pid[q].merged \subseteq lumi'[k].pid[q].merged
                  /\ \A u \in Streams : IsHead(1, JsonFiles(k, q, u)) =>
                       u \in lumi'[k].pid[q].merged \/ grab[k][q] = 0
<1>1. /\ Passes(1) /\ Pend[1] = Event /\ 1 \in DOMAIN Pend /\ WellFormed(Event)
      /\ UNCHANGED <<proc, grab, valid, torn, buEols>>
  BY TakeMoves
<1>2. /\ l \in Lumis /\ p \in Pids /\ s \in Streams /\ n \in Nat
      /\ Others(l) /\ Over(Pend, buEols, l)
      /\ \/ /\ Open(l) /\ lumi[l].pid[p].seen /\ WithJson(lumi[l], p, s, n) \in Handler
            /\ Settles(l, WithJson(lumi[l], p, s, n))
         \/ /\ lumi[l].st = "closed" \/ ~lumi[l].pid[p].seen
            /\ Untouched(l) \/ Empties(l)
  BY JsonEffect
<1>3. Event \in JsonFiles(l, p, s) /\ Event.kind = "json"
  BY <1>1 DEF JsonFiles, WellFormed, TakeJson
<1>4. \A k \in Lumis, q \in Pids, u \in Streams :
        IsHead(1, JsonFiles(k, q, u)) <=> k = l /\ q = p /\ u = s
  BY <1>1, <1>3 DEF IsHead, JsonFiles
<1> HIDE DEF l, p, s, n
<1>5. Known(lumi[l]) /\ lumi[l] \in Handler
  BY <1>2 DEF FilesInv, Course, LumiTypeOK
<1>6. ASSUME Open(l), lumi[l].pid[p].seen, NEW g \in Handler, g = WithJson(lumi[l], p, s, n),
             Settles(l, g)
      PROVE  Known(lumi'[l]) /\ \A q \in Pids : D(l, q)
  <2> DEFINE h == lumi[l]
  <2>1. /\ g.st = "open" /\ g.pid[p].seen = h.pid[p].seen
        /\ g.pid[p].merged = h.pid[p].merged \union {s}
        /\ \A q \in Pids \ {p} : g.pid[q] = h.pid[q]
    <3>1. h \in Handler /\ g = WithJson(h, p, s, n) /\ h.st = "open"
      BY <1>5, <1>6 DEF Open
    <3> HIDE DEF h
    <3>2. /\ Kept(g, h) /\ g.pid[p].seen = h.pid[p].seen
          /\ g.pid[p].merged = h.pid[p].merged \union {s}
          /\ \A q \in Pids \ {p} : g.pid[q] = h.pid[q]
      BY <1>2, <3>1, JsonFields
    <3> QED  BY <3>1, <3>2 DEF Kept
  <2>2. Known(g)
    BY <1>5, <1>6, <2>1 DEF Known
  <2>3. Known(lumi'[l])
    BY <1>2, <1>6, <2>1, <2>2, SettlesKnown
  <2>4. lumi'[l] = Closed \/ (lumi'[l].st = "open" /\ lumi'[l].pid = g.pid)
    BY <1>6, <2>1, SettledFiles
  <2>5. ASSUME NEW q \in Pids PROVE D(l, q)
    <3>1. CASE lumi'[l] = Closed
      BY <3>1, ClosedEmpty
    <3>2. CASE lumi'[l].st = "open" /\ lumi'[l].pid = g.pid
      BY <1>2, <1>4, <1>6, <2>1, <3>2 DEF Open
    <3> QED  BY <2>4, <3>1, <3>2
  <2> QED  BY <2>3, <2>5
<1>7. ASSUME lumi[l].st = "closed" \/ ~lumi[l].pid[p].seen, Untouched(l) \/ Empties(l)
      PROVE  Known(lumi'[l]) /\ \A q \in Pids : D(l, q)
  <2>1. MergedKept(l) /\ Known(lumi'[l])
    BY <1>2, <1>5, <1>7, UntouchedKept, EmptiesKept
  <2>2. lumi[l].st # "closed" => grab[l][p] = 0
    <3> SUFFICES ASSUME lumi[l].st # "closed" PROVE grab[l][p] = 0
      OBVIOUS
    <3>1. lumi[l].pid[p].n = 0
      BY <1>2, <1>5, <1>7 DEF Known
    <3> DEFINE c == grab[l]
               h == lumi[l]
    <3>2. /\ c \in [Pids -> Nat] /\ Pend \in Seq(FileEvent) /\ h \in Handler
          /\ Account(h, l, Pend, buEols, c)
      BY <1>2, <1>5 DEF Course, Events, LumiTypeOK, Books, Book
    <3>3. h.pid[p].n = 0
      BY <3>1
    <3> HIDE DEF c, h
    <3>4. h.pid[p].n = c[p]
      BY <1>2, <3>2, AllCounted
    <3> QED  BY <3>3, <3>4 DEF c
  <2>3. ASSUME NEW q \in Pids PROVE D(l, q)
    <3>1. \A u \in lumi'[l].pid[q].merged : u \in lumi[l].pid[q].merged
      BY <2>1 DEF MergedKept
    <3>2. lumi'[l].st # "closed" =>
            lumi[l].st # "closed" /\ lumi[l].pid[q].merged = lumi'[l].pid[q].merged
      BY <2>1 DEF MergedKept
    <3>3. ASSUME lumi'[l].st # "closed", NEW u \in Streams, IsHead(1, JsonFiles(l, q, u))
          PROVE  grab[l][q] = 0
      BY <1>2, <1>4, <2>2, <3>2, <3>3
    <3> QED  BY <3>1, <3>2, <3>3
  <2> QED  BY <2>1, <2>3
<1>8. Known(lumi'[l]) /\ \A q \in Pids : D(l, q)
  BY <1>2, <1>6, <1>7
<1>9. \A k \in Lumis \ {l}, q \in Pids : D(k, q)
  BY <1>2, <1>4 DEF Others, Untouched
<1>10. \A k \in Lumis : Known(lumi'[k])
  BY <1>2, <1>8 DEF FilesInv, Others, Untouched
<1>11. \A k \in Lumis, q \in Pids : D(k, q)
  BY <1>8, <1>9
<1>12. \A k \in Lumis : Pend[1].kind \in {"json", "bad"} /\ Pend[1].ls = k => Over(Pend, buEols, k)
  BY <1>1, <1>2 DEF l
<1>13. Delivers(1)
  BY <1>11, <1>12 DEF Delivers
<1> QED  BY <1>1, <1>10, <1>13, ScriptFiles

-----------------------------------------------------------------------------
(* Steps of the script that do not take a file *)

LEMMA SameKept ==
  ASSUME FilesInv, UNCHANGED <<lumi, ledger, errors>>
  PROVE  \A l \in Lumis : MergedKept(l) /\ Known(lumi'[l])
BY UntouchedKept DEF FilesInv, Untouched

LEMMA BeforeStartPasses ==
  ASSUME Course, BufferIndex \/ FlushBuffer
  PROVE  Pend' = Pend
<1>1. /\ main \in MainState /\ main.buffer \in Seq(FileEvent) /\ queue \in Seq(FileEvent)
      /\ queue # <<>>
  BY MainFields DEF Course, LumiTypeOK, BufferIndex, FlushBuffer, Looping
<1>2. CASE BufferIndex
  <2> DEFINE b == Append(main.buffer, Event)
  <2>1. b \in Seq(FileEvent) /\ b \o Tail(queue) = Pend
    BY <1>1, HeadMoves DEF Event, Pend
  <2>2. main' = [main EXCEPT !.buffer = b, !.index = TRUE] /\ queue' = Tail(queue)
    BY <1>2 DEF BufferIndex
  <2> HIDE DEF b
  <2>3. main'.buffer = b
    BY <1>1, <2>1, <2>2, MainFields
  <2> QED  BY <2>1, <2>2, <2>3 DEF Pend
<1>3. CASE FlushBuffer
  <2>1. Flushed \o Tail(queue) = Pend /\ Flushed \o Tail(queue) \in Seq(FileEvent)
    BY <1>1, HeadMoves DEF Event, Pend, Flushed
  <2> DEFINE a == main.allowEmpty \/ Event.kind = "processing"
  <2>2. main' = [main EXCEPT !.started = TRUE, !.buffer = <<>>, !.allowEmpty = a]
    BY <1>3 DEF FlushBuffer
  <2>3. a \in BOOLEAN
    BY <1>1 DEF MainState
  <2> HIDE DEF a
  <2>4. main'.buffer = <<>> /\ queue' = Flushed \o Tail(queue)
    BY <1>1, <1>3, <2>2, <2>3, MainFields DEF FlushBuffer
  <2> QED  BY <2>1, <2>4, ConcatEmptySeq DEF Pend
<1> QED  BY <1>2, <1>3

LEMMA WaitingPasses ==
  ASSUME Course, BufferIndex \/ FlushBuffer \/ Idle \/ Finish \/ DqmTake
  PROVE  /\ Passes(0) /\ Pend' = Pend
         /\ UNCHANGED <<lumi, ledger, errors, proc, grab, valid, torn, buEols>>
<1>1. UNCHANGED <<lumi, ledger, errors, proc, grab, valid, torn, buEols>>
  BY DEF BufferIndex, FlushBuffer, Idle, Finish, DqmTake
<1>2. Pend' = Pend
  <2>1. CASE BufferIndex \/ FlushBuffer
    BY <2>1, BeforeStartPasses
  <2>2. CASE Idle \/ Finish \/ DqmTake
    <3>1. main \in MainState
      BY DEF Course, LumiTypeOK
    <3>2. \/ main' = main
          \/ main' = [main EXCEPT !.pc = "finish"] \/ main' = [main EXCEPT !.pc = "exited"]
          \/ \E n, a : main' = [main EXCEPT !.left = n, !.skip = a]
      BY <2>2 DEF Idle, Finish, DqmTake
    <3>3. main'.buffer = main.buffer
      BY <3>1, <3>2 DEF MainState
    <3> QED  BY <2>2, <3>3 DEF Pend, Idle, Finish, DqmTake
  <2> QED  BY <2>1, <2>2
<1> QED  BY <1>1, <1>2, PassesAny DEF Course, Events

LEMMA WaitingFiles ==
  ASSUME Course, FilesInv, BufferIndex \/ FlushBuffer \/ Idle \/ Finish \/ DqmTake
  PROVE  FilesInv'
<1>1. Passes(0) /\ UNCHANGED <<lumi, ledger, errors, proc, grab, valid, torn, buEols>>
  BY WaitingPasses
<1>2. \A l \in Lumis : MergedKept(l) /\ Known(lumi'[l])
  BY <1>1, SameKept
<1>3. Delivers(0)
  BY <1>2, NothingDelivered
<1> QED  BY <1>1, <1>2, <1>3, ScriptFiles

LEMMA DropEarlyFiles ==
  ASSUME Course, FilesInv, DropEarly
  PROVE  FilesInv'
<1>1. Passes(1) /\ Pend[1].kind = "crash"
  BY DropEarlyShifts, PassesAny
<1>2. UNCHANGED <<lumi, ledger, errors, proc, grab, valid, torn, buEols>>
  BY DEF DropEarly
<1>3. \A l \in Lumis : MergedKept(l) /\ Known(lumi'[l])
  BY <1>2, SameKept
<1>4. Delivers(1)
  BY <1>1, <1>3, NothingDelivered
<1> QED  BY <1>1, <1>2, <1>3, <1>4, ScriptFiles

\* The merging of stream s has ended for the handler h, which becomes g.
Returned(h, g, s, c) ==
  /\ Kept(g, h) /\ g.total = h.total /\ g.raw = h.raw /\ g.pid = h.pid
  /\ \A u \in Streams \ {s} : g.out[u] = h.out[u]
  /\ g.out[s].open = h.out[s].open /\ g.out[s].stage = h.out[s].stage /\ g.out[s].pb = h.out[s].pb
  /\ g.out[s].proc = c.proc /\ g.out[s].err = c.err

\* The files of stream s of lumisection l that come back.
MergedFiles(l, s) == {e \in FileEvent : e.kind = "merged" /\ e.ls = l /\ e.stream = s}

LEMMA DqmEffect ==
  ASSUME Course, DqmDone
  PROVE  /\ Passes(0) /\ UNCHANGED <<ledger, errors, proc, grab, valid, torn, buEols>>
         /\ dqm'.cur = {} /\ dqm'.q = dqm.q
         /\ dqm.counts.proc \in Nat /\ dqm.counts.err \in Nat
         /\ \E m \in dqm.cur, g \in Handler :
              /\ m.ls \in Lumis /\ m.stream \in Streams
              /\ lumi'[m.ls] = g /\ Returned(lumi[m.ls], g, m.stream, dqm.counts)
              /\ \A k \in Lumis \ {m.ls} : lumi'[k] = lumi[k]
              /\ \E e \in MergedFiles(m.ls, m.stream) : Shifted(Pend, Pend', 0, <<e>>)
<1>1. /\ LumiTypeOK /\ dqm \in DqmState /\ lumi \in [Lumis -> Handler]
      /\ dqm' = [dqm EXCEPT !.cur = {}, !.counts = NoCounts]
      /\ UNCHANGED <<main, ledger, errors, proc, grab, valid, torn, buEols>>
  BY DEF Course, LumiTypeOK, DqmDone
<1>2. PICK m \in dqm.cur :
        /\ lumi' = [lumi EXCEPT ![m.ls].out[m.stream] = Merged(@, dqm.counts)]
        /\ queue' = Append(queue, Ev("merged", m.ls, NoPid, m.stream, 0))
  BY DEF DqmDone
<1> DEFINE l == m.ls
           s == m.stream
           h == lumi[l]
           c == dqm.counts
           o == Merged(h.out[s], c)
           b == [h.out EXCEPT ![s] = o]
           g == [h EXCEPT !.out = b]
<1>3. l \in Lumis /\ s \in Streams
  BY <1>1 DEF DqmState, Merge
<1>4. h \in Handler /\ h.out \in [Streams -> OutFile] /\ h.out[s] \in OutFile
  BY <1>1, <1>3, HandlerFields
<1>5. /\ o \in OutFile /\ o.open = h.out[s].open /\ o.stage = h.out[s].stage /\ o.pb = h.out[s].pb
      /\ o.proc = c.proc /\ o.err = c.err /\ c.proc \in Nat /\ c.err \in Nat
  <2> DEFINE w == h.out[s]
  <2>1. w \in OutFile /\ c \in [proc : Nat, err : Nat]
    BY <1>1, <1>4 DEF DqmState
  <2>a. o = Merged(w, c)
    OBVIOUS
  <2> HIDE DEF o, w, c
  <2>2. /\ o \in OutFile /\ o.open = w.open /\ o.stage = w.stage /\ o.pb = w.pb
        /\ o.proc = c.proc /\ o.err = c.err
    BY <2>1, <2>a, CountsFields
  <2> QED  BY <2>1, <2>2 DEF w
<1>6. lumi' = [lumi EXCEPT ![l] = g]
  BY <1>1, <1>2, <1>3, <1>4 DEF Handler
<1> HIDE DEF o
<1>7. b \in [Streams -> OutFile] /\ b[s] = o /\ \A u \in Streams \ {s} : b[u] = h.out[u]
  BY <1>3, <1>4, <1>5
<1> HIDE DEF b
<1>8. g = [h EXCEPT !.out = b]
  OBVIOUS
<1>9. Passes(0)
  <2>1. Ev("merged", l, NoPid, s, 0) \in FileEvent
    BY <1>3, EventsTyped
  <2>2. Ev("merged", l, NoPid, s, 0).kind \notin FileKinds
    BY DEF Ev, FileKinds
  <2> QED  BY <1>1, <1>2, <2>1, <2>2, AddedPasses
<1> HIDE DEF g
<1>10. g \in Handler /\ Kept(g, h) /\ g.total = h.total /\ g.raw = h.raw /\ g.pid = h.pid /\ g.out = b
  <2> HIDE DEF h
  <2> QED  BY <1>4, <1>7, <1>8, OutFields
<1>11. Returned(h, g, s, c)
  <2> HIDE DEF h, s, c
  <2> QED  BY <1>5, <1>7, <1>10 DEF Returned
<1>12. lumi'[l] = g /\ \A k \in Lumis \ {l} : lumi'[k] = lumi[k]
  BY <1>1, <1>3, <1>6
<1>13. dqm'.cur = {} /\ dqm'.q = dqm.q
  BY <1>1 DEF DqmState
<1>14. \E e \in MergedFiles(l, s) : Shifted(Pend, Pend', 0, <<e>>)
  <2>1. PICK e : e = Ev("merged", l, NoPid, s, 0)
    OBVIOUS
  <2>2. e \in FileEvent /\ e.kind = "merged" /\ e.ls = l /\ e.stream = s
    BY <1>3, <2>1, EventsTyped DEF Ev
  <2>3. queue' = Append(queue, e) /\ main'.buffer = main.buffer
    BY <1>1, <1>2, <2>1
  <2>4. Shifted(Pend, Pend', 0, <<e>>)
    BY <1>1, <2>2, <2>3, ReportShifts
  <2> QED  BY <2>2, <2>4 DEF MergedFiles
<1> QED  BY <1>1, <1>3, <1>5, <1>9, <1>10, <1>11, <1>12, <1>13, <1>14

LEMMA DqmDoneFiles ==
  ASSUME Course, FilesInv, DqmDone
  PROVE  FilesInv'
<1>1. /\ Passes(0) /\ UNCHANGED <<proc, grab, valid, torn, buEols>>
      /\ \E m \in dqm.cur, g \in Handler :
           /\ m.ls \in Lumis /\ lumi'[m.ls] = g /\ Returned(lumi[m.ls], g, m.stream, dqm.counts)
           /\ \A k \in Lumis \ {m.ls} : lumi'[k] = lumi[k]
  BY DqmEffect
<1>2. \A l \in Lumis : lumi'[l].pid = lumi[l].pid /\ lumi'[l].st = lumi[l].st
  BY <1>1 DEF Returned, Kept
<1>3. \A l \in Lumis : MergedKept(l) /\ Known(lumi'[l])
  BY <1>2 DEF MergedKept, Known, FilesInv
<1>4. Delivers(0)
  BY <1>3, NothingDelivered
<1> QED  BY <1>1, <1>3, <1>4, ScriptFiles

-----------------------------------------------------------------------------
(* The BU, the processes and hltd *)

\* What the processes have written is still true when some go on.
LEMMA MadeStays ==
  ASSUME Made, UNCHANGED <<valid, torn>>, buEols \subseteq buEols', proc \in [Pids -> ProcState],
         \A p \in Pids : \/ proc'[p] = proc[p]
                         \/ proc'[p].st \in {"ended", "died", "crashed"}
                         \/ proc[p].st = "new"
                         \/ /\ proc[p].st = "work" /\ proc'[p].st = "output"
                            /\ proc'[p].ls = proc[p].ls
  PROVE  Made'
<1> SUFFICES ASSUME NEW p \in Pids, NEW l \in Lumis PROVE MadeBy(p, l)'
  BY DEF Made
<1>1. MadeBy(p, l) /\ Files(l, p)' = Files(l, p)
  BY DEF Made, Files
<1>2. CASE proc'[p] = proc[p]
  BY <1>1, <1>2 DEF MadeBy
<1>3. CASE proc'[p].st \in {"ended", "died", "crashed"}
  BY <1>1, <1>3 DEF MadeBy
<1>4. CASE proc[p].st = "new"
  BY <1>1, <1>4 DEF MadeBy
<1>5. CASE /\ proc[p].st = "work" /\ proc'[p].st = "output" /\ proc'[p].ls = proc[p].ls
  BY <1>1, <1>5 DEF MadeBy
<1> QED  BY <1>2, <1>3, <1>4, <1>5

Quietly == \/ \E l \in Lumis : BuEnds(l)
           \/ \E p \in Pids : Begin(p) \/ Leave(p) \/ Die(p)
           \/ RunComplete \/ RunAborted

\* The steps of the BU, the processes and hltd after which there is no new file
\* of a process.
LEMMA QuietEffect ==
  ASSUME Course, Quietly
  PROVE  /\ Passes(0) /\ UNCHANGED scriptVars /\ UNCHANGED <<grab, valid, torn>>
         /\ buEols \subseteq buEols'
         /\ \A p \in Pids : \/ proc'[p] = proc[p]
                            \/ proc[p].st # "crashed" /\ proc'[p].st \in {"ended", "died"}
                            \/ proc[p].st = "new" /\ proc'[p].st = "work"
                            \/ /\ proc[p].st = "work" /\ proc'[p].st = "output"
                               /\ proc'[p].ls = proc[p].ls
<1>1. /\ LumiTypeOK /\ main' = main /\ UNCHANGED scriptVars /\ UNCHANGED <<grab, valid, torn>>
      /\ buEols \subseteq buEols' /\ proc \in [Pids -> ProcState]
  BY DEF Quietly, Course, LumiTypeOK, BuEnds, Begin, Leave, Die, RunComplete, RunAborted, Report, scriptVars
<1>2. Passes(0)
  <2>1. CASE (\E l \in Lumis : BuEnds(l)) \/ \E p \in Pids : Begin(p) \/ Die(p)
    <3>1. queue' = queue
      BY <2>1 DEF BuEnds, Begin, Die
    <3> QED  BY <1>1, <3>1, AddedPasses
  <2>2. ASSUME NEW p \in Pids, Leave(p) PROVE Passes(0)
    <3>1. queue' = queue \/ WriteEoLS({Current(p)}, queue, queued)
      BY <2>2 DEF Leave
    <3>2. {Current(p)} \in SUBSET Lumis /\ queued \in SUBSET Lumis
      BY <1>1, <2>2 DEF Leave, LumiTypeOK
    <3> QED  BY <1>1, <3>1, <3>2, AddedPasses
  <2>3. CASE RunComplete \/ RunAborted
    <3> DEFINE e == Ev("complete", 0, NoPid, NoStream, 0)
               f == Ev("abort", 0, NoPid, NoStream, 0)
    <3>1. queue' = Append(queue, e) \/ queue' = Append(queue, f)
      BY <2>3 DEF RunComplete, RunAborted, Report
    <3>2. e.kind \notin FileKinds /\ f.kind \notin FileKinds
      BY DEF Ev, FileKinds
    <3>3. e \in FileEvent /\ f \in FileEvent
      BY EventsTyped
    <3> QED  BY <1>1, <3>1, <3>2, <3>3, AddedPasses
  <2> QED  BY <2>1, <2>2, <2>3 DEF Quietly
<1>3. ASSUME NEW p \in Pids
      PROVE  \/ proc'[p] = proc[p]
             \/ proc[p].st # "crashed" /\ proc'[p].st \in {"ended", "died"}
             \/ proc[p].st = "new" /\ proc'[p].st = "work"
             \/ /\ proc[p].st = "work" /\ proc'[p].st = "output" /\ proc'[p].ls = proc[p].ls
  <2>1. CASE \E l \in Lumis : BuEnds(l)
    BY <2>1 DEF BuEnds
  <2>2. ASSUME NEW q \in Pids, Begin(q) PROVE proc'[p] = proc[p] \/ (proc[p].st = "new" /\ proc'[p].st = "work")
    <3>1. proc' = [proc EXCEPT ![q].st = "work", ![q].ls = Cardinality(buEols) + 1] /\ proc[q].st = "new"
      BY <2>2 DEF Begin
    <3> QED  BY <1>1, <3>1 DEF ProcState
  <2>3. ASSUME NEW q \in Pids, Leave(q)
        PROVE  \/ proc'[p] = proc[p]
               \/ /\ proc[p].st = "work" /\ proc'[p].st = "output" /\ proc'[p].ls = proc[p].ls
    <3>1. proc' = [proc EXCEPT ![q].st = "output", ![q].out = {}] /\ proc[q].st = "work"
      BY <2>3 DEF Leave
    <3> QED  BY <1>1, <3>1 DEF ProcState
  <2>4. ASSUME NEW q \in Pids, Die(q)
        PROVE  proc'[p] = proc[p] \/ (proc[p].st # "crashed" /\ proc'[p].st = "died")
    <3>1. proc' = [proc EXCEPT ![q].st = "died"] /\ proc[q].st # "crashed"
      BY <2>4 DEF Die, Running
    <3> QED  BY <1>1, <3>1 DEF ProcState
  <2>5. CASE RunComplete
    <3>1. proc'[p] = [proc[p] EXCEPT !.st = IF @ = "new" THEN "ended" ELSE @]
      BY <2>5 DEF RunComplete
    <3> QED  BY <1>1, <3>1 DEF ProcState
  <2>6. CASE RunAborted
    <3>1. proc'[p] = [proc[p] EXCEPT !.st = IF @ = "crashed" THEN @ ELSE "ended"]
      BY <2>6 DEF RunAborted
    <3> QED  BY <1>1, <3>1 DEF ProcState
  <2> QED  BY <2>1, <2>2, <2>3, <2>4, <2>5, <2>6 DEF Quietly
<1> QED  BY <1>1, <1>2, <1>3

LEMMA QuietlyFiles ==
  ASSUME Course, FilesInv, Quietly
  PROVE  FilesInv'
<1>1. /\ Passes(0) /\ UNCHANGED scriptVars /\ UNCHANGED <<grab, valid, torn>>
      /\ buEols \subseteq buEols'
      /\ \A p \in Pids : \/ proc'[p] = proc[p]
                         \/ proc[p].st # "crashed" /\ proc'[p].st \in {"ended", "died"}
                         \/ proc[p].st = "new" /\ proc'[p].st = "work"
                         \/ /\ proc[p].st = "work" /\ proc'[p].st = "output"
                            /\ proc'[p].ls = proc[p].ls
  BY QuietEffect
<1>2. proc \in [Pids -> ProcState] /\ Made
  BY DEF Course, LumiTypeOK, FilesInv
<1>3. Made'
  BY <1>1, <1>2, MadeStays
<1>4. \A p \in Pids : Crashed(p)' <=> Crashed(p)
  BY <1>1 DEF Crashed
<1>5. \A l \in Lumis : MergedKept(l) /\ Known(lumi'[l])
  BY <1>1, SameKept DEF scriptVars
<1>6. Delivers(0)
  BY <1>5, NothingDelivered
<1> QED  BY <1>1, <1>3, <1>4, <1>5, <1>6, FilesPass

-----------------------------------------------------------------------------
(* A process writes a file *)

LEMMA FilesShift ==
  ASSUME Course, FilesInv, NEW k, NEW X, Shifted(Pend, Pend', k, X), FilesGrow, FilesAppear(k, X),
         Delivers(k), Made', \A l \in Lumis : Known(lumi'[l])
  PROVE  FilesInv'
<1>1. Pending'
  BY PendingShift DEF FilesInv
<1>2. \A l \in Lumis, p \in Pids : TakenOf(l, p)'
  BY TakenShift DEF FilesInv
<1> QED  BY <1>1, <1>2 DEF FilesInv

\* One file appears.
LEMMA FileShift ==
  ASSUME Course, FilesInv, NEW e, Shifted(Pend, Pend', 0, <<e>>), UNCHANGED scriptVars, FilesGrow,
         Made', e.kind # "index", IsTrue(e)', \A i \in DOMAIN Pend : Apart(Pend[i], e),
         \A p \in Pids : Crashed(p)' => Crashed(p) \/ e \in CrashFiles(p),
         \A l \in Lumis, p \in Pids, s \in Streams :
           /\ s \in torn'[l][p] => s \in torn[l][p] \/ e \in BadFiles(l, p, s)
           /\ s \in valid'[l][p] => s \in valid[l][p] \/ e \in JsonFiles(l, p, s)
  PROVE  FilesInv'
<1> DEFINE X == <<e>>
<1>1. DOMAIN X = {1} /\ X[1] = e
  OBVIOUS
<1>2. Shifted(Pend, Pend', 0, X)
  OBVIOUS
<1> HIDE DEF X
<1>3. \A Z : Waits(X, Z) <=> e \in Z
  BY <1>1 DEF Waits
<1>4. FilesAppear(0, X)
  <2>1. \A i \in DOMAIN X : IsTrue(X[i])' /\ (X[i].kind = "index" => X[i].ls \notin buEols)
    BY <1>1
  <2>2. \A i, j \in DOMAIN X : ~(i < j)
    BY <1>1
  <2> QED  BY <1>1, <1>3, <2>1, <2>2 DEF FilesAppear
<1>5. \A l \in Lumis : MergedKept(l) /\ Known(lumi'[l])
  BY SameKept DEF scriptVars
<1>6. Delivers(0)
  BY <1>5, NothingDelivered
<1> QED  BY <1>2, <1>4, <1>5, <1>6, FilesShift

LEMMA CrashReported ==
  ASSUME Course, NEW p \in Pids, ReportCrash(p), NEW e, e = Ev("crash", 0, p, NoStream, 0)
  PROVE  /\ Shifted(Pend, Pend', 0, <<e>>) /\ UNCHANGED scriptVars
         /\ UNCHANGED <<grab, valid, torn, buEols>>
         /\ proc[p].st = "died" /\ proc'[p].st = "crashed"
         /\ \A q \in Pids \ {p} : proc'[q] = proc[q]
         /\ e \in CrashFiles(p) /\ e.kind = "crash" /\ e.pid = p
<1>1. /\ LumiTypeOK /\ main' = main /\ proc \in [Pids -> ProcState] /\ UNCHANGED scriptVars
      /\ UNCHANGED <<grab, valid, torn, buEols>> /\ proc[p].st = "died"
      /\ proc' = [proc EXCEPT ![p].st = "crashed"] /\ queue' = Append(queue, e)
  BY DEF Course, LumiTypeOK, ReportCrash, Report, scriptVars
<1>2. e \in FileEvent
  BY EventsTyped
<1>3. e.kind = "crash" /\ e.pid = p
  BY DEF Ev
<1>4. Shifted(Pend, Pend', 0, <<e>>)
  BY <1>1, <1>2, ReportShifts
<1>5. proc'[p].st = "crashed" /\ \A q \in Pids \ {p} : proc'[q] = proc[q]
  BY <1>1 DEF ProcState
<1> QED  BY <1>1, <1>2, <1>3, <1>4, <1>5 DEF CrashFiles

LEMMA ReportCrashFiles ==
  ASSUME Course, FilesInv, NEW p \in Pids, ReportCrash(p)
  PROVE  FilesInv'
<1> DEFINE e == Ev("crash", 0, p, NoStream, 0)
<1>1. /\ Shifted(Pend, Pend', 0, <<e>>) /\ UNCHANGED scriptVars
      /\ UNCHANGED <<grab, valid, torn, buEols>>
      /\ proc[p].st = "died" /\ proc'[p].st = "crashed"
      /\ \A q \in Pids \ {p} : proc'[q] = proc[q]
      /\ e \in CrashFiles(p) /\ e.kind = "crash" /\ e.pid = p
  BY CrashReported
<1> HIDE DEF e
<1>2. proc \in [Pids -> ProcState] /\ Made /\ Events
  BY DEF Course, LumiTypeOK, FilesInv
<1>3. \A q \in Pids : proc'[q] = proc[q] \/ proc'[q].st \in {"ended", "died", "crashed"}
  BY <1>1
<1>4. Made'
  BY <1>1, <1>2, <1>3, MadeStays
<1>5. FilesGrow
  BY <1>1 DEF FilesGrow, Crashed
<1>6. IsTrue(e)'
  BY <1>1 DEF IsTrue, Crashed
<1>7. ASSUME NEW i \in DOMAIN Pend, NEW f, f = Pend[i] PROVE Apart(f, e)
  <2>1. IsTrue(f) /\ WellFormed(f)
    BY <1>2, <1>7 DEF FilesInv, Pending, Events
  <2> QED  BY <1>1, <2>1 DEF IsTrue, Crashed, Apart
<1>8. \A q \in Pids : Crashed(q)' => Crashed(q) \/ e \in CrashFiles(q)
  BY <1>1 DEF Crashed
<1> QED  BY <1>1, <1>4, <1>5, <1>6, <1>7, <1>8, FileShift

\* f1 is f with one more stream for process p in lumisection l.
Gains(f, f1, l, p, s) ==
  /\ f1[l][p] = f[l][p] \union {s}
  /\ \A k \in Lumis, q \in Pids : k # l \/ q # p => f1[k][q] = f[k][q]

LEMMA GainsOne ==
  ASSUME NEW f \in [Lumis -> [Pids -> SUBSET Streams]], NEW l \in Lumis, NEW p \in Pids, NEW s,
         NEW f1, f1 = [f EXCEPT ![l][p] = @ \union {s}]
  PROVE  Gains(f, f1, l, p, s)
<1> DEFINE r == [f[l] EXCEPT ![p] = f[l][p] \union {s}]
<1>1. f1 = [f EXCEPT ![l] = r]
  OBVIOUS
<1>2. r[p] = f[l][p] \union {s} /\ \A q \in Pids : q # p => r[q] = f[l][q]
  OBVIOUS
<1> HIDE DEF r
<1>3. \A k \in Lumis : f1[k] = IF k = l THEN r ELSE f[k]
  BY <1>1
<1> QED  BY <1>2, <1>3 DEF Gains

\* Process p writes the file of stream s for lumisection l.
WritesOne(p, s, l, n) ==
  /\ l \in Lumis /\ l \in buEols /\ n \in Nat
  /\ UNCHANGED scriptVars /\ UNCHANGED <<grab, buEols>>
  /\ proc[p].st = "output" /\ proc[p].ls = l /\ s \notin proc[p].out
  /\ \A q \in Pids \ {p} : proc'[q] = proc[q]
  /\ \/ /\ proc'[p].st = "output" /\ proc'[p].ls = l
        /\ proc'[p].out = proc[p].out \union {s}
     \/ /\ proc'[p].st \in {"work", "ended"} /\ proc'[p].ls = l + 1
        /\ proc[p].out \union {s} = Streams
  /\ \E e \in FileEvent :
       /\ Shifted(Pend, Pend', 0, <<e>>) /\ e.ls = l /\ e.pid = p /\ e.stream = s
       /\ \/ /\ e.kind = "json" /\ e.n = n /\ Gains(valid, valid', l, p, s)
             /\ torn' = torn
          \/ e.kind = "bad" /\ Gains(torn, torn', l, p, s) /\ valid' = valid

LEMMA OutputFacts ==
  ASSUME Course, NEW p \in Pids, NEW s \in Streams, Output(p, s), NEW l, l = Current(p),
         NEW n, n = grab[l][p]
  PROVE  WritesOne(p, s, l, n)
<1>1. /\ LumiTypeOK /\ UNCHANGED scriptVars /\ UNCHANGED <<grab, buEols>> /\ main' = main
      /\ proc[p].st = "output" /\ proc[p].ls = l /\ s \notin proc[p].out
      /\ proc \in [Pids -> ProcState]
  BY DEF Course, LumiTypeOK, Output, scriptVars, Current
<1>2. l \in Lumis /\ l \in buEols
  BY <1>1 DEF Course, LumisEnded, LumiTypeOK
<1>3. n \in Nat
  BY <1>1, <1>2 DEF LumiTypeOK
<1>4. /\ \A q \in Pids \ {p} : proc'[q] = proc[q]
      /\ \/ /\ proc'[p].st = "output" /\ proc'[p].ls = l
            /\ proc'[p].out = proc[p].out \union {s}
         \/ /\ proc'[p].st \in {"work", "ended"} /\ proc'[p].ls = l + 1
            /\ proc[p].out \union {s} = Streams
  <2> DEFINE done == proc[p].out \union {s}
             w == proc[p]
             y == [st |-> IF l = NLumis THEN "ended" ELSE "work", ls |-> l + 1, out |-> {}]
             z == [w EXCEPT !.out = done]
             x == IF done # Streams THEN z ELSE y
  <2>1. proc' = [proc EXCEPT ![p] = x]
    BY DEF Output
  <2>2. y.st \in {"work", "ended"} /\ y.ls = l + 1
    OBVIOUS
  <2>3. w \in ProcState /\ w.st = "output" /\ w.ls = l
    BY <1>1
  <2> HIDE DEF done, w
  <2>4. z.st = "output" /\ z.ls = l /\ z.out = done
    BY <2>3 DEF ProcState
  <2>5. x = z \/ (x = y /\ done = Streams)
    OBVIOUS
  <2> HIDE DEF x, y, z
  <2>6. proc'[p] = x /\ \A q \in Pids \ {p} : proc'[q] = proc[q]
    BY <1>1, <2>1
  <2> QED  BY <2>2, <2>4, <2>5, <2>6 DEF done
<1>5. /\ valid \in [Lumis -> [Pids -> SUBSET Streams]]
      /\ torn \in [Lumis -> [Pids -> SUBSET Streams]]
  BY <1>1 DEF LumiTypeOK
<1>6. \/ /\ queue' = Append(queue, Ev("json", l, p, s, n)) /\ torn' = torn
         /\ valid' = [valid EXCEPT ![l][p] = @ \union {s}]
      \/ /\ queue' = Append(queue, Ev("bad", l, p, s, 0)) /\ valid' = valid
         /\ torn' = [torn EXCEPT ![l][p] = @ \union {s}]
  BY DEF Output, Report
<1>7. CASE /\ queue' = Append(queue, Ev("json", l, p, s, n)) /\ torn' = torn
           /\ valid' = [valid EXCEPT ![l][p] = @ \union {s}]
  <2> DEFINE e == Ev("json", l, p, s, n)
  <2>1. e \in FileEvent
    BY <1>2, <1>3, EventsTyped
  <2>2. e.kind = "json" /\ e.n = n /\ e.ls = l /\ e.pid = p /\ e.stream = s
    BY DEF Ev
  <2> HIDE DEF e
  <2>3. Shifted(Pend, Pend', 0, <<e>>)
    BY <1>1, <1>7, <2>1, ReportShifts DEF e
  <2>4. Gains(valid, valid', l, p, s)
    BY <1>2, <1>5, <1>7, GainsOne
  <2> QED  BY <1>1, <1>2, <1>3, <1>4, <1>7, <2>1, <2>2, <2>3, <2>4 DEF WritesOne
<1>8. CASE /\ queue' = Append(queue, Ev("bad", l, p, s, 0)) /\ valid' = valid
           /\ torn' = [torn EXCEPT ![l][p] = @ \union {s}]
  <2> DEFINE e == Ev("bad", l, p, s, 0)
  <2>1. e \in FileEvent
    BY <1>2, <1>3, EventsTyped
  <2>2. e.kind = "bad" /\ e.ls = l /\ e.pid = p /\ e.stream = s
    BY DEF Ev
  <2> HIDE DEF e
  <2>3. Shifted(Pend, Pend', 0, <<e>>)
    BY <1>1, <1>8, <2>1, ReportShifts DEF e
  <2>4. Gains(torn, torn', l, p, s)
    BY <1>2, <1>5, <1>8, GainsOne
  <2> QED  BY <1>1, <1>2, <1>3, <1>4, <1>8, <2>1, <2>2, <2>3, <2>4 DEF WritesOne
<1> QED  BY <1>6, <1>7, <1>8

LEMMA OutputFiles ==
  ASSUME Course, FilesInv, NEW p \in Pids, NEW s \in Streams, Output(p, s)
  PROVE  FilesInv'
<1>a. PICK l : l = Current(p)
  OBVIOUS
<1>b. PICK n : n = grab[l][p]
  OBVIOUS
<1>0. WritesOne(p, s, l, n)
  BY <1>a, <1>b, OutputFacts
<1>1. /\ l \in Lumis /\ l \in buEols /\ n \in Nat
      /\ UNCHANGED scriptVars /\ UNCHANGED <<grab, buEols>>
      /\ proc[p].st = "output" /\ proc[p].ls = l /\ s \notin proc[p].out
      /\ \A q \in Pids \ {p} : proc'[q] = proc[q]
      /\ \/ /\ proc'[p].st = "output" /\ proc'[p].ls = l
            /\ proc'[p].out = proc[p].out \union {s}
         \/ proc'[p].st \in {"work", "ended"} /\ proc'[p].ls = l + 1
      /\ \E e \in FileEvent :
           /\ Shifted(Pend, Pend', 0, <<e>>) /\ e.ls = l /\ e.pid = p /\ e.stream = s
           /\ \/ /\ e.kind = "json" /\ e.n = n /\ Gains(valid, valid', l, p, s)
                 /\ torn' = torn
              \/ e.kind = "bad" /\ Gains(torn, torn', l, p, s) /\ valid' = valid
  BY <1>0 DEF WritesOne
<1>2. PICK e \in FileEvent :
           /\ Shifted(Pend, Pend', 0, <<e>>) /\ e.ls = l /\ e.pid = p /\ e.stream = s
           /\ \/ /\ e.kind = "json" /\ e.n = n /\ Gains(valid, valid', l, p, s)
                 /\ torn' = torn
              \/ e.kind = "bad" /\ Gains(torn, torn', l, p, s) /\ valid' = valid
  BY <1>1
<1>3. /\ s \notin valid[l][p] /\ s \notin torn[l][p] /\ lumi[l].pid[p].merged \subseteq valid[l][p]
      /\ \A k \in Lumis : MadeBy(p, k)
  BY <1>1 DEF FilesInv, Made, MadeBy, Files, TakenOf
<1>4. \A k \in Lumis, q \in Pids :
        IF k = l /\ q = p THEN Files(k, q)' = Files(k, q) \union {s}
        ELSE valid'[k][q] = valid[k][q] /\ torn'[k][q] = torn[k][q]
  BY <1>2 DEF Gains, Files
<1>5. valid'[l][p] \cap torn'[l][p] = {}
  BY <1>1, <1>2, <1>3 DEF Gains, MadeBy
<1>6. Made'
  <2> SUFFICES ASSUME NEW q \in Pids, NEW k \in Lumis PROVE MadeBy(q, k)'
    BY DEF Made
  <2>1. MadeBy(q, k)
    BY DEF FilesInv, Made
  <2>2. CASE q # p
    BY <1>1, <1>4, <2>1, <2>2 DEF MadeBy, Files
  <2>3. CASE q = p /\ k # l
    <3>1. valid'[k][p] = valid[k][p] /\ torn'[k][p] = torn[k][p] /\ Files(k, p)' = Files(k, p)
      BY <1>4, <2>3 DEF Files
    <3>2. k \in Nat /\ l \in Nat /\ (k >= l + 1 => k > l)
      BY <1>1, LumisFinite
    <3>3. k > l => Files(k, p) = {}
      BY <1>1, <2>1, <2>3 DEF MadeBy
    <3>4. k > l + 1 \/ k = l + 1 => k > l
      BY <3>2
    <3> QED  BY <1>1, <2>1, <2>3, <3>1, <3>3, <3>4 DEF MadeBy
  <2>4. CASE q = p /\ k = l
    <3>1. Files(l, p)' = Files(l, p) \union {s} /\ Files(l, p) \subseteq proc[p].out
      BY <1>1, <1>3, <1>4 DEF MadeBy
    <3>2. ~(l > l) /\ ~(l > l + 1) /\ l # l + 1
      BY <1>1, LumisFinite
    <3> QED  BY <1>1, <1>5, <2>4, <3>1, <3>2 DEF MadeBy
  <2> QED  BY <2>2, <2>3, <2>4
<1>7. FilesGrow
  BY <1>1, <1>2 DEF FilesGrow, Crashed, Gains
<1>8. IsTrue(e)'
  BY <1>b, <1>1, <1>2, <1>3 DEF IsTrue, Crashed, Gains, scriptVars
<1>9. ASSUME NEW i \in DOMAIN Pend, NEW f, f = Pend[i] PROVE Apart(f, e)
  <2>1. IsTrue(f)
    BY <1>9 DEF FilesInv, Pending
  <2> QED  BY <1>1, <1>2, <1>3, <2>1 DEF IsTrue, Crashed, Apart
<1>10. \A q \in Pids : Crashed(q)' => Crashed(q)
  BY <1>1 DEF Crashed
<1>11. \A k \in Lumis, q \in Pids, u \in Streams :
         /\ u \in torn'[k][q] => u \in torn[k][q] \/ e \in BadFiles(k, q, u)
         /\ u \in valid'[k][q] => u \in valid[k][q] \/ e \in JsonFiles(k, q, u)
  BY <1>2 DEF Gains, BadFiles, JsonFiles
<1>12. e.kind # "index"
  BY <1>2
<1> QED  BY <1>1, <1>2, <1>6, <1>7, <1>8, <1>9, <1>10, <1>11, <1>12, FileShift

LEMMA GrabFiles ==
  ASSUME Course, FilesInv, NEW p \in Pids, Grab(p)
  PROVE  FilesInv'
<1>a. PICK l : l = Current(p)
  OBVIOUS
<1>1. /\ l \in Lumis /\ l \notin buEols
      /\ \A q \in Pids \ {p} : grab'[l][q] = grab[l][q]
      /\ \A k \in Lumis \ {l} : grab'[k] = grab[k]
      /\ \E X \in Seq(FileEvent) : ReadsOne(l, p, X)
  BY <1>a, GrabFacts
<1>2. PICK X \in Seq(FileEvent) :
           /\ Shifted(Pend, Pend', 0, X)
           /\ 1 \in DOMAIN X /\ X[1] \in IndexFiles(l, p)
           /\ \A i \in DOMAIN X : i # 1 => X[i].kind = "processing"
  BY <1>1 DEF ReadsOne
<1>3. /\ UNCHANGED scriptVars /\ UNCHANGED <<proc, valid, torn, buEols>> /\ proc[p].st = "work"
  BY DEF Grab, scriptVars
<1>4. Made' /\ MadeBy(p, l)
  BY <1>1, <1>3 DEF FilesInv, Made, MadeBy, Files
<1>5. FilesGrow
  <2>1. Files(l, p)' = {}
    BY <1>1, <1>3, <1>4 DEF MadeBy, Files
  <2>2. \A k \in Lumis, q \in Pids : grab'[k][q] = grab[k][q] \/ (k = l /\ q = p)
    BY <1>1
  <2> QED  BY <1>1, <1>3, <2>1, <2>2 DEF FilesGrow, Crashed
<1>6. \A i \in DOMAIN X : IF i = 1 THEN X[i].kind = "index" /\ X[i].ls = l /\ X[i].pid = p
                          ELSE X[i].kind = "processing"
  BY <1>2 DEF IndexFiles
<1>7. ~Crashed(p) /\ \A q \in Pids : Crashed(q)' <=> Crashed(q)
  BY <1>3 DEF Crashed
<1>8. ASSUME NEW i \in DOMAIN X PROVE IsTrue(X[i])' /\ (X[i].kind = "index" => X[i].ls \notin buEols)
  BY <1>1, <1>6, <1>3, <1>7 DEF IsTrue, Crashed
<1>9. \A i, j \in DOMAIN X : i < j => Apart(X[i], X[j])
  <2> SUFFICES ASSUME NEW i \in DOMAIN X, NEW j \in DOMAIN X PROVE Apart(X[i], X[j])
    OBVIOUS
  <2>1. X[i].kind \in {"index", "processing"}
    BY <1>6
  <2> QED  BY <2>1 DEF Apart
<1>10. ASSUME NEW i \in DOMAIN Pend, NEW j \in DOMAIN X, NEW f, f = Pend[i] PROVE Apart(f, X[j])
  <2>1. IsTrue(f)
    BY <1>10 DEF FilesInv, Pending
  <2>2. f.kind = "crash" => Crashed(f.pid)
    BY <2>1 DEF IsTrue
  <2>3. X[j].kind = "processing" \/ (X[j].kind = "index" /\ X[j].pid = p)
    BY <1>6
  <2> QED  BY <1>7, <2>2, <2>3 DEF Apart
<1>11. FilesAppear(0, X)
  BY <1>3, <1>7, <1>8, <1>9, <1>10 DEF FilesAppear
<1>12. \A k \in Lumis : MergedKept(k) /\ Known(lumi'[k])
  BY <1>3, SameKept DEF scriptVars
<1>13. Delivers(0)
  BY <1>12, NothingDelivered
<1> QED  BY <1>2, <1>4, <1>5, <1>11, <1>12, <1>13, FilesShift

-----------------------------------------------------------------------------
(* The invariant of the files *)

LEMMA FilesBegin == Init => FilesInv
<1> SUFFICES ASSUME Init PROVE FilesInv
  OBVIOUS
<1>1. /\ queue = <<>> /\ main.buffer = <<>> /\ buEols = {}
      /\ \A l \in Lumis : lumi[l] = NoHandler
      /\ \A p \in Pids : proc[p].st = "new"
      /\ \A l \in Lumis, p \in Pids : valid[l][p] = {} /\ torn[l][p] = {}
  BY DEF Init
<1>2. Made
  BY <1>1 DEF Made, MadeBy, Files
<1>3. Pend = <<>>
  BY <1>1 DEF Pend
<1>4. DOMAIN Pend = {}
  BY <1>3
<1>5. Pending
  BY <1>4 DEF Pending
<1>6. \A l \in Lumis : Known(lumi[l])
  BY <1>1, ClosedEmpty DEF Known
<1>7. \A l \in Lumis, p \in Pids : TakenOf(l, p)
  BY <1>1, ClosedEmpty DEF TakenOf
<1> QED  BY <1>2, <1>5, <1>6, <1>7 DEF FilesInv

LEMMA FilesGoOn ==
  ASSUME Course, Books, FilesInv, [Next]_lumiVars
  PROVE  FilesInv'
<1>1. CASE MainLoop
  BY <1>1, WaitingFiles, DropEarlyFiles, TakeIndexFiles, TakeEoLSFiles, TakeJsonFiles,
     TakeBadFiles, TakeCrashFiles, TakeMergedFiles, TakeOtherFiles DEF MainLoop
<1>2. CASE DqmMerger
  BY <1>2, WaitingFiles, DqmDoneFiles DEF DqmMerger
<1>3. CASE Outside
  <2>1. CASE Quietly
    BY <2>1, QuietlyFiles
  <2>2. CASE \E p \in Pids : Grab(p) \/ ReportCrash(p)
    BY <2>2, GrabFiles, ReportCrashFiles
  <2>3. CASE \E p \in Pids, s \in Streams : Output(p, s)
    BY <2>3, OutputFiles
  <2> QED  BY <1>3, <2>1, <2>2, <2>3 DEF Outside, Quietly
<1>4. CASE UNCHANGED lumiVars
  <2>1. /\ UNCHANGED <<queue, main, lumi, ledger, errors, proc, grab, valid, torn, buEols>>
    BY <1>4 DEF lumiVars
  <2>2. Pend' = Pend
    BY <2>1 DEF Pend
  <2>3. Passes(0)
    BY <2>2, PassesAny DEF Course, Events
  <2>4. \A l \in Lumis : MergedKept(l) /\ Known(lumi'[l])
    BY <2>1, SameKept
  <2>5. Delivers(0)
    BY <2>4, NothingDelivered
  <2> QED  BY <2>1, <2>3, <2>4, <2>5, ScriptFiles
<1> QED  BY <1>1, <1>2, <1>3, <1>4 DEF Next

-----------------------------------------------------------------------------
(* How many of the events are those of some processes *)

SharedFiles(c, Q) == {f \in FilesOf(c) : f[1] \in Q}
Share(c, Q) == Cardinality(SharedFiles(c, Q))

LEMMA ShareFinite ==
  ASSUME NEW c, NEW Q
  PROVE  /\ IsFiniteSet(SharedFiles(c, Q)) /\ Share(c, Q) \in Nat
         /\ Share(c, Q) <= Cardinality(FilesOf(c))
<1>1. SharedFiles(c, Q) \in SUBSET FilesOf(c)
  BY DEF SharedFiles
<1>2. IsFiniteSet(SharedFiles(c, Q)) /\ Cardinality(SharedFiles(c, Q)) <= Cardinality(FilesOf(c))
  BY <1>1, FilesFinite, FS_Subset
<1> QED  BY <1>2, FS_CardinalityType DEF Share

LEMMA ShareMore ==
  ASSUME NEW c, NEW d, NEW Q, NEW R, Q \subseteq R, c \in [Pids -> Nat], d \in [Pids -> Nat],
         \A p \in Q : p \in Pids => c[p] <= d[p]
  PROVE  Share(c, Q) <= Share(d, R)
<1>1. ASSUME NEW f \in SharedFiles(c, Q) PROVE f \in SharedFiles(d, R)
  <2>1. f \in Pids \X (1 .. Max["files"]) /\ f[2] <= c[f[1]] /\ f[1] \in Q
    BY DEF SharedFiles, FilesOf
  <2>2. f[1] \in Pids /\ f[2] \in Nat
    BY <2>1, MaxTyped
  <2>3. c[f[1]] \in Nat /\ d[f[1]] \in Nat /\ c[f[1]] <= d[f[1]]
    BY <2>1, <2>2
  <2>4. f[2] <= d[f[1]]
    BY <2>1, <2>2, <2>3
  <2> QED  BY <2>1, <2>4 DEF SharedFiles, FilesOf
<1>2. SharedFiles(c, Q) \in SUBSET SharedFiles(d, R)
  BY <1>1
<1> QED  BY <1>2, ShareFinite, FS_Subset DEF Share

\* The share depends on what these processes have read only.
LEMMA ShareSame ==
  ASSUME NEW c \in [Pids -> Nat], NEW d \in [Pids -> Nat], NEW Q, \A p \in Q : p \in Pids => c[p] = d[p]
  PROVE  Share(c, Q) = Share(d, Q)
<1>1. Share(c, Q) <= Share(d, Q) /\ Share(d, Q) <= Share(c, Q)
  BY ShareMore
<1> QED  BY <1>1, ShareFinite

LEMMA ShareNone ==
  ASSUME NEW c \in [Pids -> Nat], NEW Q, \A p \in Q : p \in Pids => c[p] = 0
  PROVE  Share(c, Q) = 0
<1>1. SharedFiles(c, Q) = {}
  <2> SUFFICES ASSUME NEW f \in SharedFiles(c, Q) PROVE FALSE
    OBVIOUS
  <2>1. f \in Pids \X (1 .. Max["files"]) /\ f[2] <= c[f[1]] /\ f[1] \in Q
    BY DEF SharedFiles, FilesOf
  <2>2. f[1] \in Pids /\ f[2] \in 1 .. Max["files"] /\ c[f[1]] = 0
    BY <2>1
  <2> QED  BY <2>1, <2>2, MaxTyped
<1> QED  BY <1>1, FS_EmptySet DEF Share

LEMMA ShareParts ==
  ASSUME NEW c, NEW Q, NEW R, Q \cap R = {}
  PROVE  /\ Share(c, Q \union R) = Share(c, Q) + Share(c, R)
         /\ Share(c, Q) + Share(c, R) <= Cardinality(FilesOf(c))
<1> DEFINE A == SharedFiles(c, Q)
           B == SharedFiles(c, R)
<1>1. A \union B = SharedFiles(c, Q \union R) /\ A \cap B = {}
  BY DEF SharedFiles
<1>2. IsFiniteSet(A) /\ IsFiniteSet(B)
  BY ShareFinite
<1> HIDE DEF A, B
<1>3. Cardinality(A \union B) = Cardinality(A) + Cardinality(B) - Cardinality(A \cap B)
  BY <1>2, FS_Union
<1>4. Cardinality(A) \in Nat /\ Cardinality(B) \in Nat /\ Cardinality({}) = 0
  BY <1>2, FS_CardinalityType, FS_EmptySet
<1>5. Share(c, Q) = Cardinality(A) /\ Share(c, R) = Cardinality(B)
  BY DEF Share, A, B
<1>6. Share(c, Q \union R) = Cardinality(A \union B)
  BY <1>1 DEF Share
<1>7. Cardinality(A \union B) = Cardinality(A) + Cardinality(B)
  <2>1. Cardinality(A \cap B) = 0
    BY <1>1, <1>4
  <2> QED  BY <1>3, <1>4, <2>1
<1>8. Share(c, Q \union R) = Share(c, Q) + Share(c, R)
  BY <1>5, <1>6, <1>7
<1>9. Share(c, Q \union R) <= Cardinality(FilesOf(c))
  BY ShareFinite
<1> QED  BY <1>8, <1>9

LEMMA ShareOne ==
  ASSUME NEW c \in [Pids -> Nat], NEW p \in Pids, c[p] <= Max["files"]
  PROVE  Share(c, {p}) = c[p]
<1> DEFINE A == 1 .. c[p]
           B == SharedFiles(c, {p})
           g == [i \in A |-> <<p, i>>]
<1>1. g \in [A -> B]
  BY MaxTyped DEF SharedFiles, FilesOf
<1>2. \A i, j \in A : g[i] = g[j] => i = j
  OBVIOUS
<1>3. \A f \in B : \E i \in A : g[i] = f
  <2> SUFFICES ASSUME NEW f \in B PROVE \E i \in A : g[i] = f
    OBVIOUS
  <2>1. f \in Pids \X (1 .. Max["files"]) /\ f[2] <= c[f[1]] /\ f[1] = p
    BY DEF SharedFiles, FilesOf
  <2>2. f = <<p, f[2]>> /\ f[2] \in 1 .. Max["files"]
    BY <2>1
  <2>3. f[2] \in A
    BY <2>1, <2>2, MaxTyped
  <2> QED  BY <2>2, <2>3
<1>4. IsFiniteSet(A) /\ Cardinality(A) = c[p]
  BY FS_Interval
<1> HIDE DEF A, B, g
<1>5. g \in Injection(A, B) /\ g \in Surjection(A, B)
  BY <1>1, <1>2, <1>3 DEF Injection, IsInjective, Surjection
<1>6. Cardinality(B) = Cardinality(A)
  BY <1>4, <1>5, FS_Surjection
<1> QED  BY <1>4, <1>6 DEF Share, B

LEMMA ShareAdded ==
  ASSUME NEW c \in [Pids -> Nat], NEW p \in Pids, c[p] <= Max["files"], NEW Q, p \notin Q
  PROVE  Share(c, Q \union {p}) = Share(c, Q) + c[p]
<1>1. Q \cap {p} = {}
  OBVIOUS
<1>2. Share(c, Q \union {p}) = Share(c, Q) + Share(c, {p})
  BY <1>1, ShareParts
<1>3. Share(c, {p}) = c[p]
  BY ShareOne
<1> QED  BY <1>2, <1>3

\* When these processes have read all events, no other has read one.
LEMMA ShareAll ==
  ASSUME NEW c \in [Pids -> Nat], NEW Q, Share(c, Q) = Cardinality(FilesOf(c)),
         NEW p \in Pids, c[p] <= Max["files"], c[p] > 0
  PROVE  p \in Q
<1> SUFFICES ASSUME p \notin Q PROVE FALSE
  OBVIOUS
<1>1. SharedFiles(c, Q) \in SUBSET FilesOf(c)
  BY DEF SharedFiles
<1>2. SharedFiles(c, Q) = FilesOf(c)
  BY <1>1, FilesFinite, FS_Subset DEF Share
<1> DEFINE f == <<p, 1>>
<1>3. f \in FilesOf(c) /\ f[1] = p
  BY MaxTyped DEF FilesOf
<1> HIDE DEF f
<1> QED  BY <1>2, <1>3 DEF SharedFiles

-----------------------------------------------------------------------------
(* Crash files that were taken *)

\* The processes whose crash files were taken.
Gone == {p \in Pids : Crashed(p) /\ ~Waits(Pend, CrashFiles(p))}

LEMMA WaitsPasses ==
  ASSUME NEW k, Passes(k), NEW Z, \A e \in Z : e.kind \in FileKinds
  PROVE  /\ Waits(Pend', Z) => Waits(Pend, Z)
         /\ Waits(Pend, Z) => Waits(Pend', Z) \/ IsHead(k, Z)
         /\ (\A i, j \in DOMAIN Pend : i < j => ~(Pend[i] \in Z /\ Pend[j] \in Z)) =>
              (IsHead(k, Z) => ~Waits(Pend', Z))
<1>1. PICK X \in Seq(FileEvent) :
        Shifted(Pend, Pend', k, X) /\ \A i \in DOMAIN X : X[i].kind \notin FileKinds
  BY DEF Passes
<1> DEFINE P == Pend
           Q == Pend'
<1>2. Shifted(P, Q, k, X)
  BY <1>1
<1>3. ~Waits(X, Z)
  BY <1>1 DEF Waits
<1> HIDE DEF P, Q
<1>4. /\ Waits(Q, Z) => Waits(P, Z)
      /\ Waits(P, Z) => Waits(Q, Z) \/ (k = 1 /\ 1 \in DOMAIN P /\ P[1] \in Z)
  BY <1>2, <1>3, WaitsShift
<1>5. ASSUME \A i, j \in DOMAIN P : i < j => ~(P[i] \in Z /\ P[j] \in Z),
             k = 1, 1 \in DOMAIN P, P[1] \in Z, Waits(Q, Z)
      PROVE  FALSE
  <2>1. PICK j \in DOMAIN Q : Q[j] \in Z
    BY <1>5 DEF Waits
  <2>2. j + k \in DOMAIN P /\ Q[j] = P[j + k]
    BY <1>2, <1>3, <2>1, ShiftedFrom DEF Waits
  <2>3. j \in Nat /\ j >= 1
    BY <1>2, <2>1, LenProperties DEF Shifted
  <2>4. 1 < j + k
    BY <1>5, <2>3
  <2> QED  BY <1>5, <2>1, <2>2, <2>4
<1> QED  BY <1>4, <1>5 DEF IsHead, P, Q

LEMMA CrashOnce ==
  ASSUME Pending, NEW p, NEW i \in DOMAIN Pend, NEW j \in DOMAIN Pend, i < j
  PROVE  ~(Pend[i] \in CrashFiles(p) /\ Pend[j] \in CrashFiles(p))
<1> SUFFICES ASSUME Pend[i] \in CrashFiles(p), Pend[j] \in CrashFiles(p) PROVE FALSE
  OBVIOUS
<1>1. Apart(Pend[i], Pend[j])
  BY DEF Pending
<1>2. Pend[i].kind = "crash" /\ Pend[i].pid = p /\ Pend[j].kind = "crash" /\ Pend[j].pid = p
  BY DEF CrashFiles
<1> QED  BY <1>1, <1>2 DEF Apart

\* Gone grows by the process of a crash file that is taken, and is the same otherwise.
LEMMA GonePasses ==
  ASSUME FilesInv, NEW k, Passes(k), \A p \in Pids : Crashed(p)' <=> Crashed(p)
  PROVE  /\ Gone \subseteq Gone'
         /\ \A p \in Pids : p \in Gone' => p \in Gone \/ IsHead(k, CrashFiles(p))
         /\ \A p \in Pids : IsHead(k, CrashFiles(p)) => p \in Gone' /\ p \notin Gone
<1> SUFFICES ASSUME NEW p \in Pids
             PROVE  /\ p \in Gone => p \in Gone'
                    /\ p \in Gone' => p \in Gone \/ IsHead(k, CrashFiles(p))
                    /\ IsHead(k, CrashFiles(p)) => p \in Gone' /\ p \notin Gone
  BY DEF Gone
<1>1. Pending
  BY DEF FilesInv
<1> DEFINE Z == CrashFiles(p)
<1>2. \A e \in Z : e.kind \in FileKinds
  BY DEF CrashFiles, FileKinds
<1>3. \A i, j \in DOMAIN Pend : i < j => ~(Pend[i] \in Z /\ Pend[j] \in Z)
  BY <1>1, CrashOnce
<1>4. Crashed(p)' <=> Crashed(p)
  OBVIOUS
<1>5. IsHead(k, Z) => Waits(Pend, Z)
  BY DEF IsHead, Waits
<1>6. IsHead(k, Z) => Crashed(p)
  BY <1>1 DEF IsHead, CrashFiles, Pending, IsTrue
<1>7. /\ p \in Gone <=> Crashed(p) /\ ~Waits(Pend, Z)
      /\ p \in Gone' <=> Crashed(p)' /\ ~Waits(Pend', Z)
  BY DEF Gone
<1> HIDE DEF Z
<1>8. /\ Waits(Pend', Z) => Waits(Pend, Z)
      /\ Waits(Pend, Z) => Waits(Pend', Z) \/ IsHead(k, Z)
      /\ IsHead(k, Z) => ~Waits(Pend', Z)
  BY <1>2, <1>3, WaitsPasses
<1>9. /\ p \in Gone => p \in Gone'
      /\ p \in Gone' => p \in Gone \/ IsHead(k, Z)
      /\ IsHead(k, Z) => p \in Gone' /\ p \notin Gone
  BY <1>4, <1>5, <1>6, <1>7, <1>8
<1> QED  BY <1>9 DEF Z

-----------------------------------------------------------------------------
(* Which events are in the error stream and which were processed *)

Filled(h) == h.st = "open" /\ ~h.empty
\* The processes that have delivered stream s.
Got(h, s) == {p \in Pids : s \in h.pid[p].merged}
\* Those of Q that have delivered no stream.
NotDelivered(h, Q) == {p \in Q : h.pid[p].merged = {}}

\* The events of the error stream are those of processes that are gone without
\* having delivered a stream, and the processed ones those of processes that
\* have delivered the stream.
Covered(h, row, gone) == Filled(h) =>
  /\ h.raw <= Share(Counts(h), NotDelivered(h, gone))
  /\ \A s \in Streams :
       /\ h.out[s].open => h.out[s].proc <= Share(Counts(h), Got(h, s))
       /\ ~h.out[s].open /\ row[s] # Unwritten => row[s].proc <= Share(Counts(h), Got(h, s))

ErrorsFit(h, row, e) ==
  /\ h.st # "closed" => e = 0
  /\ \A s \in Streams : row[s] # Unwritten => e <= row[s].err

Fits(l) == Covered(lumi[l], ledger[l], Gone) /\ ErrorsFit(lumi[l], ledger[l], errors[l])
CoverInv == \A l \in Lumis : Fits(l)

Row == [Streams -> [proc : Nat, err : Nat] \union {Unwritten}]

LEMMA RowTyped ==
  ASSUME NEW row \in Row, NEW s \in Streams, row[s] # Unwritten
  PROVE  row[s].proc \in Nat /\ row[s].err \in Nat
<1>1. row[s] \in [proc : Nat, err : Nat]
  BY DEF Row
<1> QED  BY <1>1

LEMMA CountsTyped ==
  ASSUME NEW h \in Handler
  PROVE  Counts(h) \in [Pids -> Nat] /\ \A p \in Pids : Counts(h)[p] = h.pid[p].n
BY HandlerFields DEF Counts

\* More processes are gone.
LEMMA CoveredMore ==
  ASSUME NEW h \in Handler, NEW row, NEW gone, NEW gone1, gone \subseteq gone1,
         Covered(h, row, gone)
  PROVE  Covered(h, row, gone1)
<1> DEFINE c == Counts(h)
<1>1. c \in [Pids -> Nat]
  BY CountsTyped
<1>2. \A p : p \in Pids => c[p] <= c[p]
  BY <1>1
<1>3. NotDelivered(h, gone) \subseteq NotDelivered(h, gone1)
  BY DEF NotDelivered
<1> HIDE DEF c
<1>4. Share(c, NotDelivered(h, gone)) <= Share(c, NotDelivered(h, gone1))
  BY <1>1, <1>2, <1>3, ShareMore
<1>5. h.raw \in Nat /\ \A Q : Share(c, Q) \in Nat
  BY HandlerFields, ShareFinite
<1>6. h.raw <= Share(c, NotDelivered(h, gone)) => h.raw <= Share(c, NotDelivered(h, gone1))
  BY <1>4, <1>5
<1> QED  BY <1>6 DEF Covered, c

\* The handler changes, but neither what was delivered nor the error stream.
LEMMA CoveredKept ==
  ASSUME NEW h \in Handler, NEW g \in Handler, NEW row \in Row, NEW gone, Covered(h, row, gone),
         g.st = h.st, g.empty = h.empty, g.raw = h.raw, gone \subseteq Pids,
         \A p \in Pids : g.pid[p].merged = h.pid[p].merged /\ h.pid[p].n <= g.pid[p].n,
         \A s \in Streams : g.out[s].open = h.out[s].open /\ g.out[s].proc <= h.out[s].proc
  PROVE  Covered(g, row, gone)
<1> DEFINE c == Counts(h)
           d == Counts(g)
<1>1. c \in [Pids -> Nat] /\ d \in [Pids -> Nat] /\ \A p \in Pids : c[p] <= d[p]
  BY CountsTyped
<1>2. /\ NotDelivered(g, gone) = NotDelivered(h, gone)
      /\ \A s : Got(g, s) = Got(h, s)
  BY DEF NotDelivered, Got
<1> HIDE DEF c, d
<1>3. \A Q : Share(c, Q) <= Share(d, Q)
  BY <1>1, ShareMore
<1>4. \A Q : Share(c, Q) \in Nat /\ Share(d, Q) \in Nat
  BY ShareFinite
<1> SUFFICES ASSUME Filled(g)
             PROVE  /\ g.raw <= Share(d, NotDelivered(g, gone))
                    /\ \A s \in Streams :
                         /\ g.out[s].open => g.out[s].proc <= Share(d, Got(g, s))
                         /\ ~g.out[s].open /\ row[s] # Unwritten => row[s].proc <= Share(d, Got(g, s))
  BY DEF Covered, d
<1>5. /\ h.raw <= Share(c, NotDelivered(h, gone))
      /\ \A s \in Streams :
           /\ h.out[s].open => h.out[s].proc <= Share(c, Got(h, s))
           /\ ~h.out[s].open /\ row[s] # Unwritten => row[s].proc <= Share(c, Got(h, s))
  BY DEF Covered, Filled, c
<1>6. g.raw <= Share(d, NotDelivered(g, gone))
  <2>1. h.raw \in Nat
    BY HandlerFields
  <2> QED  BY <1>2, <1>3, <1>4, <1>5, <2>1
<1>7. ASSUME NEW s \in Streams
      PROVE  /\ g.out[s].open => g.out[s].proc <= Share(d, Got(g, s))
             /\ ~g.out[s].open /\ row[s] # Unwritten => row[s].proc <= Share(d, Got(g, s))
  <2>1. h.out[s].proc \in Nat /\ g.out[s].proc \in Nat
    BY HandlerFields
  <2>2. /\ Share(c, Got(h, s)) <= Share(d, Got(g, s))
        /\ Share(c, Got(h, s)) \in Nat /\ Share(d, Got(g, s)) \in Nat
    BY <1>2, <1>3, <1>4
  <2>3. g.out[s].open => g.out[s].proc <= Share(d, Got(g, s))
    BY <1>5, <2>1, <2>2
  <2>4. row[s] # Unwritten => row[s].proc \in Nat
    BY RowTyped
  <2>5. ~g.out[s].open /\ row[s] # Unwritten => row[s].proc <= Share(d, Got(g, s))
    BY <1>5, <2>2, <2>4
  <2> QED  BY <2>3, <2>5
<1> QED  BY <1>6, <1>7

\* What a handler that settles has written fits.
LEMMA SettlesFits ==
  ASSUME NEW l, NEW h \in Handler, h.st = "open", Settles(l, h), NEW gone, gone \subseteq Pids,
         ledger[l] \in Row, ledger'[l] \in Row, Covered(h, ledger[l], gone), errors[l] = 0,
         NEW c \in [Pids -> Nat], h.eols /\ ~h.empty => Counts(h) = c,
         \A s \in Streams : ledger'[l][s] # Unwritten =>
           ledger'[l][s].proc + ledger'[l][s].err = Cardinality(FilesOf(c))
  PROVE  Covered(lumi'[l], ledger'[l], gone) /\ ErrorsFit(lumi'[l], ledger'[l], errors'[l])
<1> DEFINE row == ledger[l]
           row1 == ledger'[l]
<1>1. row \in Row /\ row1 \in Row /\ WrittenFor(h, row, row1)
  BY DEF Settles
<1>2. \A s \in ToWrite(h) : s \in Streams /\ h.out[s].open
  BY DEF ToWrite, Full
\* No more is processed than what was delivered.
<1>3. ASSUME Filled(h), NEW s \in Streams, row1[s] # Unwritten, ~h.out[s].open \/ s \in ToWrite(h)
      PROVE  row1[s].proc <= Share(Counts(h), Got(h, s))
  <2>1. CASE s \in ToWrite(h)
    <3>1. PICK b \in BOOLEAN : row1[s] = Entry(h.out[s], b)
      BY <1>1, <2>1 DEF WrittenFor
    <3>2. h.out[s] \in OutFile /\ h.out[s].proc \in Nat /\ h.out[s].open
      BY <1>2, <2>1, HandlerFields
    <3>3. row1[s].proc = IF b THEN 0 ELSE h.out[s].proc
      BY <3>1, <3>2, EntryTyped
    <3>4. row1[s].proc <= h.out[s].proc /\ row1[s].proc \in Nat
      BY <3>2, <3>3
    <3>5. h.out[s].proc <= Share(Counts(h), Got(h, s))
      BY <1>3, <3>2 DEF Covered
    <3> QED  BY <3>2, <3>4, <3>5, ShareFinite
  <2>2. CASE s \notin ToWrite(h)
    <3>1. row1[s] = row[s]
      BY <1>1, <2>2 DEF WrittenFor
    <3> QED  BY <1>3, <2>2, <3>1 DEF Covered
  <2> QED  BY <2>1, <2>2
<1>4. CASE Complete(h)
  <2>1. lumi'[l] = Closed /\ errors'[l] = h.raw
    BY <1>4, SettledTyped DEF Settles
  <2>2. Filled(h) /\ Counts(h) = c /\ \A s \in Streams : ~h.out[s].open \/ s \in ToWrite(h)
    BY <1>4 DEF Complete, Full, Filled
  <2>3. ASSUME NEW s \in Streams, row1[s] # Unwritten PROVE h.raw <= row1[s].err
    <3> DEFINE A == NotDelivered(h, gone)
               B == Got(h, s)
    <3>1. A \cap B = {}
      BY DEF NotDelivered, Got
    <3>2. row1[s].proc <= Share(c, B) /\ h.raw <= Share(c, A)
      BY <1>3, <2>2, <2>3 DEF Covered
    <3> HIDE DEF A, B
    <3>3. Share(c, A) + Share(c, B) <= Cardinality(FilesOf(c))
      BY <3>1, ShareParts
    <3>4. row1[s].proc \in Nat /\ row1[s].err \in Nat
      BY <1>1, <2>3, RowTyped
    <3>5. row1[s].proc + row1[s].err = Cardinality(FilesOf(c))
      BY <2>3
    <3>6. Share(c, A) \in Nat /\ Share(c, B) \in Nat /\ Cardinality(FilesOf(c)) \in Nat /\ h.raw \in Nat
      BY ShareFinite, FilesFinite, HandlerFields
    <3> HIDE DEF row1
    <3> QED  BY <3>2, <3>3, <3>4, <3>5, <3>6
  <2>4. Closed.st = "closed"
    BY NoHandlerTyped
  <2> QED  BY <2>1, <2>3, <2>4 DEF Covered, Filled, ErrorsFit
<1>5. CASE ~Complete(h)
  <2> DEFINE g == lumi'[l]
  <2>1. g = Settled(h) /\ errors'[l] = 0
    BY <1>5 DEF Settles
  <2> HIDE DEF g
  <2>2. /\ Kept(g, h) /\ g.raw = h.raw /\ g.pid = h.pid
        /\ \A s \in Streams : /\ g.out[s].open = (h.out[s].open /\ s \notin ToWrite(h))
                              /\ g.out[s].proc = h.out[s].proc
    BY <1>5, <2>1, SettledFields
  <2>3. /\ Counts(g) = Counts(h) /\ NotDelivered(g, gone) = NotDelivered(h, gone)
        /\ \A s : Got(g, s) = Got(h, s)
    BY <2>2 DEF Counts, NotDelivered, Got
  <2>4. Filled(g) => Filled(h)
    BY <2>2 DEF Filled, Kept
  <2>5. ASSUME NEW s \in Streams, row1[s] # Unwritten PROVE 0 <= row1[s].err
    BY <1>1, <2>5, RowTyped
  <2>6. Covered(g, row1, gone)
    BY <1>3, <2>2, <2>3, <2>4 DEF Covered
  <2>7. ErrorsFit(g, row1, errors'[l])
    BY <2>1, <2>5 DEF ErrorsFit
  <2> QED  BY <2>6, <2>7 DEF g
<1> QED  BY <1>4, <1>5

-----------------------------------------------------------------------------
(* The streams that are merged *)

\* A main loop that takes a file.
Takings == TakeIndex \/ TakeEoLS \/ TakeJson \/ TakeBad \/ TakeCrash \/ TakeMerged

\* Streams are merged after the lumisection has ended; the events that will be
\* processed are those of some processes that have delivered the stream.
Late(h, s) == h.st = "closed" \/ (Filled(h) /\ h.eols /\ h.out[s].stage >= 1)
Merging(h, s, n) ==
  h.st = "closed" \/ (Filled(h) /\ h.eols /\ \E P \in SUBSET Got(h, s) : n = Share(Counts(h), P))
MergedLate(m) == Late(lumi[m.ls], m.stream)
MergesInv == /\ \A m \in Merges : MergedLate(m)
             /\ \A m \in dqm.cur : Merging(lumi[m.ls], m.stream, dqm.counts.proc)

\* The handler h of a lumisection that has ended becomes g.
Continues(h, g) ==
  /\ h.st = "closed" => g.st = "closed"
  /\ Filled(h) /\ h.eols =>
       \/ g.st = "closed"
       \/ /\ Filled(g) /\ g.eols /\ g.total = h.total /\ Counts(g) = Counts(h)
          /\ \A p \in Pids : h.pid[p].merged \subseteq g.pid[p].merged
          /\ \A s \in Streams :
               /\ h.out[s].stage >= 1 => g.out[s].stage >= 1
               /\ g.out[s].open => h.out[s].open
StaysLate(l) == Continues(lumi[l], lumi'[l])

\* The same for a handler that has got a file and does not settle yet.
Goes(h, g) ==
  /\ g.st = h.st /\ g.empty = h.empty /\ (h.eols => g.eols) /\ g.total = h.total
  /\ \A p \in Pids : g.pid[p].n = h.pid[p].n /\ h.pid[p].merged \subseteq g.pid[p].merged
  /\ \A s \in Streams :
       /\ h.out[s].stage >= 1 => g.out[s].stage >= 1
       /\ g.out[s].open = h.out[s].open

LEMMA ReadByShare ==
  ASSUME NEW h, NEW P \in SUBSET Pids
  PROVE  ReadBy(h, P) = Share(Counts(h), P)
<1>1. {f \in P \X (1 .. Max["files"]) : f[2] <= h.pid[f[1]].n} = SharedFiles(Counts(h), P)
  <2>1. \A p \in Pids : Counts(h)[p] = h.pid[p].n
    BY DEF Counts
  <2> QED  BY <2>1 DEF SharedFiles, FilesOf
<1> QED  BY <1>1 DEF ReadBy, Share

LEMMA LateContinues ==
  ASSUME NEW h, NEW g, Continues(h, g)
  PROVE  /\ \A s \in Streams : Late(h, s) => Late(g, s)
         /\ \A s, n : Merging(h, s, n) => Merging(g, s, n)
<1>1. \A s \in Streams : Late(h, s) => Late(g, s)
  BY DEF Late, Continues
<1>2. ASSUME NEW s, NEW n, Merging(h, s, n) PROVE Merging(g, s, n)
  <2>1. CASE g.st = "closed"
    BY <2>1 DEF Merging
  <2>2. CASE g.st # "closed"
    <3>1. Filled(h) /\ h.eols
      BY <1>2, <2>2 DEF Merging, Continues
    <3>2. /\ Filled(g) /\ g.eols /\ Counts(g) = Counts(h)
          /\ \A p \in Pids : h.pid[p].merged \subseteq g.pid[p].merged
      BY <2>2, <3>1 DEF Continues
    <3>3. PICK P \in SUBSET Got(h, s) : n = Share(Counts(h), P)
      BY <1>2, <2>2 DEF Merging, Continues
    <3>4. P \in SUBSET Got(g, s) /\ n = Share(Counts(g), P)
      BY <3>2, <3>3 DEF Got
    <3> QED  BY <3>2, <3>4 DEF Merging
  <2> QED  BY <2>1, <2>2
<1> QED  BY <1>1, <1>2

LEMMA SettledLate ==
  ASSUME NEW h \in Handler, h.st = "open", NEW s \in Streams, Late(h, s) \/ s \in ToMerge(h)
  PROVE  Late(Settled(h), s)
<1>1. CASE Complete(h)
  <2>1. Settled(h).st = "closed"
    BY <1>1, SettledTyped, NoHandlerTyped
  <2> QED  BY <2>1 DEF Late
<1>2. CASE ~Complete(h)
  <2> DEFINE g == Settled(h)
  <2>1. Kept(g, h) /\ g.out[s].stage = IF s \in ToMerge(h) THEN 1 ELSE h.out[s].stage
    BY <1>2, SettledFields
  <2>2. Filled(h) /\ h.eols
    BY DEF Late, ToMerge, Full, Filled
  <2> HIDE DEF g
  <2>3. Filled(g) /\ g.eols /\ g.out[s].stage >= 1
    BY <2>1, <2>2 DEF Filled, Kept, Late
  <2> QED  BY <2>3 DEF Late, g
<1> QED  BY <1>1, <1>2

LEMMA ClosureMerges ==
  ASSUME Course, NEW S \in SUBSET Lumis, NEW hs \in [Lumis -> Handler], CheckClosure(S, hs),
         NEW m, m \in Merges', m \notin Merges
  PROVE  m.ls \in Lumis /\ Late(lumi'[m.ls], m.stream)
<1>1. /\ \A l \in Lumis : lumi'[l] = IF l \in S THEN Settled(hs[l]) ELSE lumi[l]
      /\ dqm'.cur = dqm.cur
      /\ \A i \in DOMAIN dqm'.q :
           \/ \E j \in DOMAIN dqm.q : dqm'.q[i] = dqm.q[j]
           \/ /\ dqm'.q[i].ls \in S
              /\ dqm'.q[i].stream \in ToMerge(hs[dqm'.q[i].ls])
  BY ClosureFacts, ZenonT(30) DEF Course
<1>2. m \in dqm'.cur \/ \E i \in DOMAIN dqm'.q : dqm'.q[i] = m
  BY DEF Merges
<1>3. m.ls \in S /\ m.stream \in ToMerge(hs[m.ls])
  BY <1>1, <1>2 DEF Merges
<1>4. PICK l \in S : l = m.ls
  BY <1>3
<1>5. PICK h \in Handler : h = hs[l]
  BY <1>4
<1>6. m.stream \in ToMerge(h) /\ lumi'[l] = Settled(h)
  BY <1>1, <1>3, <1>4, <1>5
<1>7. h.st = "open" /\ m.stream \in Streams
  BY <1>6 DEF ToMerge, Full
<1>8. Late(Settled(h), m.stream)
  BY <1>6, <1>7, SettledLate
<1> QED  BY <1>4, <1>6, <1>8

\* The main loop adds merges when it settles handlers.
Closing == \E S \in SUBSET Lumis, hs \in [Lumis -> Handler] : CheckClosure(S, hs)

LEMMA ConcludeCloses ==
  ASSUME Course, NEW l \in Lumis, NEW h \in Handler, Conclude(l, h)
  PROVE  Closing
<1>1. PICK hs : hs = [lumi EXCEPT ![l] = h]
  OBVIOUS
<1>2. hs \in [Lumis -> Handler]
  BY <1>1, ConcludeTyped
<1>3. CheckClosure({l}, hs)
  BY <1>1 DEF Conclude
<1> QED  BY <1>2, <1>3 DEF Closing

LEMMA TakingsClose ==
  ASSUME Course, Books, Takings
  PROVE  dqm' = dqm \/ Closing
<1>1. PICK l : l = Event.ls
  OBVIOUS
<1>2. PICK p : p = Event.pid
  OBVIOUS
<1>3. PICK s : s = Event.stream
  OBVIOUS
<1>4. PICK n : n = Event.n
  OBVIOUS
<1>5. /\ WellFormed(Event) /\ Started
  BY TakeMoves DEF Takings
<1>6. n \in Nat
  BY <1>4, <1>5 DEF WellFormed, FileEvent
<1>7. CASE TakeIndex
  <2>1. PICK h : h = IF Open(l) THEN lumi[l] ELSE NewHandler("index")
    OBVIOUS
  <2>2. PICK g : g = WithIndex(h, p, n)
    OBVIOUS
  <2>3. l \in Lumis /\ p \in Pids /\ h \in Handler
    BY <1>1, <1>2, <1>7, <2>1, IndexEffect
  <2>4. g \in Handler
    BY ONLY <1>6, <2>2, <2>3, IndexFields
  <2>5. Conclude(l, g)
    BY <1>1, <1>2, <1>4, <1>7, <2>1, <2>2 DEF TakeIndex
  <2> QED  BY <2>3, <2>4, <2>5, ConcludeCloses
<1>8. CASE TakeEoLS
  <2>1. PICK h : h = IF Open(l) THEN lumi[l] ELSE NewHandler("eols")
    OBVIOUS
  <2>2. PICK g : g = [h EXCEPT !.eols = TRUE]
    OBVIOUS
  <2>3. l \in Lumis
    BY <1>1, <1>5, <1>8 DEF TakeEoLS, WellFormed
  <2>4. h \in Handler
    BY <2>1, <2>3, HandlerOf
  <2>5. g \in Handler
    BY <2>2, <2>4, EolsFields
  <2>6. dqm' = dqm \/ Conclude(l, g)
    BY <1>1, <1>8, <2>1, <2>2 DEF TakeEoLS
  <2> QED  BY <2>3, <2>5, <2>6, ConcludeCloses
<1>9. CASE TakeJson
  <2>1. PICK h : h = IF Open(l) THEN lumi[l] ELSE NewHandler("json")
    OBVIOUS
  <2>2. PICK g : g = WithJson(h, p, s, n)
    OBVIOUS
  <2>3. l \in Lumis /\ p \in Pids /\ s \in Streams
    BY <1>1, <1>2, <1>3, <1>5, <1>9 DEF TakeJson, WellFormed
  <2>4. h \in Handler
    BY <2>1, <2>3, HandlerOf
  <2>5. g \in Handler
    BY ONLY <1>6, <2>2, <2>3, <2>4, JsonFields
  <2>6. dqm' = dqm \/ Conclude(l, g)
    BY <1>1, <1>2, <1>3, <1>4, <1>9, <2>1, <2>2 DEF TakeJson, Forward
  <2> QED  BY <2>3, <2>5, <2>6, ConcludeCloses
<1>10. CASE TakeBad
  <2>1. PICK h : h = lumi[l]
    OBVIOUS
  <2>2. PICK g : g = WithBad(h, p, s)
    OBVIOUS
  <2>3. l \in Lumis /\ p \in Pids /\ s \in Streams
    BY <1>1, <1>2, <1>3, <1>5, <1>10 DEF TakeBad, WellFormed
  <2>4. h \in Handler
    BY <2>1, <2>3, HandlerOf
  <2>5. g \in Handler
    BY ONLY <2>2, <2>3, <2>4, BadFields
  <2>6. dqm' = dqm \/ Conclude(l, g)
    BY <1>1, <1>2, <1>3, <1>10, <2>1, <2>2 DEF TakeBad
  <2> QED  BY <2>3, <2>5, <2>6, ConcludeCloses
<1>11. CASE TakeMerged
  <2>1. PICK h : h = lumi[l]
    OBVIOUS
  <2>2. PICK g : g = WithMerged(h, s)
    OBVIOUS
  <2>3. l \in Lumis /\ s \in Streams
    BY <1>1, <1>3, <1>5, <1>11 DEF TakeMerged, WellFormed
  <2>4. h \in Handler
    BY <2>1, <2>3, HandlerOf
  <2>5. g \in Handler
    BY ONLY <2>2, <2>3, <2>4, MergedFields
  <2>6. dqm' = dqm \/ Conclude(l, g)
    BY <1>1, <1>3, <1>11, <2>1, <2>2 DEF TakeMerged
  <2> QED  BY <2>3, <2>5, <2>6, ConcludeCloses
<1>12. CASE TakeCrash
  <2>1. PICK hit : hit = {k \in Lumis : Open(k) /\ lumi[k].pid[p].seen}
    OBVIOUS
  <2>2. PICK raw \in [hit -> 0 .. Max["files"]] :
          CheckClosure(hit, [k \in Lumis |-> IF k \in hit THEN WithCrash(lumi[k], p, raw[k])
                                             ELSE lumi[k]])
    BY <1>2, <1>12, <2>1 DEF TakeCrash
  <2>3. PICK hs : hs = [k \in Lumis |-> IF k \in hit THEN WithCrash(lumi[k], p, raw[k]) ELSE lumi[k]]
    OBVIOUS
  <2>4. p \in Pids /\ hit \in SUBSET Lumis /\ raw \in [hit -> Nat]
    <3>1. p \in Pids /\ hit \in SUBSET Lumis
      BY <1>2, <1>5, <1>12, <2>1 DEF TakeCrash, WellFormed
    <3>2. raw \in [hit -> Nat]
      BY <2>2
    <3> QED  BY <3>1, <3>2
  <2>5. hs \in [Lumis -> Handler]
    BY <2>3, <2>4, CrashHandlers
  <2> QED  BY <2>2, <2>3, <2>4, <2>5 DEF Closing
<1> QED  BY <1>7, <1>8, <1>9, <1>10, <1>11, <1>12 DEF Takings

LEMMA SettlesLate ==
  ASSUME NEW l, NEW f, f = lumi[l], NEW h \in Handler, h.st = "open", Settles(l, h), Goes(f, h)
  PROVE  StaysLate(l)
<1> DEFINE g == Settled(h)
<1>1. lumi'[l] = g
  BY DEF Settles
<1>2. CASE Complete(h)
  <2>1. g.st = "closed"
    BY <1>2, SettledTyped, NoHandlerTyped
  <2> QED  BY <1>1, <2>1 DEF StaysLate, Continues
<1>3. CASE ~Complete(h)
  <2>1. /\ Kept(g, h) /\ g.total = h.total /\ g.pid = h.pid
        /\ \A s \in Streams :
             /\ g.out[s].open => h.out[s].open
             /\ g.out[s].stage = IF s \in ToMerge(h) THEN 1 ELSE h.out[s].stage
    BY <1>3, SettledFields, ZenonT(30)
  <2> HIDE DEF g
  <2>2. \A s \in Streams : h.out[s].stage >= 1 => g.out[s].stage >= 1
    BY <2>1
  <2>3. Counts(g) = Counts(f)
    BY <2>1 DEF Goes, Counts
  <2>4. f.st = "open" /\ g.st = "open" /\ (Filled(f) => Filled(g)) /\ (f.eols => g.eols)
    BY <2>1 DEF Goes, Kept, Filled
  <2>5. /\ g.total = f.total /\ \A p \in Pids : f.pid[p].merged \subseteq g.pid[p].merged
        /\ \A s \in Streams :
             /\ f.out[s].stage >= 1 => g.out[s].stage >= 1
             /\ g.out[s].open => f.out[s].open
    BY <2>1, <2>2 DEF Goes
  <2>6. Continues(f, g)
    BY <2>3, <2>4, <2>5 DEF Continues
  <2> QED  BY <1>1, <2>6 DEF StaysLate
<1> QED  BY <1>2, <1>3

\* No file of a lumisection that has not ended makes a difference.
LEMMA EarlyLate ==
  ASSUME NEW l, lumi[l].st # "closed", ~(Filled(lumi[l]) /\ lumi[l].eols)
  PROVE  StaysLate(l)
BY DEF StaysLate, Continues

LEMMA QuietLate ==
  ASSUME NEW l, Untouched(l) \/ Empties(l)
  PROVE  StaysLate(l)
<1>1. CASE Untouched(l)
  BY <1>1 DEF StaysLate, Continues, Untouched
<1>2. CASE Empties(l)
  <2>1. lumi[l].st # "closed" /\ ~Filled(lumi[l])
    BY <1>2 DEF Empties, Blank, Filled
  <2> QED  BY <2>1, EarlyLate
<1> QED  BY <1>1, <1>2

LEMMA TakingsLate ==
  ASSUME Course, Books, Takings, NEW k \in Lumis
  PROVE  StaysLate(k)
<1>1. PICK l : l = Event.ls
  OBVIOUS
<1>2. PICK p : p = Event.pid
  OBVIOUS
<1>3. PICK s : s = Event.stream
  OBVIOUS
<1>4. PICK n : n = Event.n
  OBVIOUS
<1>5. lumi[k] \in Handler
  BY DEF Course, LumiTypeOK
<1>6. ASSUME Others(l), k = l => StaysLate(l) PROVE StaysLate(k)
  BY <1>6, QuietLate DEF Others
<1>7. CASE TakeIndex
  <2>1. PICK h : h = IF Open(l) THEN lumi[l] ELSE NewHandler("index")
    OBVIOUS
  <2>2. ~h.eols /\ (Open(l) \/ lumi[l].st = "none") /\ Others(l)
    BY <1>1, <1>2, <1>7, <2>1, IndexEffect
  <2>3. StaysLate(l)
    BY <2>1, <2>2, EarlyLate DEF Open, Filled
  <2> QED  BY <1>6, <2>2, <2>3
<1>8. CASE TakeEoLS
  <2>1. /\ l \in Lumis /\ Others(l)
        /\ \/ Untouched(l)
           \/ \E h \in Handler, g \in Handler :
                /\ h = lumi[l] \/ (Blank(h) /\ h.pid = NoHandler.pid /\ lumi[l].st = "none")
                /\ h.st = "open" /\ g = [h EXCEPT !.eols = TRUE] /\ Settles(l, g)
    BY <1>1, <1>8, EoLSEffect
  <2>2. ASSUME NEW h \in Handler, NEW g \in Handler,
               h = lumi[l] \/ (Blank(h) /\ h.pid = NoHandler.pid /\ lumi[l].st = "none"),
               h.st = "open", g = [h EXCEPT !.eols = TRUE], Settles(l, g)
        PROVE  StaysLate(l)
    <3>1. CASE lumi[l].st = "none"
      BY <3>1, EarlyLate DEF Filled
    <3>2. CASE h = lumi[l]
      <4>1. /\ g.st = h.st /\ g.empty = h.empty /\ g.eols /\ g.total = h.total
            /\ g.pid = h.pid /\ g.out = h.out
        BY <2>2, EolsFields
      <4>2. Goes(h, g)
        BY <4>1 DEF Goes
      <4>3. g.st = "open"
        BY <2>2, <4>1
      <4> QED  BY <2>2, <3>2, <4>2, <4>3, SettlesLate
    <3> QED  BY <2>2, <3>1, <3>2
  <2>3. StaysLate(l)
    BY <2>1, <2>2, QuietLate
  <2> QED  BY <1>6, <2>1, <2>3
<1>9. CASE TakeJson
  <2>1. PICK h : h = lumi[l]
    OBVIOUS
  <2>2. PICK g : g = WithJson(h, p, s, n)
    OBVIOUS
  <2>3. /\ l \in Lumis /\ p \in Pids /\ s \in Streams /\ n \in Nat /\ Others(l)
        /\ \/ Open(l) /\ g \in Handler /\ Settles(l, g)
           \/ Untouched(l) \/ Empties(l)
    BY <1>1, <1>2, <1>3, <1>4, <1>9, <2>1, <2>2, JsonEffect
  <2>4. h \in Handler
    BY <2>1, <2>3 DEF Course, LumiTypeOK
  <2>5. /\ Kept(g, h) /\ g.total = h.total
        /\ \A q \in Pids : g.pid[q].n = h.pid[q].n /\ h.pid[q].merged \subseteq g.pid[q].merged
        /\ \A u \in Streams : g.out[u].stage = h.out[u].stage /\ g.out[u].open = h.out[u].open
    <3>1. /\ Kept(g, h) /\ g.total = h.total /\ g.pid[p].n = h.pid[p].n
          /\ g.pid[p].merged = h.pid[p].merged \union {s}
          /\ \A q \in Pids \ {p} : g.pid[q] = h.pid[q]
          /\ \A u \in Streams \ {s} : g.out[u] = h.out[u]
          /\ g.out[s].open = h.out[s].open /\ g.out[s].stage = h.out[s].stage
      BY ONLY <2>2, <2>3, <2>4, JsonFields
    <3> QED  BY <3>1
  <2>6. Goes(h, g)
    BY <2>5 DEF Goes, Kept
  <2>7. Open(l) => g.st = "open"
    BY <2>1, <2>5 DEF Open, Kept
  <2>8. StaysLate(l)
    BY <2>1, <2>3, <2>6, <2>7, SettlesLate, QuietLate
  <2> QED  BY <1>6, <2>3, <2>8
<1>10. CASE TakeBad
  <2>1. PICK h : h = lumi[l]
    OBVIOUS
  <2>2. PICK g : g = WithBad(h, p, s)
    OBVIOUS
  <2>3. /\ l \in Lumis /\ p \in Pids /\ s \in Streams /\ Others(l)
        /\ \/ Open(l) /\ g \in Handler /\ Settles(l, g)
           \/ Untouched(l) \/ Empties(l)
    BY <1>1, <1>2, <1>3, <1>10, <2>1, <2>2, BadEffect
  <2>4. h \in Handler
    BY <2>1, <2>3 DEF Course, LumiTypeOK
  <2>5. /\ Kept(g, h) /\ g.total = h.total /\ g.pid = h.pid
        /\ \A u \in Streams : g.out[u].stage = h.out[u].stage /\ g.out[u].open = h.out[u].open
    BY ONLY <2>2, <2>3, <2>4, BadFields
  <2>6. Goes(h, g)
    BY <2>5 DEF Goes, Kept
  <2>7. Open(l) => g.st = "open"
    BY <2>1, <2>5 DEF Open, Kept
  <2>8. StaysLate(l)
    BY <2>1, <2>3, <2>6, <2>7, SettlesLate, QuietLate
  <2> QED  BY <1>6, <2>3, <2>8
<1>11. CASE TakeMerged
  <2>1. PICK h : h = lumi[l]
    OBVIOUS
  <2>2. PICK g : g = WithMerged(h, s)
    OBVIOUS
  <2>3. /\ l \in Lumis /\ s \in Streams /\ Others(l)
        /\ Untouched(l) \/ (Open(l) /\ g \in Handler /\ Settles(l, g))
    BY <1>1, <1>3, <1>11, <2>1, <2>2, MergedEffect
  <2>4. h \in Handler
    BY <2>1, <2>3 DEF Course, LumiTypeOK
  <2>5. /\ Kept(g, h) /\ g.total = h.total /\ g.pid = h.pid
        /\ \A u \in Streams :
             /\ h.out[u].stage >= 1 => g.out[u].stage >= 1
             /\ g.out[u].open = h.out[u].open
    BY ONLY <2>2, <2>3, <2>4, MergedFields, SMTT(30)
  <2>6. Goes(h, g)
    BY <2>5 DEF Goes, Kept
  <2>7. Open(l) => g.st = "open"
    BY <2>1, <2>5 DEF Open, Kept
  <2>8. StaysLate(l)
    BY <2>1, <2>3, <2>6, <2>7, SettlesLate, QuietLate
  <2> QED  BY <1>6, <2>3, <2>8
<1>12. CASE TakeCrash
  <2>1. /\ p \in Pids
        /\ \/ Untouched(k)
           \/ /\ Open(k)
              /\ \E raw \in Nat : /\ WithCrash(lumi[k], p, raw) \in Handler
                                  /\ Settles(k, WithCrash(lumi[k], p, raw))
    BY <1>2, <1>12, CrashEffect
  <2>2. ASSUME Open(k), NEW raw \in Nat, NEW g \in Handler, g = WithCrash(lumi[k], p, raw),
               Settles(k, g)
        PROVE  StaysLate(k)
    <3>1. PICK h \in Handler : h = lumi[k]
      BY <1>5
    <3>2. g = WithCrash(h, p, raw)
      BY <2>2, <3>1
    <3>3. /\ Kept(g, h) /\ g.total = h.total /\ g.pid = h.pid
          /\ \A u \in Streams : g.out[u].stage = h.out[u].stage /\ g.out[u].open = h.out[u].open
      BY <2>1, <3>2, CrashFields
    <3>4. Goes(h, g)
      BY <3>3 DEF Goes, Kept
    <3>5. g.st = "open"
      BY <2>2, <3>1, <3>3 DEF Open, Kept
    <3> QED  BY <2>2, <3>1, <3>4, <3>5, SettlesLate
  <2> QED  BY <2>1, <2>2, QuietLate
<1> QED  BY <1>7, <1>8, <1>9, <1>10, <1>11, <1>12 DEF Takings

LEMMA MergesType ==
  ASSUME Course, NEW m \in Merges
  PROVE  m.ls \in Lumis /\ m.stream \in Streams
<1>1. dqm \in DqmState
  BY DEF Course, LumiTypeOK
<1>2. \A i \in DOMAIN dqm.q : dqm.q[i] \in Merge
  BY <1>1 DEF DqmState
<1>3. dqm.cur \subseteq Merge
  BY <1>1 DEF DqmState
<1>4. m \in Merge
  BY <1>2, <1>3 DEF Merges
<1> QED  BY <1>4 DEF Merge

\* The merge that has begun, if there is one, is the same.
SameMerge == dqm'.cur = {} \/ (dqm'.cur = dqm.cur /\ dqm'.counts = dqm.counts)

LEMMA MergesStay ==
  ASSUME Course, MergesInv, \A l \in Lumis : StaysLate(l), SameMerge,
         \A m \in Merges' : m \in Merges \/ (m.ls \in Lumis /\ Late(lumi'[m.ls], m.stream))
  PROVE  MergesInv'
<1>1. ASSUME NEW m \in Merges' PROVE Late(lumi'[m.ls], m.stream)
  <2>1. CASE m \in Merges
    <3>1. m.ls \in Lumis /\ m.stream \in Streams /\ Late(lumi[m.ls], m.stream)
      BY <2>1, MergesType DEF MergesInv, MergedLate
    <3>2. Continues(lumi[m.ls], lumi'[m.ls])
      BY <3>1 DEF StaysLate
    <3> QED  BY <3>1, <3>2, LateContinues
  <2>2. CASE m \notin Merges
    BY <2>2
  <2> QED  BY <2>1, <2>2
<1>2. ASSUME NEW m \in dqm'.cur PROVE Merging(lumi'[m.ls], m.stream, dqm'.counts.proc)
  <2>1. m \in dqm.cur /\ dqm'.counts = dqm.counts
    BY <1>2 DEF SameMerge
  <2>2. m.ls \in Lumis
    BY <2>1, MergesType DEF Merges
  <2>3. Merging(lumi[m.ls], m.stream, dqm.counts.proc) /\ Continues(lumi[m.ls], lumi'[m.ls])
    BY <2>1, <2>2 DEF MergesInv, StaysLate
  <2> QED  BY <2>1, <2>3, LateContinues
<1> QED  BY <1>1, <1>2 DEF MergesInv, MergedLate

LEMMA TakingsMerges ==
  ASSUME Course, Books, MergesInv, Takings
  PROVE  MergesInv'
<1>1. \A l \in Lumis : StaysLate(l)
  BY TakingsLate
<1>2. CASE dqm' = dqm
  <2>1. Merges' = Merges /\ SameMerge
    BY <1>2 DEF Merges, SameMerge
  <2> QED  BY <1>1, <2>1, MergesStay
<1>3. CASE Closing
  <2>1. ASSUME NEW m \in Merges', m \notin Merges PROVE m.ls \in Lumis /\ Late(lumi'[m.ls], m.stream)
    BY <1>3, <2>1, ClosureMerges DEF Closing
  <2>2. SameMerge
    BY <1>3, ClosureFacts DEF Closing, Course, SameMerge
  <2> QED  BY <1>1, <2>1, <2>2, MergesStay
<1> QED  BY <1>2, <1>3, TakingsClose

LEMMA DqmTakeMerges ==
  ASSUME Course, MergesInv, DqmTake
  PROVE  MergesInv'
<1>1. /\ LumiTypeOK /\ dqm \in DqmState /\ dqm.q \in Seq(Merge) /\ dqm.q # <<>>
      /\ lumi' = lumi
  BY DEF Course, LumiTypeOK, DqmState, DqmTake
<1>2. PICK m : m = Head(dqm.q)
  OBVIOUS
<1>3. PICK kept \in SUBSET Pids : TakesMerge(m, kept)
  BY <1>2, MergeTaken
<1>4. PICK q : q = dqm.q
  OBVIOUS
<1>5. PICK c : c = MergedCounts(lumi[m.ls], m.stream, kept)
  OBVIOUS
<1>6. dqm' = [dqm EXCEPT !.cur = {m}, !.q = Tail(q), !.counts = c]
  BY <1>3, <1>4, <1>5 DEF TakesMerge
<1>7. dqm'.cur = {m} /\ dqm'.q = Tail(q) /\ dqm'.counts = c
  BY <1>1, <1>6 DEF DqmState
<1>8. /\ 1 \in DOMAIN q /\ m = q[1]
      /\ \A i \in DOMAIN Tail(q) : i + 1 \in DOMAIN q /\ Tail(q)[i] = q[i + 1]
  BY <1>1, <1>2, <1>4
<1>9. Merges' \subseteq Merges /\ m \in Merges
  BY <1>4, <1>7, <1>8 DEF Merges
<1>10. \A x \in Merges' : Late(lumi'[x.ls], x.stream)
  BY <1>1, <1>9 DEF MergesInv, MergedLate
<1>11. Merging(lumi[m.ls], m.stream, c.proc)
  <2>1. PICK h : h = lumi[m.ls]
    OBVIOUS
  <2>2. kept \in SUBSET Got(h, m.stream)
    BY <1>3, <2>1 DEF TakesMerge, Got
  <2>3. c.proc = Share(Counts(h), kept)
    <3>1. c.proc = ReadBy(h, kept)
      BY <1>5, <2>1 DEF MergedCounts
    <3> QED  BY <3>1, ReadByShare
  <2>4. Late(h, m.stream)
    BY <1>9, <2>1 DEF MergesInv, MergedLate
  <2> QED  BY <2>1, <2>2, <2>3, <2>4 DEF Late, Merging
<1>12. \A x \in dqm'.cur : Merging(lumi'[x.ls], x.stream, dqm'.counts.proc)
  BY <1>1, <1>7, <1>11
<1> QED  BY <1>10, <1>12 DEF MergesInv, MergedLate

LEMMA DqmDoneMerges ==
  ASSUME Course, MergesInv, DqmDone
  PROVE  MergesInv'
<1>1. /\ dqm'.cur = {} /\ dqm'.q = dqm.q
      /\ \E m \in dqm.cur, g \in Handler :
           /\ m.ls \in Lumis /\ m.stream \in Streams
           /\ lumi'[m.ls] = g /\ Returned(lumi[m.ls], g, m.stream, dqm.counts)
           /\ \A k \in Lumis \ {m.ls} : lumi'[k] = lumi[k]
  BY DqmEffect
<1>2. Merges' \subseteq Merges /\ SameMerge
  BY <1>1 DEF Merges, SameMerge
<1>3. PICK m \in dqm.cur :
           /\ Returned(lumi[m.ls], lumi'[m.ls], m.stream, dqm.counts)
           /\ \A k \in Lumis \ {m.ls} : lumi'[k] = lumi[k]
  BY <1>1
<1>4. ASSUME NEW l \in Lumis PROVE StaysLate(l)
  <2>1. CASE l = m.ls
    <3>1. PICK h : h = lumi[l]
      OBVIOUS
    <3>2. PICK g : g = lumi'[l]
      OBVIOUS
    <3>3. Returned(h, g, m.stream, dqm.counts)
      BY <1>3, <2>1, <3>1, <3>2
    <3>4. /\ Kept(g, h) /\ g.total = h.total /\ g.pid = h.pid
          /\ \A u \in Streams : g.out[u].stage = h.out[u].stage /\ g.out[u].open = h.out[u].open
      BY <3>3 DEF Returned
    <3>5. Counts(g) = Counts(h)
      BY <3>4 DEF Counts
    <3>6. Continues(h, g)
      BY <3>4, <3>5 DEF Continues, Kept, Filled
    <3> QED  BY <3>1, <3>2, <3>6 DEF StaysLate
  <2>2. CASE l # m.ls
    BY <1>3, <2>2 DEF StaysLate, Continues
  <2> QED  BY <2>1, <2>2
<1> QED  BY <1>2, <1>4, MergesStay

LEMMA OutsideUnchanged ==
  ASSUME Outside
  PROVE  UNCHANGED scriptVars
BY DEF Outside, BuEnds, Begin, Grab, Leave, Die, ReportCrash, Output, RunComplete, RunAborted

LEMMA MergesGoOn ==
  ASSUME Course, Books, MergesInv, [Next]_lumiVars
  PROVE  MergesInv'
<1>1. CASE Takings
  BY <1>1, TakingsMerges
<1>2. CASE DqmMerger
  BY <1>2, DqmTakeMerges, DqmDoneMerges DEF DqmMerger
<1>3. CASE UNCHANGED <<lumi, dqm>>
  <2>1. Merges' = Merges /\ SameMerge /\ \A l \in Lumis : StaysLate(l)
    BY <1>3 DEF Merges, SameMerge, StaysLate, Continues
  <2> QED  BY <2>1, MergesStay
<1>4. CASE Outside
  BY <1>3, <1>4, OutsideUnchanged DEF scriptVars
<1>5. CASE MainLoop /\ ~Takings
  BY <1>3, <1>5 DEF MainLoop, Takings, BufferIndex, FlushBuffer, DropEarly, TakeProcessing,
                    TakeComplete, Idle, Finish
<1>6. CASE UNCHANGED lumiVars
  BY <1>3, <1>6 DEF lumiVars
<1> QED  BY <1>1, <1>2, <1>4, <1>5, <1>6 DEF Next

-----------------------------------------------------------------------------
(* The error stream after a step *)

\* What is known before a step, and after it.
Around == /\ Course /\ Books /\ FilesInv /\ MergesInv /\ CoverInv
          /\ Course' /\ Books'

LEMMA RowsTyped ==
  ASSUME Around, NEW l \in Lumis
  PROVE  /\ lumi[l] \in Handler /\ lumi'[l] \in Handler /\ ledger[l] \in Row /\ ledger'[l] \in Row
         /\ grab[l] \in [Pids -> Nat] /\ Gone \subseteq Pids /\ Gone' \subseteq Pids
         /\ \A p \in Pids : grab[l][p] <= Max["files"]
<1>1. LumiTypeOK /\ LumiTypeOK'
  BY DEF Around, Course
<1>2. lumi[l] \in Handler /\ lumi'[l] \in Handler /\ grab[l] \in [Pids -> Nat]
  BY <1>1 DEF LumiTypeOK
<1>3. ledger[l] \in Row /\ ledger'[l] \in Row
  BY <1>1 DEF LumiTypeOK, Row
<1>4. Gone \subseteq Pids /\ Gone' \subseteq Pids
  BY DEF Gone
<1>5. \A p \in Pids : grab[l][p] <= Max["files"]
  BY DEF Around, Books, Book
<1> QED  BY <1>2, <1>3, <1>4, <1>5

\* When no event is read any more, the handler has counted all of them.
LEMMA OpenCounts ==
  ASSUME Around, NEW l \in Lumis, lumi[l].st # "closed",
         Over(Pend, buEols, l) \/ lumi[l].eols
  PROVE  /\ Over(Pend, buEols, l) /\ \A p \in Pids : lumi[l].pid[p].n = grab[l][p]
         /\ Filled(lumi[l]) => lumi[l].total = Cardinality(FilesOf(grab[l]))
<1>1. Book(l, lumi[l], Pend, buEols, grab[l], ledger[l], seen)
  BY DEF Around, Books
<1>2. lumi[l].eols => l \in seen
  BY DEF Around, Course, HandlersEnded
<1>3. Over(Pend, buEols, l) /\ Account(lumi[l], l, Pend, buEols, grab[l])
  BY <1>1, <1>2 DEF Book
<1>4. Pend \in Seq(FileEvent)
  BY DEF Around, Course, Events
<1>5. lumi[l] \in Handler /\ grab[l] \in [Pids -> Nat]
  BY RowsTyped
<1>6. /\ \A p \in Pids : lumi[l].pid[p].n = grab[l][p]
      /\ lumi[l].st = "open" /\ ~lumi[l].empty => lumi[l].total = Cardinality(FilesOf(grab[l]))
  BY <1>3, <1>4, <1>5, AllCounted
<1> QED  BY <1>3, <1>6 DEF Filled

LEMMA FitsUntouched ==
  ASSUME Around, NEW l \in Lumis, Untouched(l), Gone \subseteq Gone'
  PROVE  Fits(l)'
<1>1. Covered(lumi[l], ledger[l], Gone) /\ ErrorsFit(lumi[l], ledger[l], errors[l])
  BY DEF Around, CoverInv, Fits
<1>2. Covered(lumi[l], ledger[l], Gone')
  BY <1>1, RowsTyped, CoveredMore
<1> QED  BY <1>1, <1>2 DEF Untouched, Fits

LEMMA FitsEmpty ==
  ASSUME Around, NEW l \in Lumis, Empties(l)
  PROVE  Fits(l)'
<1>1. ErrorsFit(lumi[l], ledger[l], errors[l])
  BY DEF Around, CoverInv, Fits
<1>2. errors'[l] = 0
  BY <1>1 DEF Empties, Blank, ErrorsFit
<1>3. ledger'[l] \in Row
  BY RowsTyped
<1>4. \A s \in Streams : ledger'[l][s] # Unwritten => 0 <= ledger'[l][s].err
  BY <1>3, RowTyped
<1>5. ~Filled(lumi'[l])
  BY DEF Empties, Blank, Filled
<1> QED  BY <1>2, <1>4, <1>5 DEF Fits, Covered, ErrorsFit

LEMMA FitsSettled ==
  ASSUME Around, UNCHANGED grab, NEW l \in Lumis, NEW h \in Handler, h.st = "open", Settles(l, h),
         lumi[l].st # "closed", NEW gone, gone \subseteq Gone', Covered(h, ledger[l], gone),
         h.eols /\ ~h.empty => \A p \in Pids : h.pid[p].n = grab[l][p]
  PROVE  Fits(l)'
<1>1. /\ lumi'[l] \in Handler /\ ledger[l] \in Row /\ ledger'[l] \in Row
      /\ grab[l] \in [Pids -> Nat] /\ gone \subseteq Pids
  BY RowsTyped
<1>2. errors[l] = 0
  BY DEF Around, CoverInv, Fits, ErrorsFit
<1>3. h.eols /\ ~h.empty => Counts(h) = grab[l]
  BY <1>1 DEF Counts
<1>4. \A s \in Streams : ledger'[l][s] # Unwritten =>
        ledger'[l][s].proc + ledger'[l][s].err = Cardinality(FilesOf(grab[l]))
  BY DEF Around, Books, Book
<1>5. Covered(lumi'[l], ledger'[l], gone) /\ ErrorsFit(lumi'[l], ledger'[l], errors'[l])
  BY <1>1, <1>2, <1>3, <1>4, SettlesFits
<1>6. Covered(lumi'[l], ledger'[l], Gone')
  BY <1>1, <1>5, CoveredMore
<1> QED  BY <1>5, <1>6 DEF Fits

\* All lumisections but l are left alone.
LEMMA FitsOthers ==
  ASSUME Around, NEW l \in Lumis, Others(l), Fits(l)', Gone \subseteq Gone'
  PROVE  CoverInv'
<1>1. \A k \in Lumis : Fits(k)'
  BY FitsUntouched DEF Others
<1> QED  BY <1>1 DEF CoverInv

\* The script goes on, and no process is gone that was not.
LEMMA ScriptGone ==
  ASSUME Around, NEW k, Passes(k), UNCHANGED proc
  PROVE  Gone \subseteq Gone'
<1>1. \A p \in Pids : Crashed(p)' <=> Crashed(p)
  BY DEF Crashed
<1> QED  BY <1>1, GonePasses DEF Around

LEMMA TakeIndexFits ==
  ASSUME Around, TakeIndex
  PROVE  CoverInv'
<1>1. PICK l : l = Event.ls
  OBVIOUS
<1>2. PICK p : p = Event.pid
  OBVIOUS
<1>3. PICK h : h = IF Open(l) THEN lumi[l] ELSE NewHandler("index")
  OBVIOUS
<1>4. PICK g : g = WithIndex(h, p, 1)
  OBVIOUS
<1>5. /\ l \in Lumis /\ p \in Pids /\ h \in Handler /\ h.st = "open" /\ ~h.eols /\ ~h.empty
      /\ Open(l) \/ lumi[l].st = "none"
      /\ Settles(l, g) /\ Others(l)
  BY <1>1, <1>2, <1>3, <1>4, IndexEffect DEF Around
<1>6. Gone \subseteq Gone' /\ UNCHANGED grab
  BY TakeMoves, ScriptGone DEF Around
<1>7. lumi[l].st # "closed" /\ ledger[l] \in Row /\ Gone \subseteq Pids
  BY <1>5, RowsTyped DEF Open
<1>8. Covered(h, ledger[l], Gone)
  <2>1. CASE Open(l)
    BY <1>3, <1>5, <2>1 DEF Around, CoverInv, Fits
  <2>2. CASE ~Open(l)
    <3>1. h.raw = 0 /\ h.out = NoHandler.out
      BY <1>3, <2>2, NewFields
    <3>2. \A s \in Streams : h.out[s] = [open |-> TRUE, proc |-> 0, err |-> 0, pb |-> FALSE, stage |-> 0]
      BY <3>1, NoHandlerTyped
    <3>3. \A s \in Streams : h.out[s].open /\ h.out[s].proc = 0
      BY <3>2
    <3>4. \A Q : 0 <= Share(Counts(h), Q)
      BY ShareFinite
    <3> QED  BY <3>1, <3>3, <3>4 DEF Covered
  <2> QED  BY <2>1, <2>2
<1>9. 1 \in Nat
  OBVIOUS
<1>10. /\ g \in Handler /\ g.pid[p].n = h.pid[p].n + 1 /\ g.pid[p].merged = h.pid[p].merged
       /\ \A q \in Pids \ {p} : g.pid[q] = h.pid[q]
       /\ g.st = h.st /\ g.empty = h.empty /\ g.eols = h.eols /\ g.raw = h.raw /\ g.out = h.out
  BY ONLY <1>4, <1>5, <1>9, IndexFields
<1>11. \A q \in Pids : g.pid[q].merged = h.pid[q].merged /\ h.pid[q].n <= g.pid[q].n
  BY <1>5, <1>10, HandlerFields
<1>12. \A s \in Streams : g.out[s].open = h.out[s].open /\ g.out[s].proc <= h.out[s].proc
  BY <1>5, <1>10, HandlerFields
<1>13. Covered(g, ledger[l], Gone)
  BY <1>5, <1>7, <1>8, <1>10, <1>11, <1>12, CoveredKept
<1>14. Fits(l)'
  BY <1>5, <1>6, <1>7, <1>10, <1>13, FitsSettled
<1> QED  BY <1>5, <1>6, <1>14, FitsOthers

\* The handler settles when neither the files it had nor the processed events
\* have changed.
LEMMA SameFits ==
  ASSUME Around, UNCHANGED grab, NEW l \in Lumis, lumi[l].st = "open", NEW g \in Handler,
         Settles(l, g), Gone \subseteq Gone', Over(Pend, buEols, l) \/ g.eols = lumi[l].eols,
         g.st = "open", g.empty = lumi[l].empty, g.raw = lumi[l].raw, g.pid = lumi[l].pid,
         \A s \in Streams : g.out[s].open = lumi[l].out[s].open /\ g.out[s].proc = lumi[l].out[s].proc
  PROVE  Fits(l)'
<1>1. /\ lumi[l] \in Handler /\ ledger[l] \in Row /\ Gone \subseteq Pids
      /\ Covered(lumi[l], ledger[l], Gone)
  BY RowsTyped DEF Around, CoverInv, Fits
<1>2. /\ \A p \in Pids : g.pid[p].merged = lumi[l].pid[p].merged /\ lumi[l].pid[p].n <= g.pid[p].n
      /\ \A s \in Streams : g.out[s].proc <= lumi[l].out[s].proc
  BY <1>1, HandlerFields
<1>3. Covered(g, ledger[l], Gone)
  BY <1>1, <1>2, CoveredKept
<1>4. g.eols /\ ~g.empty => \A p \in Pids : g.pid[p].n = grab[l][p]
  BY OpenCounts
<1> QED  BY <1>3, <1>4, FitsSettled

LEMMA TakeEoLSFits ==
  ASSUME Around, TakeEoLS
  PROVE  CoverInv'
<1>1. PICK l : l = Event.ls
  OBVIOUS
<1>2. /\ l \in Lumis /\ Others(l)
      /\ \/ Untouched(l)
         \/ \E h \in Handler, g \in Handler :
              /\ h = lumi[l] \/ (Blank(h) /\ h.pid = NoHandler.pid /\ lumi[l].st = "none")
              /\ h.st = "open" /\ g = [h EXCEPT !.eols = TRUE] /\ Settles(l, g)
  BY <1>1, EoLSEffect DEF Around
<1>3. Gone \subseteq Gone' /\ UNCHANGED grab
  BY TakeMoves, ScriptGone DEF Around
<1>4. Over(Pend, buEols, l)
  BY <1>1, HeadOver DEF Around, TakeEoLS
<1>5. ASSUME NEW h \in Handler, NEW g \in Handler,
             h = lumi[l] \/ (Blank(h) /\ h.pid = NoHandler.pid /\ lumi[l].st = "none"),
             h.st = "open", g = [h EXCEPT !.eols = TRUE], Settles(l, g)
      PROVE  Fits(l)'
  <2>1. /\ g.st = "open" /\ g.empty = h.empty /\ g.raw = h.raw /\ g.pid = h.pid /\ g.out = h.out
    BY <1>5, EolsFields
  <2>2. CASE h = lumi[l]
    BY <1>2, <1>3, <1>4, <1>5, <2>1, <2>2, SameFits
  <2>3. CASE Blank(h) /\ lumi[l].st = "none"
    <3>1. Covered(g, ledger[l], Gone) /\ g.empty
      BY <2>1, <2>3 DEF Blank, Covered, Filled
    <3> QED  BY <1>2, <1>3, <1>5, <2>1, <2>3, <3>1, FitsSettled
  <2> QED  BY <1>5, <2>2, <2>3
<1>6. Fits(l)'
  BY <1>2, <1>3, <1>5, FitsUntouched
<1> QED  BY <1>2, <1>3, <1>6, FitsOthers

LEMMA TakeBadFits ==
  ASSUME Around, TakeBad
  PROVE  CoverInv'
<1>1. PICK l : l = Event.ls
  OBVIOUS
<1>2. PICK p : p = Event.pid
  OBVIOUS
<1>3. PICK s : s = Event.stream
  OBVIOUS
<1>4. PICK g : g = WithBad(lumi[l], p, s)
  OBVIOUS
<1>5. /\ l \in Lumis /\ p \in Pids /\ s \in Streams /\ Others(l) /\ Over(Pend, buEols, l)
      /\ \/ Open(l) /\ g \in Handler /\ Settles(l, g)
         \/ Untouched(l) \/ Empties(l)
  BY <1>1, <1>2, <1>3, <1>4, BadEffect DEF Around
<1>6. Gone \subseteq Gone' /\ UNCHANGED grab /\ lumi[l] \in Handler
  BY <1>5, TakeMoves, ScriptGone, RowsTyped DEF Around
<1>7. ASSUME Open(l), g \in Handler, Settles(l, g) PROVE Fits(l)'
  <2>1. /\ Kept(g, lumi[l]) /\ g.raw = lumi[l].raw /\ g.pid = lumi[l].pid
        /\ \A u \in Streams \ {s} : g.out[u] = lumi[l].out[u]
        /\ g.out[s].open = lumi[l].out[s].open /\ g.out[s].proc = lumi[l].out[s].proc
    BY <1>4, <1>5, <1>6, BadFields
  <2>2. /\ \A u \in Streams : g.out[u].open = lumi[l].out[u].open /\ g.out[u].proc = lumi[l].out[u].proc
        /\ g.st = "open" /\ g.empty = lumi[l].empty
    BY <1>7, <2>1 DEF Kept, Open
  <2> QED  BY <1>5, <1>6, <1>7, <2>1, <2>2, SameFits DEF Open
<1>8. Fits(l)'
  BY <1>5, <1>6, <1>7, FitsUntouched, FitsEmpty
<1> QED  BY <1>5, <1>6, <1>8, FitsOthers

LEMMA TakeMergedFits ==
  ASSUME Around, TakeMerged
  PROVE  CoverInv'
<1>1. PICK l : l = Event.ls
  OBVIOUS
<1>2. PICK s : s = Event.stream
  OBVIOUS
<1>3. PICK g : g = WithMerged(lumi[l], s)
  OBVIOUS
<1>4. /\ l \in Lumis /\ s \in Streams /\ Others(l)
      /\ \/ Untouched(l)
         \/ Open(l) /\ g \in Handler /\ Settles(l, g)
  BY <1>1, <1>2, <1>3, MergedEffect DEF Around
<1>5. Gone \subseteq Gone' /\ UNCHANGED grab /\ lumi[l] \in Handler
  BY <1>4, TakeMoves, ScriptGone, RowsTyped DEF Around
<1>6. ASSUME Open(l), g \in Handler, Settles(l, g) PROVE Fits(l)'
  <2>1. /\ Kept(g, lumi[l]) /\ g.raw = lumi[l].raw /\ g.pid = lumi[l].pid
        /\ \A u \in Streams \ {s} : g.out[u] = lumi[l].out[u]
        /\ g.out[s].open = lumi[l].out[s].open /\ g.out[s].proc = lumi[l].out[s].proc
    BY <1>3, <1>4, <1>5, MergedFields
  <2>2. /\ \A u \in Streams : g.out[u].open = lumi[l].out[u].open /\ g.out[u].proc = lumi[l].out[u].proc
        /\ g.st = "open" /\ g.empty = lumi[l].empty /\ g.eols = lumi[l].eols
    BY <1>6, <2>1 DEF Kept, Open
  <2> QED  BY <1>4, <1>5, <1>6, <2>1, <2>2, SameFits DEF Open
<1>7. Fits(l)'
  BY <1>4, <1>5, <1>6, FitsUntouched
<1> QED  BY <1>4, <1>5, <1>7, FitsOthers

\* A stream file is true: its process is not gone and has not delivered the stream.
LEMMA HeadIsTrue ==
  ASSUME FilesInv, 1 \in DOMAIN Pend, NEW e, e = Pend[1]
  PROVE  /\ IsTrue(e)
         /\ e.kind \in {"index", "json", "bad"} => e.pid \notin Gone
<1>1. IsTrue(e)
  BY DEF FilesInv, Pending
<1> QED  BY <1>1 DEF IsTrue, Gone

LEMMA JsonCovered ==
  ASSUME NEW h \in Handler, NEW row \in Row, NEW gone, gone \subseteq Pids, Covered(h, row, gone),
         NEW p \in Pids, NEW s \in Streams, p \notin gone, s \notin h.pid[p].merged,
         h.pid[p].n <= Max["files"], NEW g, g = WithJson(h, p, s, h.pid[p].n)
  PROVE  Covered(g, row, gone)
<1> DEFINE n == h.pid[p].n
           c == Counts(h)
<1>1. n \in Nat /\ c \in [Pids -> Nat] /\ c[p] = n
  BY CountsTyped, HandlerFields
<1>2. /\ g \in Handler /\ Kept(g, h) /\ g.total = h.total /\ g.raw = h.raw
      /\ g.pid[p].seen = h.pid[p].seen /\ g.pid[p].n = h.pid[p].n
      /\ g.pid[p].merged = h.pid[p].merged \union {s}
      /\ \A q \in Pids \ {p} : g.pid[q] = h.pid[q]
      /\ \A u \in Streams \ {s} : g.out[u] = h.out[u]
      /\ g.out[s].open = h.out[s].open /\ g.out[s].err = h.out[s].err
      /\ g.out[s].stage = h.out[s].stage
      /\ g.out[s].proc = IF h.out[s].open THEN h.out[s].proc + n ELSE h.out[s].proc
  <2>1. g = WithJson(h, p, s, n)
    OBVIOUS
  <2> HIDE DEF n
  <2> QED  BY ONLY <1>1, <2>1, h \in Handler, p \in Pids, s \in Streams, JsonFields
<1>3. Counts(g) = c
  BY <1>2 DEF Counts
<1>4. NotDelivered(g, gone) = NotDelivered(h, gone)
  BY <1>2 DEF NotDelivered
<1>5. Got(g, s) = Got(h, s) \union {p} /\ p \notin Got(h, s) /\ \A u \in Streams \ {s} : Got(g, u) = Got(h, u)
  BY <1>2, ZenonT(60) DEF Got
<1> HIDE DEF n, c
<1> SUFFICES ASSUME Filled(g)
             PROVE  /\ g.raw <= Share(c, NotDelivered(g, gone))
                    /\ \A u \in Streams :
                         /\ g.out[u].open => g.out[u].proc <= Share(c, Got(g, u))
                         /\ ~g.out[u].open /\ row[u] # Unwritten => row[u].proc <= Share(c, Got(g, u))
  BY <1>3 DEF Covered
<1>6. /\ h.raw <= Share(c, NotDelivered(h, gone))
      /\ \A u \in Streams :
           /\ h.out[u].open => h.out[u].proc <= Share(c, Got(h, u))
           /\ ~h.out[u].open /\ row[u] # Unwritten => row[u].proc <= Share(c, Got(h, u))
  BY <1>2 DEF Covered, Filled, Kept, c
<1>7. Share(c, Got(g, s)) = Share(c, Got(h, s)) + n
  <2>1. c[p] <= Max["files"]
    BY <1>1 DEF n
  <2> QED  BY <1>1, <1>5, <2>1, ShareAdded
<1>8. Share(c, Got(h, s)) \in Nat /\ h.out[s].proc \in Nat
  BY ShareFinite, HandlerFields
<1>9. ASSUME g.out[s].open PROVE g.out[s].proc <= Share(c, Got(g, s))
  <2>1. g.out[s].proc = h.out[s].proc + n /\ h.out[s].proc <= Share(c, Got(h, s))
    BY <1>2, <1>6, <1>9
  <2> QED  BY ONLY <1>1, <1>7, <1>8, <2>1
<1>10. ~g.out[s].open /\ row[s] # Unwritten => row[s].proc <= Share(c, Got(g, s))
  <2>1. row[s] # Unwritten => row[s].proc \in Nat
    BY RowTyped
  <2> SUFFICES ASSUME ~g.out[s].open, row[s] # Unwritten
               PROVE  row[s].proc <= Share(c, Got(g, s))
    OBVIOUS
  <2>2. row[s].proc <= Share(c, Got(h, s)) /\ row[s].proc \in Nat
    BY <1>2, <1>6, <2>1
  <2> QED  BY ONLY <1>1, <1>7, <1>8, <2>2
<1> QED  BY <1>2, <1>4, <1>5, <1>6, <1>9, <1>10, ZenonT(60)

LEMMA TakeJsonFits ==
  ASSUME Around, TakeJson
  PROVE  CoverInv'
<1>1. PICK l : l = Event.ls
  OBVIOUS
<1>2. PICK p : p = Event.pid
  OBVIOUS
<1>3. PICK s : s = Event.stream
  OBVIOUS
<1>4. PICK n : n = Event.n
  OBVIOUS
<1>5. PICK h : h = lumi[l]
  OBVIOUS
<1>6. PICK g : g = WithJson(h, p, s, n)
  OBVIOUS
<1>7. /\ l \in Lumis /\ p \in Pids /\ s \in Streams /\ n \in Nat
      /\ Others(l) /\ Over(Pend, buEols, l)
      /\ \/ Open(l) /\ g \in Handler /\ Settles(l, g)
         \/ Untouched(l) \/ Empties(l)
  BY <1>1, <1>2, <1>3, <1>4, <1>5, <1>6, JsonEffect DEF Around
<1>8. Gone \subseteq Gone' /\ UNCHANGED grab /\ Event = Pend[1] /\ 1 \in DOMAIN Pend
  BY TakeMoves, ScriptGone DEF Around
<1>9. /\ h \in Handler /\ ledger[l] \in Row /\ Gone \subseteq Pids /\ Covered(h, ledger[l], Gone)
      /\ grab[l] \in [Pids -> Nat] /\ grab[l][p] <= Max["files"]
  BY <1>5, <1>7, RowsTyped DEF Around, CoverInv, Fits
<1>10. ASSUME Open(l), g \in Handler, Settles(l, g) PROVE Fits(l)'
  <2>1. \A q \in Pids : h.pid[q].n = grab[l][q]
    BY <1>5, <1>7, <1>10, OpenCounts DEF Open
  <2>2. s \notin h.pid[p].merged /\ n = grab[l][p] /\ p \notin Gone
    <3>1. Event.kind = "json"
      BY DEF TakeJson
    <3>2. IsTrue(Event) /\ Event.pid \notin Gone
      BY <1>8, <3>1, HeadIsTrue DEF Around
    <3> QED  BY <1>1, <1>2, <1>3, <1>4, <1>5, <3>1, <3>2 DEF IsTrue
  <2>3. n = h.pid[p].n /\ h.pid[p].n <= Max["files"]
    BY <1>7, <1>9, <2>1, <2>2
  <2>4. g = WithJson(h, p, s, h.pid[p].n)
    BY <1>6, <2>3
  <2>5. Covered(g, ledger[l], Gone)
    BY <1>7, <1>9, <2>2, <2>3, <2>4, JsonCovered
  <2>6. /\ Kept(g, h) /\ g.pid[p].n = h.pid[p].n /\ \A q \in Pids \ {p} : g.pid[q] = h.pid[q]
    BY ONLY <1>6, <1>7, <1>9, JsonFields, SMTT(60)
  <2>7. \A q \in Pids : g.pid[q].n = grab[l][q]
    BY <2>1, <2>6
  <2>8. g.st = "open" /\ lumi[l].st # "closed"
    BY <1>5, <1>10, <2>6 DEF Kept, Open
  <2> QED  BY <1>7, <1>8, <1>10, <2>5, <2>7, <2>8, FitsSettled
<1>11. Fits(l)'
  BY <1>7, <1>8, <1>10, FitsUntouched, FitsEmpty
<1> QED  BY <1>7, <1>8, <1>11, FitsOthers

LEMMA CrashCovered ==
  ASSUME NEW h \in Handler, NEW row \in Row, NEW gone, gone \subseteq Pids, Covered(h, row, gone),
         NEW p \in Pids, p \notin gone, h.pid[p].n <= Max["files"],
         NEW raw \in Nat, raw <= h.pid[p].n, NEW g, g = WithCrash(h, p, raw)
  PROVE  Covered(g, row, gone \union {p})
<1> DEFINE c == Counts(h)
           Q == gone \union {p}
<1>1. c \in [Pids -> Nat] /\ c[p] = h.pid[p].n
  BY CountsTyped
<1>2. /\ g \in Handler /\ Kept(g, h) /\ g.pid = h.pid
      /\ g.raw = IF h.pid[p].merged = {} THEN h.raw + raw ELSE h.raw
      /\ \A s \in Streams : g.out[s].open = h.out[s].open /\ g.out[s].proc = h.out[s].proc
  BY CrashFields
<1>3. /\ Counts(g) = c /\ \A s : Got(g, s) = Got(h, s)
      /\ NotDelivered(g, Q) = IF h.pid[p].merged = {} THEN NotDelivered(h, gone) \union {p}
                              ELSE NotDelivered(h, gone)
      /\ p \notin NotDelivered(h, gone)
  BY <1>2 DEF Counts, Got, NotDelivered
<1> HIDE DEF c, Q
<1> SUFFICES ASSUME Filled(g)
             PROVE  /\ g.raw <= Share(c, NotDelivered(g, Q))
                    /\ \A u \in Streams :
                         /\ g.out[u].open => g.out[u].proc <= Share(c, Got(g, u))
                         /\ ~g.out[u].open /\ row[u] # Unwritten => row[u].proc <= Share(c, Got(g, u))
  BY <1>3 DEF Covered, Q
<1>4. /\ h.raw <= Share(c, NotDelivered(h, gone))
      /\ \A u \in Streams :
           /\ h.out[u].open => h.out[u].proc <= Share(c, Got(h, u))
           /\ ~h.out[u].open /\ row[u] # Unwritten => row[u].proc <= Share(c, Got(h, u))
  BY <1>2 DEF Covered, Filled, Kept, c
<1>5. CASE h.pid[p].merged = {}
  <2> DEFINE A == NotDelivered(h, gone)
  <2>1. g.raw = h.raw + raw /\ NotDelivered(g, Q) = A \union {p} /\ p \notin A /\ h.raw <= Share(c, A)
    BY <1>2, <1>3, <1>4, <1>5
  <2> HIDE DEF A
  <2>2. Share(c, A \union {p}) = Share(c, A) + c[p]
    BY <1>1, <2>1, ShareAdded
  <2>3. Share(c, A) \in Nat /\ h.raw \in Nat /\ c[p] \in Nat /\ raw <= c[p]
    BY <1>1, ShareFinite, HandlerFields
  <2>4. h.raw + raw <= Share(c, A) + c[p]
    BY ONLY raw \in Nat, <2>1, <2>3
  <2>5. g.raw <= Share(c, NotDelivered(g, Q))
    BY <2>1, <2>2, <2>4
  <2> QED  BY <1>2, <1>3, <1>4, <2>5
<1>6. CASE h.pid[p].merged # {}
  BY <1>2, <1>3, <1>4, <1>6
<1> QED  BY <1>5, <1>6

LEMMA TakeCrashFits ==
  ASSUME Around, TakeCrash
  PROVE  CoverInv'
<1>1. PICK p : p = Event.pid
  OBVIOUS
<1>2. /\ p \in Pids
      /\ \A l \in Lumis :
           \/ Untouched(l)
           \/ /\ Open(l)
              /\ \E raw \in Nat : /\ raw <= lumi[l].pid[p].n
                                  /\ WithCrash(lumi[l], p, raw) \in Handler
                                  /\ Settles(l, WithCrash(lumi[l], p, raw))
  BY <1>1, CrashEffect DEF Around
<1>3. Passes(1) /\ UNCHANGED <<proc, grab>> /\ Event = Pend[1] /\ 1 \in DOMAIN Pend /\ WellFormed(Event)
  BY TakeMoves DEF Around
<1>4. Gone \subseteq Gone'
  BY <1>3, ScriptGone
<1>5. p \in Gone' /\ p \notin Gone
  <2>1. IsHead(1, CrashFiles(p))
    BY <1>1, <1>3 DEF IsHead, CrashFiles, WellFormed, TakeCrash
  <2>2. \A q \in Pids : Crashed(q)' <=> Crashed(q)
    BY <1>3 DEF Crashed
  <2> QED  BY <1>2, <1>3, <2>1, <2>2, GonePasses DEF Around
<1>6. ASSUME NEW l \in Lumis, Open(l), NEW raw \in Nat, raw <= lumi[l].pid[p].n,
             NEW g \in Handler, g = WithCrash(lumi[l], p, raw), Settles(l, g)
      PROVE  Fits(l)'
  <2> DEFINE h == lumi[l]
  <2>1. /\ h \in Handler /\ ledger[l] \in Row /\ Gone \subseteq Pids /\ Covered(h, ledger[l], Gone)
        /\ grab[l] \in [Pids -> Nat] /\ grab[l][p] <= Max["files"]
    BY <1>2, RowsTyped DEF Around, CoverInv, Fits
  <2>2. h.pid[p].n <= Max["files"]
    <3>1. h.pid[p].n + Left(Pend, l, p) = grab[l][p]
      BY <1>2, <1>6 DEF Around, Books, Book, Account, Open
    <3>2. Left(Pend, l, p) \in Nat /\ h.pid[p].n \in Nat
      BY <1>2, <2>1, LeftFinite, HandlerFields DEF Around, Course, Events
    <3> HIDE DEF h
    <3> QED  BY <1>2, <2>1, <3>1, <3>2, MaxTyped
  <2>3. g = WithCrash(h, p, raw) /\ raw <= h.pid[p].n /\ h.st = "open"
    BY <1>6 DEF Open
  <2>4. h.eols => \A q \in Pids : h.pid[q].n = grab[l][q]
    BY <1>6, OpenCounts DEF Open
  <2> HIDE DEF h
  <2>5. Covered(g, ledger[l], Gone \union {p})
    BY <1>2, <1>5, <1>6, <2>1, <2>2, <2>3, CrashCovered
  <2>6. Kept(g, h) /\ g.pid = h.pid
    BY <1>2, <1>6, <2>1, <2>3, CrashFields
  <2>7. g.eols /\ ~g.empty => \A q \in Pids : g.pid[q].n = grab[l][q]
    BY <2>4, <2>6 DEF Kept
  <2>8. g.st = "open" /\ lumi[l].st # "closed" /\ Gone \union {p} \subseteq Gone'
    BY <1>4, <1>5, <1>6, <2>3, <2>6 DEF Kept, Open
  <2> QED  BY <1>3, <1>6, <2>5, <2>7, <2>8, FitsSettled
<1>7. ASSUME NEW l \in Lumis PROVE Fits(l)'
  BY <1>2, <1>4, <1>6, FitsUntouched
<1> QED  BY <1>7 DEF CoverInv

LEMMA DqmDoneFits ==
  ASSUME Around, DqmDone
  PROVE  CoverInv'
<1>1. /\ Passes(0) /\ UNCHANGED <<ledger, errors, proc>> /\ dqm.counts.proc \in Nat
      /\ \E m \in dqm.cur, g \in Handler :
           /\ m.ls \in Lumis /\ m.stream \in Streams
           /\ lumi'[m.ls] = g /\ Returned(lumi[m.ls], g, m.stream, dqm.counts)
           /\ \A k \in Lumis \ {m.ls} : lumi'[k] = lumi[k]
  BY DqmEffect DEF Around
<1>2. Gone \subseteq Gone'
  BY <1>1, ScriptGone
<1>3. PICK m \in dqm.cur, g \in Handler :
           /\ m.ls \in Lumis /\ m.stream \in Streams
           /\ lumi'[m.ls] = g /\ Returned(lumi[m.ls], g, m.stream, dqm.counts)
           /\ \A k \in Lumis \ {m.ls} : lumi'[k] = lumi[k]
  BY <1>1
<1>4. PICK l \in Lumis : l = m.ls
  BY <1>3
<1>5. PICK s \in Streams : s = m.stream
  BY <1>3
<1>6. PICK h : h = lumi[l]
  OBVIOUS
<1>7. PICK n : n = dqm.counts.proc
  OBVIOUS
<1>8. /\ h \in Handler /\ ledger[l] \in Row /\ Gone \subseteq Pids /\ Gone' \subseteq Pids
      /\ Covered(h, ledger[l], Gone) /\ ErrorsFit(h, ledger[l], errors[l])
      /\ Merging(h, s, n)
  BY <1>3, <1>4, <1>5, <1>6, <1>7, RowsTyped DEF Around, CoverInv, Fits, MergesInv
<1>9. Returned(h, g, s, dqm.counts)
  BY <1>3, <1>4, <1>5, <1>6
<1>10. /\ g.st = h.st /\ g.empty = h.empty /\ g.raw = h.raw /\ g.pid = h.pid
       /\ \A u \in Streams : g.out[u].open = h.out[u].open
       /\ \A u \in Streams \ {s} : g.out[u].proc = h.out[u].proc
       /\ g.out[s].proc = n
  BY <1>7, <1>9 DEF Returned, Kept
<1>11. /\ Counts(g) = Counts(h) /\ NotDelivered(g, Gone) = NotDelivered(h, Gone)
       /\ \A u : Got(g, u) = Got(h, u)
  BY <1>10 DEF Counts, NotDelivered, Got
<1>12. Filled(h) => n <= Share(Counts(h), Got(h, s))
  <2> SUFFICES ASSUME Filled(h) PROVE n <= Share(Counts(h), Got(h, s))
    OBVIOUS
  <2>1. PICK P \in SUBSET Got(h, s) : n = Share(Counts(h), P)
    BY <1>8 DEF Merging, Filled
  <2>2. Counts(h) \in [Pids -> Nat]
    BY <1>8, CountsTyped
  <2>3. \A p \in P : p \in Pids => Counts(h)[p] <= Counts(h)[p]
    BY <2>2
  <2>4. Share(Counts(h), P) <= Share(Counts(h), Got(h, s))
    BY <2>1, <2>2, <2>3, ShareMore
  <2> QED  BY <2>1, <2>4
<1>13. Covered(g, ledger[l], Gone)
  BY <1>8, <1>10, <1>11, <1>12 DEF Covered, Filled
<1>14. Covered(g, ledger[l], Gone')
  BY <1>2, <1>8, <1>13, CoveredMore
<1>15. ErrorsFit(g, ledger[l], errors[l])
  BY <1>8, <1>10 DEF ErrorsFit
<1>16. lumi'[l] = g /\ ledger'[l] = ledger[l] /\ errors'[l] = errors[l]
  BY <1>1, <1>3, <1>4
<1>17. Fits(l)'
  BY <1>14, <1>15, <1>16 DEF Fits
<1>18. Others(l)
  BY <1>1, <1>3, <1>4 DEF Others, Untouched
<1> QED  BY <1>2, <1>17, <1>18, FitsOthers

-----------------------------------------------------------------------------
(* The other steps *)

LEMMA StillFits ==
  ASSUME Around, UNCHANGED <<lumi, ledger, errors>>, Gone \subseteq Gone'
  PROVE  CoverInv'
<1>1. \A l \in Lumis : Untouched(l)
  BY DEF Untouched
<1>2. \A l \in Lumis : Fits(l)'
  BY <1>1, FitsUntouched
<1> QED  BY <1>2 DEF CoverInv

\* Files appear, but no other crash file of a process that has one.
LEMMA GoneAppears ==
  ASSUME NEW X, Shifted(Pend, Pend', 0, X),
         \A p \in Pids : /\ Crashed(p) => Crashed(p)' /\ ~Waits(X, CrashFiles(p))
                         /\ Crashed(p)' => Crashed(p) \/ Waits(X, CrashFiles(p))
  PROVE  Gone' = Gone
<1> DEFINE P == Pend
           Q == Pend'
<1>1. Shifted(P, Q, 0, X)
  OBVIOUS
<1> HIDE DEF P, Q
<1>2. \A p : /\ Waits(Q, CrashFiles(p)) => Waits(P, CrashFiles(p)) \/ Waits(X, CrashFiles(p))
             /\ Waits(X, CrashFiles(p)) => Waits(Q, CrashFiles(p))
             /\ Waits(P, CrashFiles(p)) => Waits(Q, CrashFiles(p))
  BY <1>1, WaitsShift
<1>3. ASSUME NEW p \in Pids PROVE p \in Gone' <=> p \in Gone
  <2>1. /\ p \in Gone <=> Crashed(p) /\ ~Waits(P, CrashFiles(p))
        /\ p \in Gone' <=> Crashed(p)' /\ ~Waits(Q, CrashFiles(p))
    BY DEF Gone, P, Q
  <2> QED  BY <1>2, <2>1
<1>4. Gone \subseteq Pids /\ Gone' \subseteq Pids
  BY DEF Gone
<1> QED  BY <1>3, <1>4

LEMMA ReportCrashGone ==
  ASSUME Course, NEW p \in Pids, ReportCrash(p)
  PROVE  Gone' = Gone
<1> DEFINE e == Ev("crash", 0, p, NoStream, 0)
           X == <<e>>
<1>1. /\ Shifted(Pend, Pend', 0, X)
      /\ proc[p].st = "died" /\ proc'[p].st = "crashed"
      /\ \A q \in Pids \ {p} : proc'[q] = proc[q]
      /\ e \in CrashFiles(p) /\ e.pid = p
  BY CrashReported
<1>2. DOMAIN X = {1} /\ X[1] = e
  OBVIOUS
<1> HIDE DEF X, e
<1>3. \A q \in Pids : Waits(X, CrashFiles(q)) <=> q = p
  BY <1>1, <1>2 DEF Waits, CrashFiles
<1>4. \A q \in Pids : /\ Crashed(q) => q # p /\ Crashed(q)'
                      /\ Crashed(q)' => Crashed(q) \/ q = p
  BY <1>1 DEF Crashed
<1> QED  BY <1>1, <1>3, <1>4, GoneAppears

LEMMA OutputGone ==
  ASSUME Course, NEW p \in Pids, NEW s \in Streams, Output(p, s)
  PROVE  Gone' = Gone
<1>1. PICK l : l = Current(p)
  OBVIOUS
<1>2. PICK n : n = grab[l][p]
  OBVIOUS
<1>3. WritesOne(p, s, l, n)
  BY <1>1, <1>2, OutputFacts
<1>4. \A q \in Pids : Crashed(q)' <=> Crashed(q)
  BY <1>3 DEF WritesOne, Crashed
<1>5. PICK e \in FileEvent : Shifted(Pend, Pend', 0, <<e>>) /\ e.kind \in {"json", "bad"}
  BY <1>3 DEF WritesOne
<1> DEFINE X == <<e>>
<1>6. Shifted(Pend, Pend', 0, X)
  BY <1>5
<1>7. \A q : ~Waits(X, CrashFiles(q))
  BY <1>5 DEF Waits, CrashFiles
<1> HIDE DEF X
<1> QED  BY <1>4, <1>6, <1>7, GoneAppears

LEMMA GrabGone ==
  ASSUME Course, NEW p \in Pids, Grab(p)
  PROVE  Gone' = Gone
<1>1. PICK l : l = Current(p)
  OBVIOUS
<1>2. PICK X \in Seq(FileEvent) : ReadsOne(l, p, X)
  BY <1>1, GrabFacts
<1>3. \A q : ~Waits(X, CrashFiles(q))
  BY <1>2 DEF ReadsOne, Waits, CrashFiles, IndexFiles
<1>4. \A q \in Pids : Crashed(q)' <=> Crashed(q)
  BY DEF Grab, Crashed
<1> QED  BY <1>2, <1>3, <1>4, GoneAppears DEF ReadsOne

LEMMA QuietGone ==
  ASSUME Course, FilesInv, Quietly
  PROVE  Gone' = Gone
<1>1. /\ Passes(0)
      /\ \A p \in Pids : \/ proc'[p] = proc[p]
                         \/ proc[p].st # "crashed" /\ proc'[p].st \in {"ended", "died"}
                         \/ proc[p].st = "new" /\ proc'[p].st = "work"
                         \/ /\ proc[p].st = "work" /\ proc'[p].st = "output"
                            /\ proc'[p].ls = proc[p].ls
  BY QuietEffect
<1>2. \A p \in Pids : Crashed(p)' <=> Crashed(p)
  BY <1>1 DEF Crashed
<1>3. \A Z : ~IsHead(0, Z)
  BY DEF IsHead
<1>4. Gone \subseteq Pids /\ Gone' \subseteq Pids
  BY DEF Gone
<1> QED  BY <1>1, <1>2, <1>3, <1>4, GonePasses

LEMMA OutsideGone ==
  ASSUME Course, FilesInv, Outside
  PROVE  Gone' = Gone
<1>1. CASE Quietly
  BY <1>1, QuietGone
<1>2. CASE \E p \in Pids : Grab(p) \/ ReportCrash(p)
  BY <1>2, GrabGone, ReportCrashGone
<1>3. CASE \E p \in Pids, s \in Streams : Output(p, s)
  BY <1>3, OutputGone
<1> QED  BY <1>1, <1>2, <1>3 DEF Outside, Quietly

\* Steps of the script that leave the handlers alone.
LEMMA WaitingFits ==
  ASSUME Around, \/ BufferIndex \/ FlushBuffer \/ Idle \/ Finish \/ DqmTake
                 \/ DropEarly \/ TakeProcessing \/ TakeComplete
  PROVE  CoverInv'
<1>1. CASE BufferIndex \/ FlushBuffer \/ Idle \/ Finish \/ DqmTake
  <2>1. Passes(0) /\ UNCHANGED <<lumi, ledger, errors, proc>>
    BY <1>1, WaitingPasses DEF Around
  <2> QED  BY <2>1, ScriptGone, StillFits
<1>2. CASE DropEarly
  <2>1. Passes(1)
    BY <1>2, DropEarlyShifts, PassesAny DEF Around
  <2>2. UNCHANGED <<lumi, ledger, errors, proc>>
    BY <1>2 DEF DropEarly
  <2> QED  BY <2>1, <2>2, ScriptGone, StillFits
<1>3. CASE TakeProcessing \/ TakeComplete
  <2>1. Passes(1) /\ UNCHANGED proc
    BY <1>3, TakeMoves DEF Around
  <2>2. UNCHANGED <<lumi, ledger, errors>>
    BY <1>3 DEF TakeProcessing, TakeComplete
  <2> QED  BY <2>1, <2>2, ScriptGone, StillFits
<1> QED  BY <1>1, <1>2, <1>3

LEMMA CoverBegins == Init => CoverInv
<1> SUFFICES ASSUME Init, NEW l \in Lumis PROVE Fits(l)
  BY DEF CoverInv
<1>1. lumi[l] = NoHandler /\ errors[l] = 0 /\ \A s \in Streams : ledger[l][s] = Unwritten
  BY DEF Init
<1>2. NoHandler.st = "none"
  BY NoHandlerTyped
<1> QED  BY <1>1, <1>2 DEF Fits, Covered, ErrorsFit, Filled

LEMMA CoverGoesOn ==
  ASSUME Around, [Next]_lumiVars
  PROVE  CoverInv'
<1>1. CASE MainLoop
  BY <1>1, WaitingFits, TakeIndexFits, TakeEoLSFits, TakeJsonFits, TakeBadFits, TakeCrashFits,
     TakeMergedFits DEF MainLoop
<1>2. CASE DqmMerger
  BY <1>2, WaitingFits, DqmDoneFits DEF DqmMerger
<1>3. CASE Outside
  <2>1. Gone' = Gone /\ UNCHANGED <<lumi, ledger, errors>>
    BY <1>3, OutsideGone, OutsideUnchanged DEF Around, scriptVars
  <2> QED  BY <2>1, StillFits
<1>4. CASE UNCHANGED lumiVars
  <2>1. UNCHANGED <<queue, main, lumi, ledger, errors, proc>>
    BY <1>4 DEF lumiVars
  <2>2. Gone' = Gone
    BY <2>1 DEF Gone, Crashed, Pend
  <2> QED  BY <2>1, <2>2, StillFits
<1> QED  BY <1>1, <1>2, <1>3, <1>4 DEF Next

LEMMA MergesBegin == Init => MergesInv
BY DEF Init, Merges, MergesInv

ErrorsInv == Accounts /\ FilesInv /\ MergesInv /\ CoverInv

LEMMA ErrorsHold == Spec => []ErrorsInv
<1>1. Init => ErrorsInv
  BY CourseBegins, BooksBegin, FilesBegin, MergesBegin, CoverBegins DEF Accounts, ErrorsInv
<1>2. ASSUME ErrorsInv, [Next]_lumiVars PROVE ErrorsInv'
  <2>1. Course /\ Books /\ FilesInv /\ MergesInv /\ CoverInv
    BY <1>2 DEF ErrorsInv, Accounts
  <2>2. Course' /\ Books'
    BY <1>2, <2>1, CourseGoesOn, BooksGoOn
  <2>3. FilesInv'
    BY <1>2, <2>1, FilesGoOn
  <2>4. MergesInv'
    BY <1>2, <2>1, MergesGoOn
  <2>5. CoverInv'
    BY <1>2, <2>1, <2>2, CoverGoesOn DEF Around
  <2> QED  BY <2>2, <2>3, <2>4, <2>5 DEF ErrorsInv, Accounts
<1> QED  BY <1>1, <1>2, PTL DEF Spec

\* Events that are in the error stream are lost in every output stream, whatever
\* crashes, comes late or cannot be merged.
THEOREM ErrorsCovered == Spec => []ErrorStreamCovered
<1>1. ErrorsInv => ErrorStreamCovered
  BY DEF ErrorsInv, CoverInv, Fits, ErrorsFit, ErrorStreamCovered, Written
<1> QED  BY <1>1, ErrorsHold, PTL
=============================================================================
