------------------------- MODULE LumiEvents_proofs --------------------------
(***************************************************************************)
(* What the anelastic script makes of the events: the theorems that what   *)
(* is written for a stream says of each event whether the process that     *)
(* read it has delivered the stream, and that no lumisection is left open  *)
(* when the run is complete and nothing is on its way.                     *)
(***************************************************************************)
EXTENDS LumiErrors_proofs

-----------------------------------------------------------------------------
(* What has become of the events *)

\* The processes whose empty file for stream s was taken.
BadTaken(l, s) == {p \in Pids : s \in torn[l][p] /\ ~Waits(Pend, BadFiles(l, p, s))}
\* The processes whose events are lost for each stream.
LostOf(l) == [s \in Streams |-> Gone \union BadTaken(l, s)]

\* The number n is that of the events of some of the processes in A.
PartOf(c, n, A) == \E P \in SUBSET A : n = Share(c, P)

\* The events of an open stream that are accounted for are those of the processes
\* that have delivered it or are lost; those of the former are processed, except
\* that merging may lose some.  Merging begins when all events are accounted for.
TalliedIn(h, s, lost) ==
  /\ h.out[s].proc + h.out[s].err = Share(Counts(h), Got(h, s) \union lost[s])
  /\ \/ h.out[s].proc = Share(Counts(h), Got(h, s))
     \/ h.out[s].stage >= 1 /\ PartOf(Counts(h), h.out[s].proc, Got(h, s))
  /\ h.out[s].stage >= 1 => h.out[s].proc + h.out[s].err = h.total /\ h.eols
  /\ h.out[s].pb \/ h.out[s].stage >= 1 => s \in DqmStreams
Tallied(h, lost) == Filled(h) => \A s \in Streams : h.out[s].open => TalliedIn(h, s, lost)

\* At the end of the lumisection the handler has counted all events.
AllIn(h) ==
  /\ \A p \in Pids : h.pid[p].n <= Max["files"]
  /\ Filled(h) /\ h.eols => h.total = Cardinality(FilesOf(Counts(h)))

\* When all events are accounted for, a process that is not among them has none.
LEMMA NoneMissing ==
  ASSUME NEW h \in Handler, AllIn(h), Filled(h), NEW s \in Streams, NEW lost, TalliedIn(h, s, lost),
         h.out[s].stage >= 1, NEW p \in Pids, p \notin Got(h, s) \union lost[s]
  PROVE  h.pid[p].n = 0
<1> DEFINE c == Counts(h)
           Q == Got(h, s) \union lost[s]
<1>1. Share(c, Q) = Cardinality(FilesOf(c))
  BY DEF TalliedIn, AllIn
<1>2. c \in [Pids -> Nat] /\ c[p] = h.pid[p].n /\ c[p] <= Max["files"] /\ c[p] \in Nat
  BY CountsTyped DEF AllIn
<1> HIDE DEF c, Q
<1>3. c[p] > 0 => p \in Q
  BY <1>1, <1>2, ShareAll
<1> QED  BY <1>2, <1>3 DEF Q

\* A process delivers the stream.
LEMMA TalliedJson ==
  ASSUME NEW h \in Handler, NEW lost, Tallied(h, lost), AllIn(h), NEW p \in Pids, NEW s \in Streams,
         p \notin Got(h, s), p \notin lost[s], NEW g, g = WithJson(h, p, s, h.pid[p].n)
  PROVE  Tallied(g, lost)
<1> DEFINE n == h.pid[p].n
           c == Counts(h)
<1>1. n \in Nat /\ c \in [Pids -> Nat] /\ c[p] = n /\ c[p] <= Max["files"]
  BY CountsTyped, HandlerFields DEF AllIn
<1>2. /\ g \in Handler /\ Kept(g, h) /\ g.total = h.total /\ g.raw = h.raw
      /\ g.pid[p].seen = h.pid[p].seen /\ g.pid[p].n = h.pid[p].n
      /\ g.pid[p].merged = h.pid[p].merged \union {s}
      /\ \A q \in Pids \ {p} : g.pid[q] = h.pid[q]
      /\ \A u \in Streams \ {s} : g.out[u] = h.out[u]
      /\ g.out[s].open = h.out[s].open /\ g.out[s].err = h.out[s].err
      /\ g.out[s].stage = h.out[s].stage
      /\ g.out[s].proc = IF h.out[s].open THEN h.out[s].proc + n ELSE h.out[s].proc
      /\ g.out[s].pb => h.out[s].pb \/ s \in DqmStreams
  <2>1. g = WithJson(h, p, s, n)
    OBVIOUS
  <2> HIDE DEF n
  <2> QED  BY ONLY <1>1, <2>1, h \in Handler, p \in Pids, s \in Streams, JsonFields
<1>3. Counts(g) = c
  BY <1>2 DEF Counts
<1>4. Got(g, s) = Got(h, s) \union {p} /\ \A u \in Streams \ {s} : Got(g, u) = Got(h, u)
  BY <1>2, ZenonT(60) DEF Got
<1> SUFFICES ASSUME Filled(g), NEW u \in Streams, g.out[u].open PROVE TalliedIn(g, u, lost)
  BY DEF Tallied
<1>5. Filled(h) /\ h.out[u].open /\ TalliedIn(h, u, lost)
  <2>1. g.st = h.st /\ g.empty = h.empty
    BY <1>2 DEF Kept
  <2>2. Filled(h)
    BY <2>1 DEF Filled
  <2>3. h.out[u].open
    BY <1>2
  <2> QED  BY <2>2, <2>3 DEF Tallied
<1>6. CASE u # s
  <2>1. Got(g, u) = Got(h, u) /\ g.out[u] = h.out[u]
    BY <1>2, <1>4, <1>6
  <2>2. g.total = h.total /\ g.eols = h.eols
    BY <1>2 DEF Kept
  <2>3. TalliedIn(h, u, lost) = TalliedIn(g, u, lost)
    BY ONLY <1>3, <2>1, <2>2 DEF TalliedIn, c
  <2> QED  BY <1>5, <2>3
<1>7. CASE u = s
  <2> DEFINE A == Got(h, s)
             B == Got(h, s) \union lost[s]
  <2>1. Got(g, s) \union lost[s] = B \union {p} /\ Got(g, s) = A \union {p} /\ p \notin A /\ p \notin B
    BY <1>4
  <2>2. /\ h.out[s].proc + h.out[s].err = Share(c, B)
        /\ h.out[s].proc = Share(c, A) \/ (h.out[s].stage >= 1 /\ PartOf(c, h.out[s].proc, A))
        /\ h.out[s].stage >= 1 => h.out[s].proc + h.out[s].err = h.total /\ h.eols
        /\ h.out[s].pb \/ h.out[s].stage >= 1 => s \in DqmStreams
    BY <1>5, <1>7 DEF TalliedIn
  <2>3. h.out[s].stage >= 1 => n = 0
    BY <1>5, <1>7, NoneMissing
  <2> HIDE DEF A, B, c, n
  <2>4. Share(c, B \union {p}) = Share(c, B) + n /\ Share(c, A \union {p}) = Share(c, A) + n
    BY <1>1, <2>1, ShareAdded
  <2>5. Share(c, A) \in Nat /\ Share(c, B) \in Nat /\ h.out[s].proc \in Nat /\ h.out[s].err \in Nat
    BY ShareFinite, HandlerFields
  <2>6. g.out[s].proc = h.out[s].proc + n /\ g.out[s].err = h.out[s].err /\ g.out[s].stage = h.out[s].stage
    BY <1>2, <1>5, <1>7
  <2>7. g.out[s].proc + g.out[s].err = Share(c, Got(g, s) \union lost[s])
    <3>1. Share(c, Got(g, s) \union lost[s]) = Share(c, B) + n
      BY <2>1, <2>4
    <3>2. (h.out[s].proc + n) + h.out[s].err = Share(c, B) + n
      BY ONLY <1>1, <2>2, <2>5
    <3> QED  BY <2>6, <3>1, <3>2
  <2>8. \/ g.out[s].proc = Share(c, Got(g, s))
        \/ g.out[s].stage >= 1 /\ PartOf(c, g.out[s].proc, Got(g, s))
    <3>1. CASE h.out[s].proc = Share(c, A)
      <4>1. Share(c, Got(g, s)) = Share(c, A) + n
        BY <2>1, <2>4
      <4> QED  BY <2>6, <3>1, <4>1
    <3>2. CASE h.out[s].stage >= 1 /\ PartOf(c, h.out[s].proc, A)
      <4>1. h.out[s].proc + n = h.out[s].proc
        BY ONLY <1>1, <2>3, <2>5, <3>2
      <4>2. PartOf(c, h.out[s].proc, Got(g, s))
        BY <2>1, <3>2 DEF PartOf
      <4> QED  BY <2>6, <3>2, <4>1, <4>2
    <3> QED  BY <2>2, <3>1, <3>2
  <2>9. g.out[s].stage >= 1 => g.out[s].proc + g.out[s].err = g.total /\ g.eols
    <3>1. h.out[s].stage >= 1 => h.out[s].proc + n = h.out[s].proc
      BY ONLY <1>1, <2>3, <2>5
    <3>2. h.out[s].stage >= 1 => (h.out[s].proc + n) + h.out[s].err = h.total
      BY <2>2, <3>1
    <3>3. g.total = h.total /\ g.eols = h.eols
      BY <1>2 DEF Kept
    <3> QED  BY <2>2, <2>6, <3>2, <3>3
  <2>10. g.out[s].pb \/ g.out[s].stage >= 1 => s \in DqmStreams
    BY <1>2, <2>2, <2>6
  <2> QED  BY <1>3, <1>7, <2>7, <2>8, <2>9, <2>10 DEF TalliedIn
<1> QED  BY <1>6, <1>7

\* The events of process p may be lost for some streams, which have not got them.
LosesOne(h, g, p, lost, lost1) ==
  \A u \in Streams :
    /\ g.out[u].open = h.out[u].open /\ g.out[u].proc = h.out[u].proc
    /\ g.out[u].stage >= 1 <=> h.out[u].stage >= 1
    /\ g.out[u].pb = h.out[u].pb
    /\ h.out[u].open =>
         \/ /\ g.out[u].err = h.out[u].err
            /\ Got(h, u) \union lost1[u] = Got(h, u) \union lost[u]
         \/ /\ g.out[u].err = h.out[u].err + h.pid[p].n /\ lost1[u] = lost[u] \union {p}
            /\ p \notin Got(h, u) \union lost[u]

LEMMA TalliedLost ==
  ASSUME NEW h \in Handler, NEW g \in Handler, NEW lost, NEW lost1, Tallied(h, lost), AllIn(h),
         NEW p \in Pids, g.st = h.st, g.empty = h.empty, h.eols => g.eols, g.total = h.total,
         g.pid = h.pid, LosesOne(h, g, p, lost, lost1)
  PROVE  Tallied(g, lost1)
<1> DEFINE n == h.pid[p].n
           c == Counts(h)
<1>1. n \in Nat /\ c \in [Pids -> Nat] /\ c[p] = n /\ c[p] <= Max["files"]
  BY CountsTyped, HandlerFields DEF AllIn
<1>2. Counts(g) = c /\ \A u : Got(g, u) = Got(h, u)
  BY DEF Counts, Got
<1> SUFFICES ASSUME Filled(g), NEW u \in Streams, g.out[u].open PROVE TalliedIn(g, u, lost1)
  BY DEF Tallied
<1>3. Filled(h) /\ h.out[u].open /\ TalliedIn(h, u, lost)
  BY DEF Tallied, Filled, LosesOne
<1> USE DEF LosesOne
<1>4. CASE g.out[u].err = h.out[u].err /\ Got(h, u) \union lost1[u] = Got(h, u) \union lost[u]
  BY <1>2, <1>3, <1>4 DEF TalliedIn
<1>5. CASE /\ g.out[u].err = h.out[u].err + n /\ lost1[u] = lost[u] \union {p}
           /\ p \notin Got(h, u) \union lost[u]
  <2> DEFINE A == Got(h, u)
             B == Got(h, u) \union lost[u]
  <2>1. Got(g, u) \union lost1[u] = B \union {p} /\ p \notin B
    BY <1>2, <1>5
  <2>2. /\ h.out[u].proc + h.out[u].err = Share(c, B)
        /\ h.out[u].proc = Share(c, A) \/ (h.out[u].stage >= 1 /\ PartOf(c, h.out[u].proc, A))
        /\ h.out[u].stage >= 1 => h.out[u].proc + h.out[u].err = h.total /\ h.eols
        /\ h.out[u].pb \/ h.out[u].stage >= 1 => u \in DqmStreams
    BY <1>3 DEF TalliedIn
  <2>3. h.out[u].stage >= 1 => n = 0
    BY <1>3, <1>5, NoneMissing
  <2> HIDE DEF A, B, c, n
  <2>4. Share(c, B \union {p}) = Share(c, B) + n
    BY <1>1, <2>1, ShareAdded
  <2>5. Share(c, B) \in Nat /\ h.out[u].proc \in Nat /\ h.out[u].err \in Nat
    BY ShareFinite, HandlerFields
  <2>6. g.out[u].proc + g.out[u].err = Share(c, Got(g, u) \union lost1[u])
    <3>1. Share(c, Got(g, u) \union lost1[u]) = Share(c, B) + n
      BY <2>1, <2>4, <1>1
    <3>2. h.out[u].proc + (h.out[u].err + n) = Share(c, B) + n
      BY ONLY <1>1, <2>2, <2>5
    <3>3. g.out[u].proc = h.out[u].proc /\ g.out[u].err = h.out[u].err + n
      BY <1>5
    <3> QED  BY <3>1, <3>2, <3>3
  <2>7. \/ g.out[u].proc = Share(c, Got(g, u))
        \/ g.out[u].stage >= 1 /\ PartOf(c, g.out[u].proc, Got(g, u))
    BY <1>2, <2>2 DEF A
  <2>8. g.out[u].stage >= 1 => g.out[u].proc + g.out[u].err = g.total /\ g.eols
    BY <1>5, <2>2, <2>3, <2>5
  <2>9. g.out[u].pb \/ g.out[u].stage >= 1 => u \in DqmStreams
    BY <2>2
  <2> QED  BY <1>2, <2>6, <2>7, <2>8, <2>9 DEF TalliedIn
<1> QED  BY <1>3, <1>4, <1>5

\* Processes without events make no difference.
LEMMA ShareWiden ==
  ASSUME NEW c \in [Pids -> Nat], NEW Q, NEW R, Q \subseteq R,
         \A p \in R : p \in Pids /\ p \notin Q => c[p] = 0
  PROVE  Share(c, R) = Share(c, Q)
<1>1. ASSUME NEW f \in SharedFiles(c, R) PROVE f \in SharedFiles(c, Q)
  <2>1. f \in Pids \X (1 .. Max["files"]) /\ f[2] <= c[f[1]] /\ f[1] \in R
    BY <1>1 DEF SharedFiles, FilesOf
  <2>2. f[1] \in Pids /\ f[2] \in 1 .. Max["files"]
    BY <2>1
  <2>3. c[f[1]] # 0
    BY <2>1, <2>2, MaxTyped
  <2>4. f[1] \in Q
    BY <2>1, <2>2, <2>3
  <2> QED  BY <2>1, <2>4 DEF SharedFiles, FilesOf
<1>2. SharedFiles(c, Q) \subseteq SharedFiles(c, R)
  BY DEF SharedFiles
<1>3. SharedFiles(c, R) = SharedFiles(c, Q)
  BY <1>1, <1>2
<1> QED  BY <1>3 DEF Share

\* Nothing that was counted is counted in another way; who is lost now had no events.
CountsSame(h, g, lost, lost1) ==
  \A u \in Streams : Filled(h) /\ g.out[u].open =>
    /\ h.out[u].open /\ g.out[u].proc = h.out[u].proc /\ g.out[u].err = h.out[u].err
    /\ h.out[u].stage >= 1 => g.out[u].stage >= 1
    /\ g.out[u].stage >= 1 => \/ h.out[u].stage >= 1
                              \/ h.out[u].proc + h.out[u].err = h.total /\ h.eols /\ h.out[u].pb
    /\ g.out[u].pb = h.out[u].pb
    /\ lost[u] \subseteq lost1[u]
    /\ \A p \in Pids : p \in lost1[u] /\ p \notin lost[u] => h.pid[p].n = 0

LEMMA TalliedKept ==
  ASSUME NEW h \in Handler, NEW g \in Handler, NEW lost, NEW lost1, Tallied(h, lost),
         Filled(g) => Filled(h), g.total = h.total, g.pid = h.pid, h.eols => g.eols,
         CountsSame(h, g, lost, lost1)
  PROVE  Tallied(g, lost1)
<1> DEFINE c == Counts(h)
<1> USE DEF CountsSame
<1>1. c \in [Pids -> Nat] /\ \A p \in Pids : c[p] = h.pid[p].n
  BY CountsTyped
<1>2. Counts(g) = c /\ \A u : Got(g, u) = Got(h, u)
  BY DEF Counts, Got
<1> HIDE DEF c
<1> SUFFICES ASSUME Filled(g), NEW u \in Streams, g.out[u].open PROVE TalliedIn(g, u, lost1)
  BY DEF Tallied
<1>3. h.out[u].open /\ TalliedIn(h, u, lost)
  BY DEF Tallied
<1>4. /\ h.out[u].proc + h.out[u].err = Share(c, Got(h, u) \union lost[u])
      /\ \/ h.out[u].proc = Share(c, Got(h, u))
         \/ h.out[u].stage >= 1 /\ PartOf(c, h.out[u].proc, Got(h, u))
      /\ h.out[u].stage >= 1 => h.out[u].proc + h.out[u].err = h.total /\ h.eols
      /\ h.out[u].pb \/ h.out[u].stage >= 1 => u \in DqmStreams
  BY <1>3 DEF TalliedIn, c
<1>5. Share(c, Got(h, u) \union lost1[u]) = Share(c, Got(h, u) \union lost[u])
  <2> DEFINE Q == Got(h, u) \union lost[u]
             R == Got(h, u) \union lost1[u]
  <2>1. Q \subseteq R /\ \A p \in R : p \in Pids /\ p \notin Q => c[p] = 0
    BY <1>1, <1>3
  <2> HIDE DEF Q, R
  <2>2. Share(c, R) = Share(c, Q)
    BY <1>1, <2>1, ShareWiden
  <2> QED  BY <2>2 DEF Q, R
<1>6. g.out[u].proc + g.out[u].err = Share(c, Got(g, u) \union lost1[u])
  BY <1>2, <1>4, <1>5
<1>7. \/ g.out[u].proc = Share(c, Got(g, u))
      \/ g.out[u].stage >= 1 /\ PartOf(c, g.out[u].proc, Got(g, u))
  BY <1>2, <1>4
<1>8. g.out[u].stage >= 1 => g.out[u].proc + g.out[u].err = g.total /\ g.eols
  BY <1>4
<1>9. g.out[u].pb \/ g.out[u].stage >= 1 => u \in DqmStreams
  BY <1>4
<1> QED  BY <1>2, <1>6, <1>7, <1>8, <1>9 DEF TalliedIn

LEMMA TalliedSettled ==
  ASSUME NEW h \in Handler, NEW lost, Tallied(h, lost)
  PROVE  Tallied(Settled(h), lost)
<1>1. CASE Complete(h)
  <2>1. Settled(h).st = "closed"
    BY <1>1, SettledTyped, NoHandlerTyped
  <2> QED  BY <2>1 DEF Tallied, Filled
<1>2. CASE ~Complete(h)
  <2> DEFINE g == Settled(h)
  <2>1. /\ g \in Handler /\ Kept(g, h) /\ g.total = h.total /\ g.pid = h.pid
        /\ \A s \in Streams :
              /\ g.out[s].open = (h.out[s].open /\ s \notin ToWrite(h))
              /\ g.out[s].stage = IF s \in ToMerge(h) THEN 1 ELSE h.out[s].stage
              /\ g.out[s].proc = h.out[s].proc /\ g.out[s].err = h.out[s].err
              /\ g.out[s].pb = h.out[s].pb
    BY <1>2, SettledFields
  <2>2. \A s \in ToMerge(h) : h.eols /\ h.out[s].proc + h.out[s].err = h.total /\ h.out[s].pb
    BY DEF ToMerge, Full
  <2> HIDE DEF g
  <2>3. Filled(g) => Filled(h)
    BY <2>1 DEF Kept, Filled
  <2>4. h.eols => g.eols
    BY <2>1 DEF Kept
  <2>5. CountsSame(h, g, lost, lost)
    <3> SUFFICES ASSUME NEW u \in Streams, g.out[u].open
                 PROVE  /\ h.out[u].open /\ g.out[u].proc = h.out[u].proc /\ g.out[u].err = h.out[u].err
                        /\ h.out[u].stage >= 1 => g.out[u].stage >= 1
                        /\ g.out[u].pb = h.out[u].pb
                        /\ g.out[u].stage >= 1 =>
                             \/ h.out[u].stage >= 1
                             \/ h.out[u].proc + h.out[u].err = h.total /\ h.eols /\ h.out[u].pb
      BY DEF CountsSame
    <3>1. h.out[u].open /\ g.out[u].proc = h.out[u].proc /\ g.out[u].err = h.out[u].err
      <4>1. g.out[u].open = (h.out[u].open /\ u \notin ToWrite(h))
        BY <2>1
      <4> QED  BY <2>1, <4>1
    <3>2. /\ g.out[u].stage = IF u \in ToMerge(h) THEN 1 ELSE h.out[u].stage
          /\ g.out[u].pb = h.out[u].pb
      BY <2>1
    <3> QED  BY <2>2, <3>1, <3>2
  <2>6. Tallied(g, lost)
    BY <2>1, <2>3, <2>4, <2>5, TalliedKept
  <2> QED  BY <2>6 DEF g
<1> QED  BY <1>1, <1>2

\* Index files are taken before any stream file of their lumisection.
LEMMA TalliedIndex ==
  ASSUME NEW h \in Handler, NEW lost, Tallied(h, lost), NEW p \in Pids, ~h.eols,
         NEW g, g = WithIndex(h, p, 1),
         \A s \in Streams : Got(h, s) = {} /\ p \notin lost[s]
  PROVE  Tallied(g, lost)
<1> DEFINE c == Counts(h)
           d == Counts(g)
<1>1. /\ g \in Handler /\ g.pid[p].merged = h.pid[p].merged
      /\ \A q \in Pids \ {p} : g.pid[q] = h.pid[q]
      /\ g.st = h.st /\ g.empty = h.empty /\ g.eols = h.eols /\ g.out = h.out
  <2>1. 1 \in Nat
    OBVIOUS
  <2> QED  BY ONLY <2>1, h \in Handler, p \in Pids, g = WithIndex(h, p, 1), IndexFields
<1>2. /\ c \in [Pids -> Nat] /\ d \in [Pids -> Nat] /\ \A q \in Pids \ {p} : c[q] = d[q]
  BY <1>1, CountsTyped
<1>3. \A s : Got(g, s) = Got(h, s)
  BY <1>1 DEF Got
<1> HIDE DEF c, d
<1> SUFFICES ASSUME Filled(g), NEW u \in Streams, g.out[u].open PROVE TalliedIn(g, u, lost)
  BY DEF Tallied
<1>4. TalliedIn(h, u, lost)
  BY <1>1 DEF Tallied, Filled
<1>5. /\ h.out[u].proc + h.out[u].err = Share(c, Got(h, u) \union lost[u])
      /\ h.out[u].proc = Share(c, Got(h, u)) /\ ~(h.out[u].stage >= 1)
      /\ h.out[u].pb \/ h.out[u].stage >= 1 => u \in DqmStreams
  BY <1>4 DEF TalliedIn, c
<1>6. \A q \in Got(h, u) \union lost[u] : q \in Pids => c[q] = d[q]
  BY <1>2
<1>7. \A q \in Got(h, u) : q \in Pids => c[q] = d[q]
  BY <1>2
<1>8. /\ Share(c, Got(h, u) \union lost[u]) = Share(d, Got(h, u) \union lost[u])
      /\ Share(c, Got(h, u)) = Share(d, Got(h, u))
  BY <1>2, <1>6, <1>7, ShareSame
<1> QED  BY <1>1, <1>3, <1>5, <1>8 DEF TalliedIn, d

\* Nothing of a lumisection was counted whose handler is new.
LEMMA TalliedNew ==
  ASSUME NEW h, h = NewHandler("index"), NEW lost
  PROVE  Tallied(h, lost)
<1>1. h \in Handler /\ h.pid = NoHandler.pid /\ h.out = NoHandler.out
  BY NewFields
<1>2. \A s \in Streams : h.out[s] = [open |-> TRUE, proc |-> 0, err |-> 0, pb |-> FALSE, stage |-> 0]
  BY <1>1, NoHandlerTyped, ZenonT(60)
<1>3. \A s \in Streams :
        h.out[s].proc = 0 /\ h.out[s].err = 0 /\ h.out[s].stage = 0 /\ h.out[s].pb = FALSE
  BY <1>2
<1>4. \A q \in Pids : h.pid[q] = [seen |-> FALSE, n |-> 0, merged |-> {}]
  BY <1>1, NoHandlerTyped, ZenonT(60)
<1>5. \A q \in Pids : h.pid[q].n = 0
  BY <1>4
<1> DEFINE c == Counts(h)
<1>6. c \in [Pids -> Nat] /\ \A q \in Pids : c[q] = 0
  BY <1>1, <1>5, CountsTyped
<1> HIDE DEF c
<1>7. \A Q : Share(c, Q) = 0
  BY <1>6, ShareNone
<1>8. \A s \in Streams : TalliedIn(h, s, lost)
  BY <1>3, <1>7 DEF TalliedIn, c
<1> QED  BY <1>8 DEF Tallied

\* The merged file comes back: the stream gets the counts c.
LEMMA TalliedReturned ==
  ASSUME NEW h \in Handler, NEW g \in Handler, NEW lost, Tallied(h, lost), NEW s \in Streams,
         NEW c, Returned(h, g, s, c), Filled(h) => h.out[s].stage >= 1,
         Filled(h) /\ h.out[s].open => PartOf(Counts(h), c.proc, Got(h, s)) /\ c.proc + c.err = h.total
  PROVE  Tallied(g, lost)
<1>1. /\ g.st = h.st /\ g.empty = h.empty /\ g.eols = h.eols /\ g.total = h.total /\ g.pid = h.pid
      /\ \A u \in Streams \ {s} : g.out[u] = h.out[u]
      /\ g.out[s].open = h.out[s].open /\ g.out[s].stage = h.out[s].stage
      /\ g.out[s].pb = h.out[s].pb
      /\ g.out[s].proc = c.proc /\ g.out[s].err = c.err
  BY DEF Returned, Kept
<1>2. Counts(g) = Counts(h) /\ \A u : Got(g, u) = Got(h, u)
  BY <1>1 DEF Counts, Got
<1> SUFFICES ASSUME Filled(g), NEW u \in Streams, g.out[u].open PROVE TalliedIn(g, u, lost)
  BY DEF Tallied
<1>3. Filled(h) /\ h.out[u].open /\ TalliedIn(h, u, lost)
  BY <1>1 DEF Tallied, Filled
<1>4. CASE u # s
  <2>1. g.out[u] = h.out[u]
    BY <1>1, <1>4
  <2> QED  BY <1>1, <1>2, <1>3, <2>1 DEF TalliedIn
<1>5. CASE u = s
  <2>1. PartOf(Counts(g), g.out[u].proc, Got(g, u)) /\ g.out[u].proc + g.out[u].err = h.total
    BY <1>1, <1>2, <1>3, <1>5
  <2>2. g.out[u].stage = h.out[u].stage /\ h.out[u].stage >= 1 /\ g.out[u].pb = h.out[u].pb
    BY <1>1, <1>3, <1>5
  <2>3. /\ h.total = Share(Counts(h), Got(h, u) \union lost[u]) /\ h.eols
        /\ u \in DqmStreams
    BY <1>3, <2>2 DEF TalliedIn
  <2> QED  BY <1>1, <1>2, <2>1, <2>2, <2>3 DEF TalliedIn
<1> QED  BY <1>4, <1>5

-----------------------------------------------------------------------------
(* The processes whose events are lost *)

LEMMA BadOnce ==
  ASSUME Pending, NEW l, NEW p, NEW s, NEW i \in DOMAIN Pend, NEW j \in DOMAIN Pend, i < j
  PROVE  ~(Pend[i] \in BadFiles(l, p, s) /\ Pend[j] \in BadFiles(l, p, s))
<1> SUFFICES ASSUME Pend[i] \in BadFiles(l, p, s), Pend[j] \in BadFiles(l, p, s) PROVE FALSE
  OBVIOUS
<1>1. Apart(Pend[i], Pend[j])
  BY DEF Pending
<1>2. \A e \in BadFiles(l, p, s) : e.kind = "bad" /\ e.ls = l /\ e.pid = p /\ e.stream = s
  BY DEF BadFiles
<1> QED  BY <1>1, <1>2 DEF Apart

LEMMA BadTakenPasses ==
  ASSUME FilesInv, NEW k, Passes(k), NEW l \in Lumis, torn'[l] = torn[l],
         NEW s \in Streams, NEW p \in Pids
  PROVE  /\ p \in BadTaken(l, s)' <=> p \in BadTaken(l, s) \/ IsHead(k, BadFiles(l, p, s))
         /\ IsHead(k, BadFiles(l, p, s)) => s \in torn[l][p] /\ p \notin BadTaken(l, s)
<1>1. Pending
  BY DEF FilesInv
<1> DEFINE Z == BadFiles(l, p, s)
<1>2. \A e \in Z : e.kind \in FileKinds
  BY DEF BadFiles, FileKinds
<1>3. \A i, j \in DOMAIN Pend : i < j => ~(Pend[i] \in Z /\ Pend[j] \in Z)
  BY <1>1, BadOnce
<1>4. IsHead(k, Z) => Waits(Pend, Z)
  BY DEF IsHead, Waits
<1>5. IsHead(k, Z) => s \in torn[l][p]
  BY <1>1 DEF IsHead, BadFiles, Pending, IsTrue
<1>6. /\ p \in BadTaken(l, s) <=> s \in torn[l][p] /\ ~Waits(Pend, Z)
      /\ p \in BadTaken(l, s)' <=> s \in torn[l][p] /\ ~Waits(Pend', Z)
  BY DEF BadTaken
<1> HIDE DEF Z
<1>7. /\ Waits(Pend', Z) => Waits(Pend, Z)
      /\ Waits(Pend, Z) => Waits(Pend', Z) \/ IsHead(k, Z)
      /\ IsHead(k, Z) => ~Waits(Pend', Z)
  BY <1>2, <1>3, WaitsPasses
<1>8. /\ p \in BadTaken(l, s)' <=> p \in BadTaken(l, s) \/ IsHead(k, Z)
      /\ IsHead(k, Z) => s \in torn[l][p] /\ p \notin BadTaken(l, s)
  BY <1>4, <1>5, <1>6, <1>7
<1> QED  BY <1>8 DEF Z

LEMMA LostPasses ==
  ASSUME FilesInv, NEW k, Passes(k), \A p \in Pids : Crashed(p)' <=> Crashed(p),
         NEW l \in Lumis, torn'[l] = torn[l], NEW s \in Streams, NEW p \in Pids
  PROVE  p \in LostOf(l)'[s] <=>
           p \in LostOf(l)[s] \/ IsHead(k, CrashFiles(p)) \/ IsHead(k, BadFiles(l, p, s))
<1>1. p \in Gone' <=> p \in Gone \/ IsHead(k, CrashFiles(p))
  BY GonePasses
<1>2. p \in BadTaken(l, s)' <=> p \in BadTaken(l, s) \/ IsHead(k, BadFiles(l, p, s))
  BY BadTakenPasses
<1>3. /\ LostOf(l)[s] = Gone \union BadTaken(l, s)
      /\ LostOf(l)'[s] = Gone' \union BadTaken(l, s)'
  BY DEF LostOf
<1> QED  BY <1>1, <1>2, <1>3

LEMMA LostTyped ==
  ASSUME NEW l
  PROVE  /\ \A s \in Streams : LostOf(l)[s] \subseteq Pids /\ LostOf(l)'[s] \subseteq Pids
         /\ \A s \in Streams : LostOf(l)[s] = Gone \union BadTaken(l, s)
         /\ \A s \in Streams : LostOf(l)'[s] = Gone' \union BadTaken(l, s)'
BY DEF LostOf, Gone, BadTaken

-----------------------------------------------------------------------------
(* The events of a lumisection *)

\* The processes that have read events of lumisection l deliver stream s no more.
Fixed(l, s) == \A p \in Pids : grab[l][p] > 0 => s \in Files(l, p) \/ Crashed(p)
\* The number n is that of the events of the processes in A, or zero; or for
\* histograms that of some of the processes.
OfDelivered(c, n, A, s) == n = 0 \/ n = Share(c, A) \/ (s \in DqmStreams /\ PartOf(c, n, A))
\* What was written for it is true.
Told(l) ==
  \A s \in Streams : Written(l, s) =>
    Fixed(l, s) /\ OfDelivered(grab[l], ledger[l][s].proc, Delivered(l, s), s)
EventsOf(l) == Tallied(lumi[l], LostOf(l)) /\ Told(l)

\* The counts that a merge will set account for all events.
SumOf(h, s, c) == h.st = "closed" \/ (h.out[s].open => c.proc + c.err = h.total)

EventsInv == \A l \in Lumis : CountedTwice(l) \/ EventsOf(l)
SumsInv == \A m \in dqm.cur : CountedTwice(m.ls) \/ SumOf(lumi[m.ls], m.stream, dqm.counts)
ToldInv == EventsInv /\ SumsInv

\* What is known before a step, and after it.
Within == Around /\ FilesInv' /\ ToldInv

LEMMA AllCounted2 ==
  ASSUME Around, NEW l \in Lumis, lumi[l].st # "closed"
  PROVE  AllIn(lumi[l]) /\ lumi[l] \in Handler
<1>1. Book(l, lumi[l], Pend, buEols, grab[l], ledger[l], seen)
  BY DEF Around, Books
<1>2. Account(lumi[l], l, Pend, buEols, grab[l])
  BY <1>1 DEF Book
<1>3. Filled(lumi[l]) => lumi[l].total = Cardinality(FilesOf(Counts(lumi[l])))
  BY <1>2 DEF Account, Filled
<1>4. lumi[l] \in Handler /\ grab[l] \in [Pids -> Nat] /\ \A p \in Pids : grab[l][p] <= Max["files"]
  BY RowsTyped
<1>5. ASSUME NEW p \in Pids PROVE lumi[l].pid[p].n <= Max["files"]
  <2>1. lumi[l].pid[p].n + Left(Pend, l, p) = grab[l][p]
    BY <1>2 DEF Account
  <2>2. Left(Pend, l, p) \in Nat /\ lumi[l].pid[p].n \in Nat
    BY <1>4, LeftFinite, HandlerFields DEF Around, Course, Events
  <2> QED  BY <1>4, <2>1, <2>2, MaxTyped
<1> QED  BY <1>3, <1>4, <1>5 DEF AllIn

\* Only processes that have read events make a difference.
LEMMA PartOfSame ==
  ASSUME NEW c \in [Pids -> Nat], NEW A \in SUBSET Pids, NEW V \in SUBSET Pids,
         \A p \in Pids : c[p] > 0 => (p \in A <=> p \in V), NEW n, NEW s
  PROVE  /\ Share(c, A) = Share(c, V)
         /\ PartOf(c, n, A) => PartOf(c, n, V)
         /\ OfDelivered(c, n, A, s) => OfDelivered(c, n, V, s)
<1>1. \A p \in Pids : c[p] = 0 \/ c[p] > 0
  OBVIOUS
<1>2. Share(c, A) = Share(c, V)
  <2>1. /\ \A p \in A \union V : p \in Pids /\ p \notin A => c[p] = 0
        /\ \A p \in A \union V : p \in Pids /\ p \notin V => c[p] = 0
    BY <1>1
  <2>2. Share(c, A \union V) = Share(c, A)
    BY <2>1, ShareWiden
  <2>3. Share(c, A \union V) = Share(c, V)
    BY <2>1, ShareWiden
  <2> QED  BY <2>2, <2>3
<1>3. ASSUME PartOf(c, n, A) PROVE PartOf(c, n, V)
  <2>1. PICK P \in SUBSET A : n = Share(c, P)
    BY <1>3 DEF PartOf
  <2>2. \A p \in P : p \in Pids /\ p \notin P \cap V => c[p] = 0
    BY <1>1, <2>1
  <2>3. Share(c, P) = Share(c, P \cap V)
    BY <2>2, ShareWiden
  <2>4. P \cap V \in SUBSET V
    OBVIOUS
  <2> QED  BY <2>1, <2>3, <2>4 DEF PartOf
<1> QED  BY <1>2, <1>3 DEF OfDelivered

\* What was told stays true: nobody who has read events delivers any more.
LEMMA ToldKept ==
  ASSUME NEW l \in Lumis, ledger'[l] = ledger[l], grab'[l] = grab[l], grab[l] \in [Pids -> Nat],
         Told(l),
         \A p \in Pids : /\ Files(l, p) \subseteq Files(l, p)' /\ valid[l][p] \subseteq valid'[l][p]
                         /\ Crashed(p) => Crashed(p)'
                         /\ \A s \in Streams : s \in valid'[l][p] /\ s \notin valid[l][p] =>
                              ~Crashed(p) /\ s \notin Files(l, p)
  PROVE  Told(l)'
<1> SUFFICES ASSUME NEW s \in Streams, Written(l, s)'
             PROVE  Fixed(l, s)' /\ OfDelivered(grab'[l], ledger'[l][s].proc, Delivered(l, s)', s)
  BY DEF Told
<1>1. Written(l, s)
  BY DEF Written
<1>2. Fixed(l, s) /\ OfDelivered(grab[l], ledger[l][s].proc, Delivered(l, s), s)
  BY <1>1 DEF Told
<1>3. Fixed(l, s)'
  BY <1>2 DEF Fixed
<1>4. Delivered(l, s) \subseteq Delivered(l, s)'
  BY DEF Delivered
<1>5. ASSUME NEW p \in Pids, p \in Delivered(l, s)', p \notin Delivered(l, s) PROVE grab[l][p] = 0
  <2>1. ~Crashed(p) /\ s \notin Files(l, p)
    BY <1>5 DEF Delivered
  <2> QED  BY <1>2, <2>1 DEF Fixed
<1> DEFINE Q == Delivered(l, s)
           R == Delivered(l, s)'
           c == grab[l]
           n == ledger[l][s].proc
<1>6. c \in [Pids -> Nat] /\ Q \in SUBSET Pids /\ R \in SUBSET Pids
  BY DEF Delivered
<1>7. \A p \in Pids : c[p] > 0 => (p \in Q <=> p \in R)
  <2>1. \A p \in Pids : p \in R /\ p \notin Q => ~(c[p] > 0)
    BY <1>5
  <2> QED  BY <1>4, <2>1
<1>8. OfDelivered(c, n, Q, s)
  BY <1>2
<1> HIDE DEF Q, R, c, n
<1>9. OfDelivered(c, n, R, s)
  BY <1>6, <1>7, <1>8, PartOfSame
<1> QED  BY <1>3, <1>9 DEF R, c, n

-----------------------------------------------------------------------------
(* A step of the script *)

\* The main loop goes on: nothing changes outside.
Script(k) == Passes(k) /\ UNCHANGED <<proc, grab, valid, torn>>

LEMMA ScriptOutside ==
  ASSUME NEW k, Script(k), NEW l \in Lumis
  PROVE  /\ \A p \in Pids : (Crashed(p)' <=> Crashed(p)) /\ Files(l, p)' = Files(l, p)
         /\ CountedTwice(l)' <=> CountedTwice(l)
         /\ \A s \in Streams : (Fixed(l, s)' <=> Fixed(l, s)) /\ Delivered(l, s)' = Delivered(l, s)
BY DEF Script, Crashed, Files, CountedTwice, Fixed, Delivered

\* The handler h has what the files of the processes say that were taken.
Takes(l, h, k) ==
  \A p \in Pids :
    /\ lumi[l].pid[p].merged \subseteq h.pid[p].merged
    /\ \A s \in Streams :
         /\ s \in h.pid[p].merged => s \in lumi[l].pid[p].merged \/ IsHead(k, JsonFiles(l, p, s))
         /\ IsHead(k, JsonFiles(l, p, s)) => s \in h.pid[p].merged

\* A process that has delivered the stream or is lost is fixed; the former are
\* those whose file is valid, if they have read events.
LEMMA TakesTrue ==
  ASSUME Within, NEW k, Script(k), NEW l \in Lumis, lumi[l].st # "closed", NEW h, Takes(l, h, k),
         NEW s \in Streams, NEW p \in Pids, grab[l][p] > 0
  PROVE  /\ p \in Got(h, s) => s \in valid[l][p]
         /\ p \in LostOf(l)'[s] => s \in torn[l][p] \/ Crashed(p)
         /\ s \in valid[l][p] /\ p \in LostOf(l)'[s] => p \in Got(h, s)
<1>1. TakenOf(l, p) /\ Pending /\ Pending' /\ MadeBy(p, l)
  BY DEF Within, Around, FilesInv, Made
<1>2. /\ valid[l][p] \cap torn[l][p] = {} /\ torn'[l][p] = torn[l][p]
      /\ Crashed(p)' <=> Crashed(p)
  BY <1>1, ScriptOutside DEF MadeBy, Script
<1>3. ASSUME p \in Got(h, s) PROVE s \in valid[l][p]
  <2>1. s \in lumi[l].pid[p].merged \/ IsHead(k, JsonFiles(l, p, s))
    BY <1>3 DEF Got, Takes
  <2>2. IsHead(k, JsonFiles(l, p, s)) => s \in valid[l][p]
    BY <1>1 DEF IsHead, JsonFiles, Pending, IsTrue
  <2> QED  BY <1>1, <2>1, <2>2 DEF TakenOf
<1>4. ASSUME p \in LostOf(l)'[s]
      PROVE  s \in torn[l][p] \/ (Crashed(p) /\ ~Waits(Pend', CrashFiles(p)))
  <2>1. p \in Gone' \/ p \in BadTaken(l, s)'
    BY <1>4, LostTyped
  <2>2. p \in Gone' => Crashed(p)' /\ ~Waits(Pend', CrashFiles(p))
    BY DEF Gone
  <2>3. p \in BadTaken(l, s)' => s \in torn'[l][p]
    BY DEF BadTaken
  <2> QED  BY <1>2, <2>1, <2>2, <2>3
<1>5. ASSUME s \in valid[l][p], p \in LostOf(l)'[s] PROVE p \in Got(h, s)
  <2> SUFFICES ASSUME s \notin h.pid[p].merged PROVE FALSE
    BY DEF Got
  <2> DEFINE Z == JsonFiles(l, p, s)
  <2>1. Crashed(p)' /\ ~Waits(Pend', CrashFiles(p))
    BY <1>2, <1>4, <1>5
  <2>2. Waits(Pend, Z) /\ ~IsHead(k, Z)
    BY <1>1, <1>5 DEF TakenOf, Takes
  <2>3. \A e \in Z : e.kind \in FileKinds
    BY DEF JsonFiles, FileKinds
  <2>4. Passes(k)
    BY DEF Script
  <2> HIDE DEF Z
  <2>5. Waits(Pend', Z)
    BY <2>2, <2>3, <2>4, WaitsPasses
  <2>6. PICK i \in DOMAIN Pend' : Pend'[i] \in Z
    BY <2>5 DEF Waits
  <2>7. PICK e : e = Pend'[i]
    OBVIOUS
  <2>8. e.kind = "json" /\ e.pid = p
    BY <2>6, <2>7 DEF Z, JsonFiles
  <2>9. e.kind \in {"index", "json", "bad"} /\ Crashed(e.pid)' => Waits(Pend', CrashFiles(e.pid))
    BY <1>1, <2>6, <2>7 DEF Pending, IsTrue
  <2> QED  BY <2>1, <2>8, <2>9
<1> QED  BY <1>3, <1>4, <1>5

\* The handler gets the state h and settles: what it writes is true.
LEMMA EventsSettled ==
  ASSUME Within, NEW k, Script(k), NEW l \in Lumis, lumi[l].st # "closed", Told(l),
         NEW h \in Handler, h.st = "open", Settles(l, h), Takes(l, h, k), Tallied(h, LostOf(l)'),
         h.eols /\ ~h.empty => \A p \in Pids : h.pid[p].n = grab[l][p]
  PROVE  EventsOf(l)'
<1> DEFINE lost == LostOf(l)'
           c == grab[l]
<1>1. /\ lumi'[l] = Settled(h) /\ WrittenFor(h, ledger[l], ledger'[l])
  BY DEF Settles
<1>2. Tallied(lumi'[l], lost)
  <2>1. Tallied(h, lost)
    OBVIOUS
  <2> HIDE DEF lost
  <2> QED  BY <1>1, <2>1, TalliedSettled
<1>3. c \in [Pids -> Nat] /\ (\A p \in Pids : c[p] <= Max["files"]) /\ grab' = grab
  BY RowsTyped DEF Within, Script
<1>4. ASSUME NEW s \in Streams, s \in ToWrite(h)
      PROVE  Fixed(l, s) /\ OfDelivered(c, ledger'[l][s].proc, Delivered(l, s), s)
  <2>1. /\ Filled(h) /\ h.eols /\ h.out[s].open
    BY <1>4 DEF ToWrite, Full, Filled
  <2>2. Counts(h) = c
    BY <1>3, <2>1 DEF Counts, Filled
  <2>3. PICK b \in BOOLEAN : ledger'[l][s] = Entry(h.out[s], b)
    BY <1>1, <1>4 DEF WrittenFor
  <2>4. h.out[s] \in OutFile /\ h.out[s].proc \in Nat /\ h.out[s].err \in Nat
    BY HandlerFields
  <2>5. /\ Entry(h.out[s], b) \in [proc : Nat, err : Nat]
        /\ Entry(h.out[s], b).proc = IF b THEN 0 ELSE h.out[s].proc
        /\ Entry(h.out[s], b).proc + Entry(h.out[s], b).err = h.out[s].proc + h.out[s].err
    BY <2>4, EntryTyped
  <2>6. ledger'[l][s] # Unwritten
    BY <2>3, <2>5, LumiAssumption
  <2>7. h.out[s].proc + h.out[s].err = Cardinality(FilesOf(c))
    BY <1>3, <2>3, <2>5, <2>6 DEF Within, Around, Books, Book
  <2>8. TalliedIn(h, s, lost)
    BY <2>1 DEF Tallied
  <2> DEFINE A == Got(h, s)
             Q == Got(h, s) \union lost[s]
             V == Delivered(l, s)
  <2>9. Share(c, Q) = Cardinality(FilesOf(c)) /\ OfDelivered(c, h.out[s].proc, A, s)
    BY <2>2, <2>7, <2>8 DEF TalliedIn, OfDelivered
  <2>10. ASSUME NEW p \in Pids, c[p] > 0
         PROVE  /\ s \in Files(l, p) \/ Crashed(p)
                /\ p \in A => p \in V
                /\ p \in V => p \in A
    <3>1. p \in Q
      <4> HIDE DEF Q, c
      <4> QED  BY <1>3, <2>9, <2>10, ShareAll
    <3>2. /\ p \in Got(h, s) => s \in valid[l][p]
          /\ p \in LostOf(l)'[s] => s \in torn[l][p] \/ Crashed(p)
          /\ s \in valid[l][p] /\ p \in LostOf(l)'[s] => p \in Got(h, s)
      BY <2>10, TakesTrue
    <3> QED  BY <3>1, <3>2 DEF Files, Delivered
  <2>11. Fixed(l, s)
    BY <2>10 DEF Fixed
  <2>12. OfDelivered(c, h.out[s].proc, V, s)
    <3>1. A \in SUBSET Pids /\ V \in SUBSET Pids
      BY DEF Got, Delivered
    <3>2. \A p \in Pids : c[p] > 0 => (p \in A <=> p \in V)
      BY <2>10
    <3> HIDE DEF A, V, c
    <3> QED  BY <1>3, <2>9, <3>1, <3>2, PartOfSame
  <2>13. OfDelivered(c, ledger'[l][s].proc, V, s)
    <3>1. ledger'[l][s].proc = 0 \/ ledger'[l][s].proc = h.out[s].proc
      BY <2>3, <2>5
    <3> QED  BY <2>12, <3>1 DEF OfDelivered
  <2> QED  BY <2>11, <2>13
<1>5. Told(l)'
  <2> SUFFICES ASSUME NEW s \in Streams, Written(l, s)'
               PROVE  Fixed(l, s)' /\ OfDelivered(grab'[l], ledger'[l][s].proc, Delivered(l, s)', s)
    BY DEF Told
  <2>1. (Fixed(l, s)' <=> Fixed(l, s)) /\ Delivered(l, s)' = Delivered(l, s)
    BY ScriptOutside
  <2>2. CASE s \in ToWrite(h)
    BY <1>3, <1>4, <2>1, <2>2
  <2>3. CASE s \notin ToWrite(h)
    <3>1. ledger'[l][s] = ledger[l][s]
      BY <1>1, <2>3 DEF WrittenFor
    <3>2. Written(l, s)
      BY <3>1 DEF Written
    <3> QED  BY <1>3, <2>1, <3>1, <3>2 DEF Told
  <2> QED  BY <2>2, <2>3
<1> QED  BY <1>2, <1>5 DEF EventsOf

LEMMA EventsUntouched ==
  ASSUME Within, NEW k, Script(k), NEW l \in Lumis, Untouched(l),
         \A p \in Pids, s \in Streams :
           Filled(lumi[l]) /\ lumi[l].out[s].open
             /\ (IsHead(k, CrashFiles(p)) \/ IsHead(k, BadFiles(l, p, s))) => lumi[l].pid[p].n = 0
  PROVE  CountedTwice(l)' \/ EventsOf(l)'
<1> SUFFICES ASSUME ~CountedTwice(l)' PROVE EventsOf(l)'
  OBVIOUS
<1>1. EventsOf(l) /\ lumi'[l] = lumi[l] /\ ledger'[l] = ledger[l]
  BY ScriptOutside DEF Within, ToldInv, EventsInv, Untouched
<1>2. lumi[l] \in Handler /\ grab[l] \in [Pids -> Nat]
  BY RowsTyped DEF Within
<1>3. Told(l)'
  <2>1. \A p \in Pids : Crashed(p)' <=> Crashed(p)
    BY ScriptOutside
  <2>2. \A p \in Pids : Files(l, p)' = Files(l, p) /\ valid'[l][p] = valid[l][p]
    BY ScriptOutside DEF Script
  <2>3. grab'[l] = grab[l] /\ Told(l)
    BY <1>1 DEF Script, EventsOf
  <2> QED  BY <1>1, <1>2, <2>1, <2>2, <2>3, ToldKept
<1> DEFINE h == lumi[l]
           lost == LostOf(l)
           lost1 == LostOf(l)'
<1>4. ASSUME NEW u \in Streams, Filled(h), h.out[u].open
      PROVE  /\ lost[u] \subseteq lost1[u]
             /\ \A p \in Pids : p \in lost1[u] /\ p \notin lost[u] => h.pid[p].n = 0
  <2>1. \A p \in Pids : p \in lost1[u] <=>
           p \in lost[u] \/ IsHead(k, CrashFiles(p)) \/ IsHead(k, BadFiles(l, p, u))
    BY ScriptOutside, LostPasses DEF Within, Around, Script
  <2>2. lost[u] \subseteq Pids
    BY LostTyped
  <2> QED  BY <1>4, <2>1, <2>2
<1>5. Tallied(h, lost) /\ h \in Handler
  BY <1>1, <1>2 DEF EventsOf
<1> HIDE DEF h, lost, lost1
<1>6. CountsSame(h, h, lost, lost1)
  BY <1>4 DEF CountsSame
<1>7. Tallied(h, lost1)
  BY <1>5, <1>6, TalliedKept
<1> QED  BY <1>1, <1>3, <1>7 DEF EventsOf, h, lost1

\* A lumisection without events.
LEMMA EventsEmpty ==
  ASSUME Within, NEW k, Script(k), NEW l \in Lumis, Empties(l)
  PROVE  CountedTwice(l)' \/ EventsOf(l)'
<1> SUFFICES ASSUME ~CountedTwice(l)' PROVE EventsOf(l)'
  OBVIOUS
<1>1. Told(l)
  BY ScriptOutside DEF Within, ToldInv, EventsInv, EventsOf
<1>2. Tallied(lumi'[l], LostOf(l)')
  <2>1. ~Filled(lumi'[l])
    BY DEF Empties, Blank, Filled
  <2> QED  BY <2>1 DEF Tallied
<1>3. grab[l] \in [Pids -> Nat] /\ (\A p \in Pids : grab[l][p] <= Max["files"]) /\ grab' = grab
  BY RowsTyped DEF Within, Script
<1>4. ASSUME NEW s \in Streams, ledger'[l][s] = [proc |-> 0, err |-> 0]
      PROVE  Fixed(l, s) /\ ledger'[l][s].proc = 0
  <2> DEFINE c == grab[l]
             z == [proc |-> 0, err |-> 0]
  <2>1. z.proc = 0 /\ z.err = 0 /\ z \in [proc : Nat, err : Nat] /\ ledger'[l][s] = z
    BY <1>4
  <2> HIDE DEF z
  <2>2. ledger'[l][s] # Unwritten
    BY <2>1, LumiAssumption
  <2>3. z.proc + z.err = Cardinality(FilesOf(c))
    BY <1>3, <2>1, <2>2 DEF Within, Around, Books, Book
  <2>4. Cardinality(FilesOf(c)) = 0
    BY <2>1, <2>3
  <2> HIDE DEF c
  <2>5. Share(c, {}) = 0
    BY <1>3, ShareNone DEF c
  <2>6. \A p \in Pids : ~(c[p] > 0)
    <3> SUFFICES ASSUME NEW p \in Pids, c[p] > 0 PROVE p \in {}
      OBVIOUS
    <3>1. c \in [Pids -> Nat] /\ c[p] <= Max["files"] /\ Share(c, {}) = Cardinality(FilesOf(c))
      BY <1>3, <2>4, <2>5 DEF c
    <3> QED  BY <3>1, ShareAll
  <2> QED  BY <2>1, <2>6 DEF Fixed, c
<1>5. Told(l)'
  <2> SUFFICES ASSUME NEW s \in Streams, Written(l, s)'
               PROVE  Fixed(l, s)' /\ OfDelivered(grab'[l], ledger'[l][s].proc, Delivered(l, s)', s)
    BY DEF Told
  <2>1. (Fixed(l, s)' <=> Fixed(l, s)) /\ Delivered(l, s)' = Delivered(l, s)
    BY ScriptOutside
  <2>2. CASE ledger'[l][s] = [proc |-> 0, err |-> 0]
    BY <1>4, <2>1, <2>2 DEF OfDelivered
  <2>3. CASE ledger'[l][s] = ledger[l][s]
    <3>1. Written(l, s)
      BY <2>3 DEF Written
    <3> QED  BY <1>1, <1>3, <2>1, <2>3, <3>1 DEF Told
  <2> QED  BY <2>2, <2>3 DEF Empties
<1> QED  BY <1>2, <1>5 DEF EventsOf

\* Nobody is lost when neither a crash file nor an empty file is taken.
LEMMA LostSame ==
  ASSUME Within, NEW k, Script(k), NEW l \in Lumis,
         \A p \in Pids : ~IsHead(k, CrashFiles(p)) /\ \A s \in Streams : ~IsHead(k, BadFiles(l, p, s))
  PROVE  LostOf(l)' = LostOf(l)
<1>1. \A s \in Streams, p \in Pids : p \in LostOf(l)'[s] <=> p \in LostOf(l)[s]
  BY ScriptOutside, LostPasses DEF Within, Around, Script
<1>2. \A s \in Streams : LostOf(l)'[s] = LostOf(l)[s]
  BY <1>1, LostTyped
<1>3. /\ LostOf(l) = [s \in Streams |-> LostOf(l)[s]]
      /\ LostOf(l)' = [s \in Streams |-> LostOf(l)'[s]]
  BY DEF LostOf
<1> QED  BY <1>2, <1>3

LEMMA HeadTaken ==
  ASSUME Within, Takings
  PROVE  /\ Script(1) /\ 1 \in DOMAIN Pend /\ Event = Pend[1] /\ WellFormed(Event)
         /\ \A p : IsHead(1, CrashFiles(p)) <=> Event.kind = "crash" /\ Event.pid = p
         /\ \A l, p, s : IsHead(1, BadFiles(l, p, s)) <=>
              Event.kind = "bad" /\ Event.ls = l /\ Event.pid = p /\ Event.stream = s
         /\ \A l, p, s : IsHead(1, JsonFiles(l, p, s)) <=>
              Event.kind = "json" /\ Event.ls = l /\ Event.pid = p /\ Event.stream = s
<1>1. /\ Passes(1) /\ Pend[1] = Event /\ 1 \in DOMAIN Pend /\ WellFormed(Event)
      /\ UNCHANGED <<proc, grab, valid, torn>>
  BY TakeMoves DEF Within, Around, Takings
<1>2. PICK e : e = Event
  OBVIOUS
<1>3. Pend[1] = e /\ e \in FileEvent
  BY <1>1, <1>2 DEF WellFormed
<1> QED  BY <1>1, <1>2, <1>3 DEF Script, IsHead, CrashFiles, BadFiles, JsonFiles

LEMMA EventsOthers ==
  ASSUME Within, Takings, Event.kind # "crash", NEW l \in Lumis, l = Event.ls, Others(l),
         CountedTwice(l)' \/ EventsOf(l)'
  PROVE  EventsInv'
<1>1. Script(1)
  BY HeadTaken
<1>2. ASSUME NEW k \in Lumis \ {l} PROVE CountedTwice(k)' \/ EventsOf(k)'
  <2>1. Untouched(k)
    BY DEF Others
  <2>2. \A p \in Pids, s \in Streams : ~IsHead(1, CrashFiles(p)) /\ ~IsHead(1, BadFiles(k, p, s))
    BY HeadTaken
  <2> QED  BY <1>1, <2>1, <2>2, EventsUntouched
<1> QED  BY <1>2 DEF EventsInv

\* A handler which has the files of the one before.
LEMMA TakesSame ==
  ASSUME NEW k, NEW l \in Lumis, NEW h, \A p \in Pids : h.pid[p].merged = lumi[l].pid[p].merged,
         \A p \in Pids, s \in Streams : ~IsHead(k, JsonFiles(l, p, s))
  PROVE  Takes(l, h, k)
BY DEF Takes

\* A new handler has no files, like the one before.
LEMMA NoneTaken ==
  ASSUME Within, NEW l \in Lumis, lumi[l].st = "none", NEW h, h.pid = NoHandler.pid
  PROVE  \A p \in Pids : h.pid[p].merged = lumi[l].pid[p].merged
<1>1. \A p \in Pids : ~lumi[l].pid[p].seen
  BY NotSeen DEF Within, Around
<1>2. \A p \in Pids : lumi[l].pid[p].merged = {}
  BY <1>1 DEF Within, Around, FilesInv, Known
<1>3. \A p \in Pids : h.pid[p] = [seen |-> FALSE, n |-> 0, merged |-> {}]
  BY NoHandlerTyped
<1>4. \A p \in Pids : h.pid[p].merged = {}
  BY <1>3
<1> QED  BY <1>2, <1>4

LEMMA TakeIndexEvents ==
  ASSUME Within, TakeIndex
  PROVE  EventsInv'
<1>1. PICK l : l = Event.ls
  OBVIOUS
<1>2. PICK p : p = Event.pid
  OBVIOUS
<1>3. PICK h : h = IF Open(l) THEN lumi[l] ELSE NewHandler("index")
  OBVIOUS
<1>4. PICK g : g = WithIndex(h, p, 1)
  OBVIOUS
<1>5. /\ l \in Lumis /\ p \in Pids /\ h \in Handler /\ h.st = "open" /\ ~h.eols /\ ~h.empty
      /\ Open(l) \/ lumi[l].st = "none"
      /\ ~Over(Pend, buEols, l)
      /\ Settles(l, g) /\ Others(l)
  BY <1>1, <1>2, <1>3, <1>4, IndexEffect DEF Within, Around
<1>6. Takings /\ Event.kind = "index"
  BY DEF Takings, TakeIndex
<1>7. Script(1) /\ Event = Pend[1] /\ 1 \in DOMAIN Pend
  BY <1>6, HeadTaken
<1>8. /\ \A q \in Pids : ~IsHead(1, CrashFiles(q))
      /\ \A q \in Pids, s \in Streams : ~IsHead(1, BadFiles(l, q, s)) /\ ~IsHead(1, JsonFiles(l, q, s))
  BY <1>6, HeadTaken
<1>9. LostOf(l)' = LostOf(l)
  BY <1>5, <1>7, <1>8, LostSame
<1>10. /\ g \in Handler /\ g.pid[p].merged = h.pid[p].merged
       /\ \A q \in Pids \ {p} : g.pid[q] = h.pid[q]
       /\ g.st = "open" /\ ~g.eols
  <2>1. 1 \in Nat
    OBVIOUS
  <2> QED  BY ONLY <2>1, <1>4, <1>5, IndexFields
<1>11. \A q \in Pids : h.pid[q].merged = lumi[l].pid[q].merged
  <2>1. ~Open(l) => h.pid = NoHandler.pid
    BY <1>3, NewFields
  <2> QED  BY <1>3, <1>5, <2>1, NoneTaken
<1>12. \A q \in Pids : g.pid[q].merged = lumi[l].pid[q].merged
  BY <1>10, <1>11
<1>13. Takes(l, g, 1)
  BY <1>5, <1>8, <1>12, TakesSame
<1>14. \A q \in Pids : TakenOf(l, q)
  BY <1>5 DEF Within, Around, FilesInv
<1>15. \A s \in Streams : Got(h, s) = {} /\ p \notin LostOf(l)[s]
  <2> SUFFICES ASSUME NEW s \in Streams PROVE Got(h, s) = {} /\ p \notin LostOf(l)[s]
    OBVIOUS
  <2>1. Got(h, s) = {}
    BY <1>5, <1>11, <1>14 DEF Got, TakenOf
  <2>2. p \notin Gone
    BY <1>2, <1>6, <1>7, HeadIsTrue DEF Within, Around
  <2>3. p \notin BadTaken(l, s)
    BY <1>5, <1>14 DEF BadTaken, TakenOf
  <2> QED  BY <2>1, <2>2, <2>3, LostTyped
<1>16. ASSUME ~CountedTwice(l)' PROVE EventsOf(l)'
  <2>1. EventsOf(l)
    BY <1>5, <1>7, <1>16, ScriptOutside DEF Within, ToldInv, EventsInv
  <2>2. Tallied(h, LostOf(l)')
    <3>1. CASE Open(l)
      BY <1>3, <1>9, <2>1, <3>1 DEF EventsOf
    <3>2. CASE ~Open(l)
      BY <1>3, <3>2, TalliedNew
    <3> QED  BY <3>1, <3>2
  <2>3. \A s \in Streams : Got(h, s) = {} /\ p \notin LostOf(l)'[s]
    BY <1>9, <1>15
  <2>4. Tallied(g, LostOf(l)')
    BY <1>4, <1>5, <2>2, <2>3, TalliedIndex
  <2>5. Told(l) /\ lumi[l].st # "closed"
    BY <1>5, <2>1 DEF EventsOf, Open
  <2> QED  BY <1>5, <1>7, <1>10, <1>13, <2>4, <2>5, EventsSettled
<1> QED  BY <1>1, <1>5, <1>6, <1>16, EventsOthers

LEMMA TakeEoLSEvents ==
  ASSUME Within, TakeEoLS
  PROVE  EventsInv'
<1>1. PICK l : l = Event.ls
  OBVIOUS
<1>2. /\ l \in Lumis /\ Others(l)
      /\ \/ Untouched(l)
         \/ \E h \in Handler, g \in Handler :
              /\ h = lumi[l] \/ (Blank(h) /\ h.pid = NoHandler.pid /\ lumi[l].st = "none")
              /\ h.st = "open" /\ g = [h EXCEPT !.eols = TRUE] /\ Settles(l, g)
  BY <1>1, EoLSEffect DEF Within, Around
<1>3. Takings /\ Event.kind = "eols"
  BY DEF Takings, TakeEoLS
<1>4. Script(1)
  BY <1>3, HeadTaken
<1>5. /\ \A q \in Pids : ~IsHead(1, CrashFiles(q))
      /\ \A q \in Pids, s \in Streams : ~IsHead(1, BadFiles(l, q, s)) /\ ~IsHead(1, JsonFiles(l, q, s))
  BY <1>3, HeadTaken
<1>6. LostOf(l)' = LostOf(l)
  BY <1>2, <1>4, <1>5, LostSame
<1>7. Over(Pend, buEols, l)
  BY <1>1, HeadOver DEF Within, Around, TakeEoLS
<1>8. ASSUME NEW h \in Handler, NEW g \in Handler,
             h = lumi[l] \/ (Blank(h) /\ h.pid = NoHandler.pid /\ lumi[l].st = "none"),
             h.st = "open", g = [h EXCEPT !.eols = TRUE], Settles(l, g), ~CountedTwice(l)'
      PROVE  EventsOf(l)'
  <2>1. EventsOf(l)
    BY <1>2, <1>4, <1>8, ScriptOutside DEF Within, ToldInv, EventsInv
  <2>2. /\ g.eols /\ g.st = h.st /\ g.empty = h.empty /\ g.total = h.total /\ g.pid = h.pid
        /\ g.out = h.out
    BY <1>8, EolsFields
  <2>3. lumi[l].st # "closed"
    BY <1>8
  <2>4. \A q \in Pids : g.pid[q].merged = lumi[l].pid[q].merged
    BY <1>2, <1>8, <2>2, NoneTaken
  <2>5. Takes(l, g, 1)
    BY <1>2, <1>5, <2>4, TakesSame
  <2>6. Tallied(g, LostOf(l)')
    <3>1. CASE h = lumi[l]
      <4> DEFINE lost == LostOf(l)
      <4>1. Tallied(h, lost) /\ LostOf(l)' = lost
        BY <1>6, <2>1, <3>1 DEF EventsOf
      <4> HIDE DEF lost
      <4>2. Filled(g) => Filled(h)
        BY <2>2 DEF Filled
      <4>3. CountsSame(h, g, lost, lost)
        BY <2>2 DEF CountsSame
      <4>4. Tallied(g, lost)
        BY <2>2, <4>1, <4>2, <4>3, TalliedKept
      <4> QED  BY <4>1, <4>4
    <3>2. CASE Blank(h)
      BY <2>2, <3>2 DEF Blank, Tallied, Filled
    <3> QED  BY <1>8, <3>1, <3>2
  <2>7. g.eols /\ ~g.empty => \A q \in Pids : g.pid[q].n = grab[l][q]
    <3>1. CASE h = lumi[l]
      BY <1>2, <1>7, <2>2, <2>3, <3>1, OpenCounts DEF Within
    <3>2. CASE Blank(h)
      BY <2>2, <3>2 DEF Blank
    <3> QED  BY <1>8, <3>1, <3>2
  <2>8. Told(l) /\ g.st = "open"
    BY <1>8, <2>1, <2>2 DEF EventsOf
  <2> QED  BY <1>2, <1>4, <1>8, <2>3, <2>5, <2>6, <2>7, <2>8, EventsSettled
<1>9. CountedTwice(l)' \/ EventsOf(l)'
  <2>1. CASE Untouched(l)
    BY <1>2, <1>4, <1>5, <2>1, EventsUntouched
  <2> QED  BY <1>2, <1>8, <2>1
<1> QED  BY <1>1, <1>2, <1>3, <1>9, EventsOthers

LEMMA TakeMergedEvents ==
  ASSUME Within, TakeMerged
  PROVE  EventsInv'
<1>1. PICK l : l = Event.ls
  OBVIOUS
<1>2. PICK s : s = Event.stream
  OBVIOUS
<1>3. PICK g : g = WithMerged(lumi[l], s)
  OBVIOUS
<1>4. PICK h : h = lumi[l]
  OBVIOUS
<1>5. /\ l \in Lumis /\ s \in Streams /\ Others(l)
      /\ \/ Untouched(l)
         \/ Open(l) /\ g \in Handler /\ Settles(l, g)
  BY <1>1, <1>2, <1>3, MergedEffect DEF Within, Around
<1>6. Takings /\ Event.kind = "merged"
  BY DEF Takings, TakeMerged
<1>7. Script(1) /\ h \in Handler
  BY <1>4, <1>5, <1>6, HeadTaken, RowsTyped DEF Within
<1>8. /\ \A q \in Pids : ~IsHead(1, CrashFiles(q))
      /\ \A q \in Pids, u \in Streams : ~IsHead(1, BadFiles(l, q, u)) /\ ~IsHead(1, JsonFiles(l, q, u))
  BY <1>6, HeadTaken
<1>9. LostOf(l)' = LostOf(l)
  BY <1>5, <1>7, <1>8, LostSame
<1>10. ASSUME Open(l), g \in Handler, Settles(l, g), ~CountedTwice(l)' PROVE EventsOf(l)'
  <2>1. EventsOf(l) /\ h.st = "open"
    BY <1>4, <1>5, <1>7, <1>10, ScriptOutside DEF Within, ToldInv, EventsInv, Open
  <2>2. /\ g.st = h.st /\ g.empty = h.empty /\ g.eols = h.eols /\ g.total = h.total
        /\ g.pid = h.pid
        /\ \A u \in Streams \ {s} : g.out[u] = h.out[u]
        /\ g.out[s].open = h.out[s].open /\ g.out[s].proc = h.out[s].proc
        /\ g.out[s].err = h.out[s].err /\ g.out[s].pb = h.out[s].pb
        /\ \/ g.out[s].stage = h.out[s].stage
           \/ g.out[s].stage = 2 /\ h.out[s].stage = 1
    <3>1. g = WithMerged(h, s)
      BY <1>3, <1>4
    <3> QED  BY <1>5, <1>7, <3>1, MergedFields DEF Kept
  <2>3. \A u \in Streams : /\ g.out[u].open = h.out[u].open /\ g.out[u].proc = h.out[u].proc
                           /\ g.out[u].err = h.out[u].err /\ g.out[u].pb = h.out[u].pb
                           /\ g.out[u].stage >= 1 <=> h.out[u].stage >= 1
    BY <2>2
  <2> DEFINE lost == LostOf(l)
  <2>4. Tallied(h, lost) /\ LostOf(l)' = lost /\ Told(l)
    BY <1>4, <1>9, <2>1 DEF EventsOf
  <2> HIDE DEF lost
  <2>5. Filled(g) => Filled(h)
    BY <2>2 DEF Filled
  <2>6. Tallied(g, lost)
    <3>1. CountsSame(h, g, lost, lost)
      BY <2>3 DEF CountsSame
    <3>2. g \in Handler /\ h \in Handler /\ g.total = h.total /\ g.pid = h.pid /\ (h.eols => g.eols)
      BY <1>7, <1>10, <2>2
    <3> QED  BY ONLY <2>4, <2>5, <3>1, <3>2, TalliedKept
  <2>7. Tallied(g, LostOf(l)')
    BY <2>4, <2>6
  <2>8. Takes(l, g, 1)
    BY <1>4, <1>5, <1>8, <2>2, TakesSame
  <2>9. g.eols /\ ~g.empty => \A q \in Pids : g.pid[q].n = grab[l][q]
    BY <1>4, <1>5, <2>1, <2>2, OpenCounts, ZenonT(60) DEF Within
  <2>10. lumi[l].st # "closed" /\ g.st = "open"
    BY <1>4, <2>1, <2>2
  <2> QED  BY <1>5, <1>7, <1>10, <2>4, <2>7, <2>8, <2>9, <2>10, EventsSettled
<1>11. CountedTwice(l)' \/ EventsOf(l)'
  BY <1>5, <1>7, <1>8, <1>10, EventsUntouched
<1> QED  BY <1>1, <1>5, <1>6, <1>11, EventsOthers

LEMMA TakeJsonEvents ==
  ASSUME Within, TakeJson
  PROVE  EventsInv'
<1>1. PICK l : l = Event.ls
  OBVIOUS
<1>2. PICK p : p = Event.pid
  OBVIOUS
<1>3. PICK s : s = Event.stream
  OBVIOUS
<1>4. PICK n : n = Event.n
  OBVIOUS
<1>5. PICK h : h = lumi[l]
  OBVIOUS
<1>6. PICK g : g = WithJson(h, p, s, n)
  OBVIOUS
<1>7. /\ l \in Lumis /\ p \in Pids /\ s \in Streams /\ n \in Nat
      /\ Others(l) /\ Over(Pend, buEols, l)
      /\ \/ Open(l) /\ g \in Handler /\ Settles(l, g)
         \/ Untouched(l) \/ Empties(l)
  BY <1>1, <1>2, <1>3, <1>4, <1>5, <1>6, JsonEffect DEF Within, Around
<1>8. Takings /\ Event.kind = "json"
  BY DEF Takings, TakeJson
<1>9. Script(1) /\ Event = Pend[1] /\ 1 \in DOMAIN Pend /\ h \in Handler
  BY <1>5, <1>7, <1>8, HeadTaken, RowsTyped DEF Within
<1>10. /\ \A q \in Pids : ~IsHead(1, CrashFiles(q))
       /\ \A q \in Pids, u \in Streams : ~IsHead(1, BadFiles(l, q, u))
       /\ \A q \in Pids, u \in Streams : IsHead(1, JsonFiles(l, q, u)) <=> q = p /\ u = s
  BY <1>1, <1>2, <1>3, <1>8, HeadTaken
<1>11. LostOf(l)' = LostOf(l)
  BY <1>7, <1>9, <1>10, LostSame
<1>12. ASSUME Open(l), g \in Handler, Settles(l, g), ~CountedTwice(l)' PROVE EventsOf(l)'
  <2>1. EventsOf(l) /\ h.st = "open"
    BY <1>5, <1>7, <1>9, <1>12, ScriptOutside DEF Within, ToldInv, EventsInv, Open
  <2>2. \A q \in Pids : h.pid[q].n = grab[l][q]
    BY <1>5, <1>7, <2>1, OpenCounts DEF Within
  <2>3. s \in valid[l][p] /\ s \notin h.pid[p].merged /\ n = h.pid[p].n /\ p \notin Gone
    <3>1. IsTrue(Event) /\ Event.pid \notin Gone
      BY <1>8, <1>9, HeadIsTrue DEF Within, Around
    <3> QED  BY <1>1, <1>2, <1>3, <1>4, <1>5, <1>7, <1>8, <2>2, <3>1 DEF IsTrue
  <2>4. p \notin BadTaken(l, s)
    <3>1. valid[l][p] \cap torn[l][p] = {}
      BY <1>7 DEF Within, Around, FilesInv, Made, MadeBy
    <3> QED  BY <2>3, <3>1 DEF BadTaken
  <2>5. p \notin Got(h, s) /\ p \notin LostOf(l)'[s]
    BY <1>7, <1>11, <2>3, <2>4, LostTyped DEF Got
  <2>6. Tallied(h, LostOf(l)')
    BY <1>5, <1>11, <2>1 DEF EventsOf
  <2>7. AllIn(h)
    BY <1>5, <1>7, <2>1, AllCounted2 DEF Within
  <2>8. g = WithJson(h, p, s, h.pid[p].n)
    BY <1>6, <2>3
  <2>9. Tallied(g, LostOf(l)')
    BY <1>7, <1>9, <2>5, <2>6, <2>7, <2>8, TalliedJson
  <2>10. /\ Kept(g, h) /\ g.pid[p].n = h.pid[p].n /\ g.pid[p].merged = h.pid[p].merged \union {s}
         /\ \A q \in Pids \ {p} : g.pid[q] = h.pid[q]
    BY ONLY <1>6, <1>7, <1>9, JsonFields
  <2>11. Takes(l, g, 1)
    BY <1>5, <1>10, <2>10 DEF Takes
  <2>12. \A q \in Pids : g.pid[q].n = grab[l][q]
    BY <2>2, <2>10
  <2>13. lumi[l].st # "closed" /\ g.st = "open" /\ Told(l)
    BY <1>5, <2>1, <2>10 DEF Kept, EventsOf
  <2> QED  BY <1>7, <1>9, <1>12, <2>9, <2>11, <2>12, <2>13, EventsSettled
<1>13. CountedTwice(l)' \/ EventsOf(l)'
  BY <1>7, <1>9, <1>10, <1>12, EventsUntouched, EventsEmpty
<1> QED  BY <1>1, <1>7, <1>8, <1>13, EventsOthers

LEMMA TakeBadEvents ==
  ASSUME Within, TakeBad
  PROVE  EventsInv'
<1>1. PICK l : l = Event.ls
  OBVIOUS
<1>2. PICK p : p = Event.pid
  OBVIOUS
<1>3. PICK s : s = Event.stream
  OBVIOUS
<1>4. PICK h : h = lumi[l]
  OBVIOUS
<1>5. PICK g : g = WithBad(h, p, s)
  OBVIOUS
<1>6. /\ l \in Lumis /\ p \in Pids /\ s \in Streams /\ Others(l) /\ Over(Pend, buEols, l)
      /\ \/ Open(l) /\ h.out[s].open /\ g \in Handler /\ Settles(l, g)
         \/ /\ Untouched(l) \/ Empties(l)
            /\ \/ h.st # "open" \/ h.empty \/ ~h.out[s].open \/ ~h.pid[p].seen
  BY <1>1, <1>2, <1>3, <1>4, <1>5, BadEffect DEF Within, Around
<1>7. Takings /\ Event.kind = "bad"
  BY DEF Takings, TakeBad
<1>8. Script(1) /\ Event = Pend[1] /\ 1 \in DOMAIN Pend /\ h \in Handler
  BY <1>4, <1>6, <1>7, HeadTaken, RowsTyped DEF Within
<1>9. /\ \A q \in Pids : ~IsHead(1, CrashFiles(q))
      /\ \A q \in Pids, u \in Streams : ~IsHead(1, JsonFiles(l, q, u))
      /\ \A q \in Pids, u \in Streams : IsHead(1, BadFiles(l, q, u)) <=> q = p /\ u = s
  BY <1>1, <1>2, <1>3, <1>7, HeadTaken
<1>10. ASSUME Open(l), h.out[s].open, g \in Handler, Settles(l, g), ~CountedTwice(l)'
       PROVE  EventsOf(l)'
  <2>1. EventsOf(l) /\ h.st = "open"
    BY <1>4, <1>6, <1>8, <1>10, ScriptOutside DEF Within, ToldInv, EventsInv, Open
  <2>2. s \in torn[l][p] /\ p \notin LostOf(l)[s]
    <3>1. IsHead(1, BadFiles(l, p, s))
      BY <1>6, <1>9
    <3>2. s \in torn[l][p] /\ p \notin BadTaken(l, s)
      BY <1>6, <1>8, <3>1, BadTakenPasses DEF Within, Around, Script
    <3>3. p \notin Gone
      BY <1>2, <1>7, <1>8, HeadIsTrue DEF Within, Around
    <3> QED  BY <1>6, <3>2, <3>3, LostTyped
  <2>3. p \notin Got(h, s)
    <3>1. valid[l][p] \cap torn[l][p] = {} /\ h.pid[p].merged \subseteq valid[l][p]
      BY <1>4, <1>6 DEF Within, Around, FilesInv, Made, MadeBy, TakenOf
    <3> QED  BY <2>2, <3>1 DEF Got
  <2>4. /\ LostOf(l)'[s] = LostOf(l)[s] \union {p}
        /\ \A u \in Streams \ {s} : LostOf(l)'[u] = LostOf(l)[u]
    <3>1. \A u \in Streams, q \in Pids : q \in LostOf(l)'[u] <=> q \in LostOf(l)[u] \/ (q = p /\ u = s)
      BY <1>6, <1>8, <1>9, ScriptOutside, LostPasses DEF Within, Around, Script
    <3>2. \A u \in Streams : LostOf(l)[u] \subseteq Pids /\ LostOf(l)'[u] \subseteq Pids
      BY LostTyped
    <3> QED  BY <1>6, <3>1, <3>2
  <2>5. /\ g.st = h.st /\ g.empty = h.empty /\ g.eols = h.eols /\ g.total = h.total /\ g.pid = h.pid
        /\ \A u \in Streams \ {s} : g.out[u] = h.out[u]
        /\ g.out[s].open = h.out[s].open /\ g.out[s].proc = h.out[s].proc
        /\ g.out[s].stage = h.out[s].stage /\ g.out[s].pb = h.out[s].pb
        /\ g.out[s].err = h.out[s].err + h.pid[p].n
    BY <1>5, <1>6, <1>8, BadFields DEF Kept
  <2> DEFINE lost == LostOf(l)
             lost1 == LostOf(l)'
  <2>6. Tallied(h, lost) /\ AllIn(h)
    BY <1>4, <1>6, <2>1, AllCounted2 DEF EventsOf, Within
  <2>7. LosesOne(h, g, p, lost, lost1)
    BY <2>2, <2>3, <2>4, <2>5 DEF LosesOne
  <2> HIDE DEF lost, lost1
  <2>8. Tallied(g, lost1)
    <3>1. /\ g \in Handler /\ h \in Handler /\ p \in Pids
          /\ g.st = h.st /\ g.empty = h.empty /\ (h.eols => g.eols) /\ g.total = h.total
          /\ g.pid = h.pid
      BY <1>6, <1>8, <1>10, <2>5
    <3> QED  BY ONLY <2>6, <2>7, <3>1, TalliedLost
  <2>9. Tallied(g, LostOf(l)')
    BY <2>8 DEF lost1
  <2>10. Takes(l, g, 1)
    BY <1>4, <1>6, <1>9, <2>5, TakesSame
  <2>11. \A q \in Pids : g.pid[q].n = grab[l][q]
    BY <1>4, <1>6, <2>1, <2>5, OpenCounts DEF Within
  <2>12. lumi[l].st # "closed" /\ g.st = "open" /\ Told(l)
    BY <1>4, <2>1, <2>5 DEF EventsOf
  <2> QED  BY <1>6, <1>8, <1>10, <2>9, <2>10, <2>11, <2>12, EventsSettled
<1>11. ASSUME h.st # "open" \/ h.empty \/ ~h.out[s].open \/ ~h.pid[p].seen, Untouched(l)
       PROVE  CountedTwice(l)' \/ EventsOf(l)'
  <2>1. ~h.pid[p].seen => h.pid[p].n = 0
    BY <1>4, <1>6 DEF Within, Around, FilesInv, Known
  <2>2. \A q \in Pids, u \in Streams :
           Filled(lumi[l]) /\ lumi[l].out[u].open
             /\ (IsHead(1, CrashFiles(q)) \/ IsHead(1, BadFiles(l, q, u))) => lumi[l].pid[q].n = 0
    BY <1>4, <1>9, <1>11, <2>1 DEF Filled
  <2> QED  BY <1>6, <1>8, <1>11, <2>2, EventsUntouched
<1>12. CountedTwice(l)' \/ EventsOf(l)'
  BY <1>6, <1>8, <1>10, <1>11, EventsEmpty
<1> QED  BY <1>1, <1>6, <1>7, <1>12, EventsOthers

LEMMA TakeCrashEvents ==
  ASSUME Within, TakeCrash
  PROVE  EventsInv'
<1>1. PICK p : p = Event.pid
  OBVIOUS
<1>2. /\ p \in Pids
      /\ \A l \in Lumis :
           \/ Untouched(l) /\ ~(Open(l) /\ lumi[l].pid[p].seen)
           \/ /\ Open(l)
              /\ \E raw \in Nat : /\ raw <= lumi[l].pid[p].n
                                  /\ WithCrash(lumi[l], p, raw) \in Handler
                                  /\ Settles(l, WithCrash(lumi[l], p, raw))
  BY <1>1, CrashEffect DEF Within, Around
<1>3. Takings /\ Event.kind = "crash"
  BY DEF Takings, TakeCrash
<1>4. Script(1)
  BY <1>3, HeadTaken
<1>5. /\ \A q \in Pids : IsHead(1, CrashFiles(q)) <=> q = p
      /\ \A l, q, u : ~IsHead(1, BadFiles(l, q, u)) /\ ~IsHead(1, JsonFiles(l, q, u))
  BY <1>1, <1>3, HeadTaken
<1>6. Crashed(p) /\ p \notin Gone
  <2>1. IsHead(1, CrashFiles(p))
    BY <1>2, <1>5
  <2>2. \A q \in Pids : Crashed(q)' <=> Crashed(q)
    BY <1>4 DEF Script, Crashed
  <2>3. p \in Gone' /\ p \notin Gone
    BY <1>2, <1>4, <2>1, <2>2, GonePasses DEF Within, Around, Script
  <2> QED  BY <1>2, <2>2, <2>3 DEF Gone
<1>7. ASSUME NEW l \in Lumis, Untouched(l), ~(Open(l) /\ lumi[l].pid[p].seen)
      PROVE  CountedTwice(l)' \/ EventsOf(l)'
  <2>1. ~lumi[l].pid[p].seen => lumi[l].pid[p].n = 0
    BY <1>2 DEF Within, Around, FilesInv, Known
  <2>2. \A q \in Pids, u \in Streams :
           Filled(lumi[l]) /\ lumi[l].out[u].open
             /\ (IsHead(1, CrashFiles(q)) \/ IsHead(1, BadFiles(l, q, u))) => lumi[l].pid[q].n = 0
    BY <1>5, <1>7, <2>1 DEF Filled, Open
  <2> QED  BY <1>4, <1>7, <2>2, EventsUntouched
<1>8. ASSUME NEW l \in Lumis, Open(l), NEW raw \in Nat,
             NEW g \in Handler, g = WithCrash(lumi[l], p, raw), Settles(l, g), ~CountedTwice(l)'
      PROVE  EventsOf(l)'
  <2>1. PICK h : h = lumi[l]
    OBVIOUS
  <2>2. EventsOf(l) /\ h.st = "open" /\ h \in Handler
    BY <1>4, <1>8, <2>1, ScriptOutside, RowsTyped DEF Within, ToldInv, EventsInv, Open
  <2>3. torn[l][p] = {}
    BY <1>2, <1>4, <1>6, <1>8, ScriptOutside DEF CountedTwice, Crashed
  <2>4. \A u \in Streams : p \notin LostOf(l)[u]
    BY <1>6, <2>3, LostTyped DEF BadTaken
  <2>5. \A u \in Streams : LostOf(l)'[u] = LostOf(l)[u] \union {p}
    <3>1. \A u \in Streams, q \in Pids : q \in LostOf(l)'[u] <=> q \in LostOf(l)[u] \/ q = p
      BY <1>4, <1>5, <1>8, ScriptOutside, LostPasses DEF Within, Around, Script
    <3>2. \A u \in Streams : LostOf(l)[u] \subseteq Pids /\ LostOf(l)'[u] \subseteq Pids
      BY LostTyped
    <3> QED  BY <1>2, <3>1, <3>2
  <2>6. /\ g.st = h.st /\ g.empty = h.empty /\ g.eols = h.eols /\ g.total = h.total /\ g.pid = h.pid
        /\ \A s \in Streams :
              /\ g.out[s].open = h.out[s].open /\ g.out[s].proc = h.out[s].proc
              /\ g.out[s].stage = h.out[s].stage /\ g.out[s].pb = h.out[s].pb
              /\ g.out[s].err = IF s \notin h.pid[p].merged /\ h.out[s].open
                               THEN h.out[s].err + h.pid[p].n ELSE h.out[s].err
    <3>1. g = WithCrash(h, p, raw)
      BY <1>8, <2>1
    <3> QED  BY <1>2, <1>8, <2>2, <3>1, CrashFields DEF Kept
  <2> DEFINE lost == LostOf(l)
             lost1 == LostOf(l)'
  <2>7. Tallied(h, lost) /\ AllIn(h)
    BY <1>8, <2>1, <2>2, AllCounted2 DEF EventsOf, Within
  <2>8. LosesOne(h, g, p, lost, lost1)
    <3> SUFFICES ASSUME NEW u \in Streams
                 PROVE  h.out[u].open =>
                          \/ /\ g.out[u].err = h.out[u].err
                             /\ Got(h, u) \union lost1[u] = Got(h, u) \union lost[u]
                          \/ /\ g.out[u].err = h.out[u].err + h.pid[p].n
                             /\ lost1[u] = lost[u] \union {p}
                             /\ p \notin Got(h, u) \union lost[u]
      BY <2>6 DEF LosesOne
    <3>1. lost1[u] = lost[u] \union {p} /\ p \notin lost[u]
      BY <2>4, <2>5
    <3>2. p \in Got(h, u) <=> u \in h.pid[p].merged
      BY <1>2 DEF Got
    <3> HIDE DEF lost, lost1
    <3> QED  BY <2>6, <3>1, <3>2
  <2> HIDE DEF lost, lost1
  <2>9. Tallied(g, lost1)
    BY <1>2, <1>8, <2>2, <2>6, <2>7, <2>8, TalliedLost
  <2>10. Tallied(g, LostOf(l)')
    BY <2>9 DEF lost1
  <2>11. Takes(l, g, 1)
    BY <1>5, <1>8, <2>1, <2>6, TakesSame
  <2>12. g.eols /\ ~g.empty => \A q \in Pids : g.pid[q].n = grab[l][q]
    BY <1>8, <2>1, <2>2, <2>6, OpenCounts, ZenonT(60) DEF Within
  <2>13. lumi[l].st # "closed" /\ g.st = "open" /\ Told(l)
    BY <2>1, <2>2, <2>6 DEF EventsOf
  <2> QED  BY <1>4, <1>8, <2>10, <2>11, <2>12, <2>13, EventsSettled
<1>9. ASSUME NEW l \in Lumis PROVE CountedTwice(l)' \/ EventsOf(l)'
  BY <1>2, <1>7, <1>8
<1> QED  BY <1>9 DEF EventsInv

\* A handler of which only the merged files come back.
LEMMA DqmDoneEvents ==
  ASSUME Within, DqmDone
  PROVE  EventsInv'
<1>1. /\ Passes(0) /\ UNCHANGED <<ledger, errors, proc, grab, valid, torn>>
      /\ \E m \in dqm.cur, g \in Handler :
           /\ m.ls \in Lumis /\ m.stream \in Streams
           /\ lumi'[m.ls] = g /\ Returned(lumi[m.ls], g, m.stream, dqm.counts)
           /\ \A k \in Lumis \ {m.ls} : lumi'[k] = lumi[k]
  BY DqmEffect DEF Within, Around
<1>2. Script(0)
  BY <1>1 DEF Script
<1>3. \A Z : ~IsHead(0, Z)
  BY DEF IsHead
<1>4. PICK m \in dqm.cur, g \in Handler :
           /\ m.ls \in Lumis /\ m.stream \in Streams
           /\ lumi'[m.ls] = g /\ Returned(lumi[m.ls], g, m.stream, dqm.counts)
           /\ \A k \in Lumis \ {m.ls} : lumi'[k] = lumi[k]
  BY <1>1
<1>5. PICK l \in Lumis : l = m.ls
  BY <1>4
<1>6. PICK s \in Streams : s = m.stream
  BY <1>4
<1>7. PICK h : h = lumi[l]
  OBVIOUS
<1>8. Returned(h, g, s, dqm.counts) /\ h \in Handler
  BY <1>4, <1>5, <1>6, <1>7, RowsTyped DEF Within
<1>9. Filled(h) => h.out[s].stage >= 1 /\ PartOf(Counts(h), dqm.counts.proc, Got(h, s))
  <2>1. MergedLate(m) /\ Merging(h, s, dqm.counts.proc)
    BY <1>4, <1>5, <1>6, <1>7 DEF Within, Around, MergesInv, Merges
  <2> QED  BY <1>5, <1>6, <1>7, <2>1 DEF MergedLate, Late, Merging, Filled, PartOf
<1>10. CountedTwice(l)' \/ EventsOf(l)'
  <2> SUFFICES ASSUME ~CountedTwice(l)' PROVE EventsOf(l)'
    OBVIOUS
  <2>1. EventsOf(l)
    BY <1>2, ScriptOutside DEF Within, ToldInv, EventsInv
  <2>2. LostOf(l)' = LostOf(l)
    BY <1>2, <1>3, LostSame
  <2> DEFINE lost == LostOf(l)
  <2>3. Tallied(h, lost) /\ LostOf(l)' = lost
    BY <1>7, <2>1, <2>2 DEF EventsOf
  <2> HIDE DEF lost
  <2>a. Filled(h) /\ h.out[s].open => dqm.counts.proc + dqm.counts.err = h.total
    <3>1. ~CountedTwice(m.ls)
      BY <1>2, <1>5, ScriptOutside
    <3>2. SumOf(h, s, dqm.counts)
      BY <1>4, <1>5, <1>6, <1>7, <3>1 DEF Within, ToldInv, SumsInv
    <3> QED  BY <3>2 DEF SumOf, Filled
  <2>4. Tallied(g, lost)
    BY <1>8, <1>9, <2>3, <2>a, TalliedReturned
  <2>5. Told(l)'
    <3>1. ledger'[l] = ledger[l] /\ grab'[l] = grab[l] /\ grab[l] \in [Pids -> Nat] /\ Told(l)
      BY <1>1, <2>1, RowsTyped DEF EventsOf, Within
    <3>2. \A p \in Pids : Files(l, p)' = Files(l, p) /\ valid'[l][p] = valid[l][p] /\ (Crashed(p)' <=> Crashed(p))
      BY <1>1, <1>2, ScriptOutside
    <3> QED  BY <3>1, <3>2, ToldKept
  <2>6. lumi'[l] = g
    BY <1>4, <1>5
  <2> QED  BY <2>3, <2>4, <2>5, <2>6 DEF EventsOf
<1>11. ASSUME NEW k \in Lumis \ {l} PROVE CountedTwice(k)' \/ EventsOf(k)'
  <2>1. Untouched(k)
    BY <1>1, <1>4, <1>5 DEF Untouched
  <2> QED  BY <1>2, <1>3, <2>1, EventsUntouched
<1> QED  BY <1>10, <1>11 DEF EventsInv

\* Steps of the script that leave the handlers alone.
LEMMA WaitingEvents ==
  ASSUME Within, \/ BufferIndex \/ FlushBuffer \/ Idle \/ Finish \/ DqmTake
                 \/ DropEarly \/ TakeProcessing \/ TakeComplete
  PROVE  EventsInv'
<1>1. CASE BufferIndex \/ FlushBuffer \/ Idle \/ Finish \/ DqmTake
  <2>1. Passes(0) /\ UNCHANGED <<lumi, ledger, errors, proc, grab, valid, torn>>
    BY <1>1, WaitingPasses DEF Within, Around
  <2>2. Script(0) /\ \A l : Untouched(l)
    BY <2>1 DEF Script, Untouched
  <2>3. \A Z : ~IsHead(0, Z)
    BY DEF IsHead
  <2> QED  BY <2>2, <2>3, EventsUntouched DEF EventsInv
<1>2. CASE DropEarly
  <2>1. Passes(1) /\ Pend[1].kind = "crash"
    BY <1>2, DropEarlyShifts, PassesAny DEF Within, Around
  <2>2. Script(1) /\ \A l : Untouched(l)
    BY <1>2, <2>1 DEF DropEarly, Script, Untouched
  <2>3. \A l \in Lumis : lumi[l] = NoHandler
    BY <1>2 DEF DropEarly, Within, Around, Course, NotStarted
  <2>4. \A l \in Lumis : ~Filled(lumi[l])
    BY <2>3, NoHandlerTyped DEF Filled
  <2> QED  BY <2>2, <2>4, EventsUntouched DEF EventsInv
<1>3. CASE TakeProcessing \/ TakeComplete
  <2>1. Passes(1) /\ Pend[1] = Event /\ UNCHANGED <<proc, grab, valid, torn>>
    BY <1>3, TakeMoves DEF Within, Around
  <2>2. Script(1) /\ \A l : Untouched(l)
    BY <1>3, <2>1 DEF TakeProcessing, TakeComplete, Script, Untouched
  <2>3. Pend[1].kind \notin {"crash", "bad"}
    BY <1>3, <2>1 DEF TakeProcessing, TakeComplete
  <2>4. \A l, p, s : ~IsHead(1, CrashFiles(p)) /\ ~IsHead(1, BadFiles(l, p, s))
    BY <2>3 DEF IsHead, CrashFiles, BadFiles
  <2> QED  BY <2>2, <2>4, EventsUntouched DEF EventsInv
<1> QED  BY <1>1, <1>2, <1>3

-----------------------------------------------------------------------------
(* A step outside the script *)

\* A process that is not lost is not lost by a file that appears.
LEMMA BadTakenAppears ==
  ASSUME NEW X, Shifted(Pend, Pend', 0, X), NEW l, NEW s,
         \A p \in Pids : /\ s \in torn[l][p] => s \in torn'[l][p] /\ ~Waits(X, BadFiles(l, p, s))
                         /\ s \in torn'[l][p] => s \in torn[l][p] \/ Waits(X, BadFiles(l, p, s))
  PROVE  BadTaken(l, s)' = BadTaken(l, s)
<1>1. ASSUME NEW Z PROVE Waits(Pend', Z) <=> Waits(Pend, Z) \/ Waits(X, Z)
  <2>1. ~(0 = 1)
    OBVIOUS
  <2> QED  BY <2>1, WaitsShift
<1>2. \A p \in Pids : Waits(Pend', BadFiles(l, p, s)) <=>
                        Waits(Pend, BadFiles(l, p, s)) \/ Waits(X, BadFiles(l, p, s))
  BY <1>1
<1> QED  BY <1>2 DEF BadTaken

\* What was written stays true when processes go on.
Deliveries(l) ==
  \A p \in Pids :
    /\ Files(l, p) \subseteq Files(l, p)' /\ valid[l][p] \subseteq valid'[l][p]
    /\ Crashed(p) => Crashed(p)'
    /\ torn[l][p] \subseteq torn'[l][p]
    /\ \A s \in Streams : s \in valid'[l][p] /\ s \notin valid[l][p] =>
         ~Crashed(p) /\ s \notin Files(l, p)

LEMMA OutsideEvents ==
  ASSUME Within, NEW l \in Lumis, UNCHANGED scriptVars, LostOf(l)' = LostOf(l), Deliveries(l),
         grab'[l] = grab[l] \/ l \notin buEols
  PROVE  CountedTwice(l)' \/ EventsOf(l)'
<1> SUFFICES ASSUME ~CountedTwice(l)' PROVE EventsOf(l)'
  OBVIOUS
<1>1. lumi'[l] = lumi[l] /\ ledger'[l] = ledger[l]
  BY DEF scriptVars
<1>2. ~CountedTwice(l)
  BY DEF CountedTwice, Deliveries, Crashed
<1>3. EventsOf(l)
  BY <1>2 DEF Within, ToldInv, EventsInv
<1>4. Told(l)'
  <2>1. CASE grab'[l] = grab[l]
    <3>1. grab[l] \in [Pids -> Nat]
      BY RowsTyped DEF Within
    <3> QED  BY <1>1, <1>3, <2>1, <3>1, ToldKept DEF Deliveries, EventsOf
  <2>2. CASE l \notin buEols
    <3>1. \A s \in Streams : ledger[l][s] = Unwritten
      BY <2>2 DEF Within, Around, Books, Book, Over
    <3> QED  BY <1>1, <3>1 DEF Told, Written
  <2> QED  BY <2>1, <2>2
<1>5. Tallied(lumi'[l], LostOf(l)')
  BY <1>1, <1>3 DEF EventsOf
<1> QED  BY <1>4, <1>5 DEF EventsOf

\* Nobody is lost by what processes write.
LEMMA LostStays ==
  ASSUME Within, Gone' = Gone, NEW l \in Lumis, \A s \in Streams : BadTaken(l, s)' = BadTaken(l, s)
  PROVE  LostOf(l)' = LostOf(l)
BY DEF LostOf

LEMMA QuietEvents ==
  ASSUME Within, Quietly
  PROVE  EventsInv'
<1>1. Gone' = Gone
  BY QuietGone DEF Within, Around
<1>2. /\ Passes(0) /\ UNCHANGED scriptVars /\ UNCHANGED <<grab, valid, torn>>
      /\ \A p \in Pids : \/ proc'[p] = proc[p]
                         \/ proc[p].st # "crashed" /\ proc'[p].st \in {"ended", "died"}
                         \/ proc[p].st = "new" /\ proc'[p].st = "work"
                         \/ /\ proc[p].st = "work" /\ proc'[p].st = "output"
                            /\ proc'[p].ls = proc[p].ls
  BY QuietEffect DEF Within, Around
<1>3. \A p \in Pids : Crashed(p)' <=> Crashed(p)
  BY <1>2 DEF Crashed
<1>4. ASSUME NEW l \in Lumis PROVE CountedTwice(l)' \/ EventsOf(l)'
  <2>1. \A Z : ~IsHead(0, Z)
    BY DEF IsHead
  <2>2. ASSUME NEW s \in Streams PROVE BadTaken(l, s)' = BadTaken(l, s)
    <3>1. torn'[l] = torn[l]
      BY <1>2
    <3>2. \A p \in Pids : p \in BadTaken(l, s)' <=> p \in BadTaken(l, s)
      BY <1>2, <2>1, <3>1, BadTakenPasses DEF Within, Around
    <3> QED  BY <3>2 DEF BadTaken
  <2>3. LostOf(l)' = LostOf(l)
    BY <1>1, <2>2, LostStays
  <2>4. Deliveries(l)
    BY <1>2, <1>3 DEF Deliveries, Files
  <2> QED  BY <1>2, <2>3, <2>4, OutsideEvents
<1> QED  BY <1>4 DEF EventsInv

LEMMA ReportCrashEvents ==
  ASSUME Within, NEW p \in Pids, ReportCrash(p)
  PROVE  EventsInv'
<1> DEFINE e == Ev("crash", 0, p, NoStream, 0)
           X == <<e>>
<1>1. /\ Shifted(Pend, Pend', 0, X) /\ UNCHANGED scriptVars /\ UNCHANGED <<grab, valid, torn>>
      /\ proc[p].st = "died" /\ \A q \in Pids \ {p} : proc'[q] = proc[q]
      /\ e.kind = "crash"
  BY CrashReported DEF Within, Around
<1>2. DOMAIN X = {1} /\ X[1] = e
  OBVIOUS
<1> HIDE DEF X, e
<1>3. \A l, q, s : ~Waits(X, BadFiles(l, q, s))
  BY <1>1, <1>2 DEF Waits, BadFiles
<1>4. Gone' = Gone
  BY ReportCrashGone DEF Within, Around
<1>5. ASSUME NEW l \in Lumis PROVE CountedTwice(l)' \/ EventsOf(l)'
  <2>1. \A s \in Streams : BadTaken(l, s)' = BadTaken(l, s)
    BY <1>1, <1>3, BadTakenAppears
  <2>2. LostOf(l)' = LostOf(l)
    BY <1>4, <2>1, LostStays
  <2>3. Deliveries(l)
    BY <1>1 DEF Deliveries, Files, Crashed
  <2> QED  BY <1>1, <2>2, <2>3, OutsideEvents
<1> QED  BY <1>5 DEF EventsInv

LEMMA GrabEvents ==
  ASSUME Within, NEW p \in Pids, Grab(p)
  PROVE  EventsInv'
<1>1. PICK l : l = Current(p)
  OBVIOUS
<1>2. /\ l \in Lumis /\ l \notin buEols
      /\ \A k \in Lumis \ {l} : grab'[k] = grab[k]
      /\ \E X \in Seq(FileEvent) : ReadsOne(l, p, X)
  BY <1>1, GrabFacts DEF Within, Around
<1>3. PICK X \in Seq(FileEvent) : ReadsOne(l, p, X)
  BY <1>2
<1>4. \A k, q, s : ~Waits(X, BadFiles(k, q, s))
  BY <1>3 DEF ReadsOne, Waits, BadFiles, IndexFiles
<1>5. UNCHANGED scriptVars /\ UNCHANGED <<proc, valid, torn>>
  BY DEF Grab
<1>6. Gone' = Gone
  BY GrabGone DEF Within, Around
<1>7. ASSUME NEW k \in Lumis PROVE CountedTwice(k)' \/ EventsOf(k)'
  <2>1. \A s \in Streams : BadTaken(k, s)' = BadTaken(k, s)
    BY <1>3, <1>4, <1>5, BadTakenAppears DEF ReadsOne
  <2>2. LostOf(k)' = LostOf(k)
    BY <1>6, <2>1, LostStays
  <2>3. Deliveries(k)
    BY <1>5 DEF Deliveries, Files, Crashed
  <2>4. grab'[k] = grab[k] \/ k \notin buEols
    BY <1>2
  <2> QED  BY <1>5, <2>2, <2>3, <2>4, OutsideEvents
<1> QED  BY <1>7 DEF EventsInv

LEMMA OutputEvents ==
  ASSUME Within, NEW p \in Pids, NEW s \in Streams, Output(p, s)
  PROVE  EventsInv'
<1>1. PICK l : l = Current(p)
  OBVIOUS
<1>2. PICK n : n = grab[l][p]
  OBVIOUS
<1>3. WritesOne(p, s, l, n)
  BY <1>1, <1>2, OutputFacts DEF Within, Around
<1>4. /\ l \in Lumis /\ UNCHANGED scriptVars /\ UNCHANGED grab
      /\ proc[p].st = "output" /\ proc[p].ls = l /\ s \notin proc[p].out
      /\ \A q \in Pids \ {p} : proc'[q] = proc[q]
  BY <1>3 DEF WritesOne
<1>5. PICK e \in FileEvent :
        /\ Shifted(Pend, Pend', 0, <<e>>) /\ e.ls = l /\ e.pid = p /\ e.stream = s
        /\ \/ /\ e.kind = "json" /\ Gains(valid, valid', l, p, s)
              /\ torn' = torn
           \/ e.kind = "bad" /\ Gains(torn, torn', l, p, s) /\ valid' = valid
  BY <1>3 DEF WritesOne
<1> DEFINE X == <<e>>
<1>6. DOMAIN X = {1} /\ X[1] = e /\ Shifted(Pend, Pend', 0, X)
  BY <1>5
<1> HIDE DEF X
<1>7. s \notin Files(l, p) /\ ~Crashed(p)
  <2>1. MadeBy(p, l)
    BY <1>4 DEF Within, Around, FilesInv, Made
  <2> QED  BY <1>4, <2>1 DEF MadeBy, Crashed
<1>8. \A k, q, u : Waits(X, BadFiles(k, q, u)) <=> e.kind = "bad" /\ k = l /\ q = p /\ u = s
  BY <1>5, <1>6 DEF Waits, BadFiles
<1>9. Gone' = Gone
  BY OutputGone DEF Within, Around
<1>10. ASSUME NEW k \in Lumis, NEW q \in Pids
       PROVE  /\ valid[k][q] \subseteq valid'[k][q] /\ torn[k][q] \subseteq torn'[k][q]
              /\ \A u : u \in valid'[k][q] => u \in valid[k][q] \/ (k = l /\ q = p /\ u = s)
              /\ \A u : u \in torn'[k][q] =>
                   u \in torn[k][q] \/ (k = l /\ q = p /\ u = s /\ e.kind = "bad")
  BY <1>4, <1>5 DEF Gains
<1>11. e.kind = "bad" => s \in torn'[l][p]
  BY <1>5 DEF Gains
<1>12. ASSUME NEW k \in Lumis PROVE CountedTwice(k)' \/ EventsOf(k)'
  <2>1. ASSUME NEW u \in Streams PROVE BadTaken(k, u)' = BadTaken(k, u)
    <3>1. ASSUME NEW q \in Pids
          PROVE  /\ u \in torn[k][q] => u \in torn'[k][q] /\ ~Waits(X, BadFiles(k, q, u))
                 /\ u \in torn'[k][q] => u \in torn[k][q] \/ Waits(X, BadFiles(k, q, u))
      BY <1>7, <1>8, <1>10, <3>1 DEF Files
    <3> QED  BY <1>6, <3>1, BadTakenAppears
  <2>2. LostOf(k)' = LostOf(k)
    BY <1>9, <2>1, LostStays
  <2>3. \A q \in Pids : Crashed(q) => Crashed(q)'
    BY <1>4, <1>7 DEF Crashed
  <2>4. Deliveries(k)
    BY <1>7, <1>10, <2>3 DEF Deliveries, Files
  <2> QED  BY <1>4, <2>2, <2>4, OutsideEvents
<1> QED  BY <1>12 DEF EventsInv

-----------------------------------------------------------------------------
(* The invariant and its theorem *)

LEMMA EventsGoOn ==
  ASSUME Within, [Next]_lumiVars
  PROVE  EventsInv'
<1>1. CASE MainLoop
  BY <1>1, WaitingEvents, TakeIndexEvents, TakeEoLSEvents, TakeJsonEvents, TakeBadEvents,
     TakeCrashEvents, TakeMergedEvents DEF MainLoop
<1>2. CASE DqmMerger
  BY <1>2, WaitingEvents, DqmDoneEvents DEF DqmMerger
<1>3. CASE Outside
  BY <1>3, QuietEvents, ReportCrashEvents, GrabEvents, OutputEvents DEF Outside, Quietly
<1>4. CASE UNCHANGED lumiVars
  <2>1. UNCHANGED <<queue, main, lumi, ledger, proc, grab, valid, torn>>
    BY <1>4 DEF lumiVars
  <2>2. Gone' = Gone /\ \A l, s : BadTaken(l, s)' = BadTaken(l, s)
    BY <2>1 DEF Gone, BadTaken, Crashed, Pend
  <2>3. \A l : LostOf(l)' = LostOf(l)
    BY <2>2 DEF LostOf
  <2>4. \A l : (Told(l)' <=> Told(l)) /\ (CountedTwice(l)' <=> CountedTwice(l))
    BY <2>1 DEF Told, CountedTwice, Written, Fixed, Delivered, Files, Crashed
  <2> QED  BY <2>1, <2>3, <2>4 DEF Within, ToldInv, EventsInv, EventsOf
<1> QED  BY <1>1, <1>2, <1>3, <1>4 DEF Next

\* What was counted twice remains so.
LEMMA TwiceStays ==
  ASSUME Course, [Next]_lumiVars, NEW l \in Lumis, CountedTwice(l)
  PROVE  CountedTwice(l)'
<1> SUFFICES ASSUME NEW p \in Pids
             PROVE  torn[l][p] \subseteq torn'[l][p] /\ (Crashed(p) => Crashed(p)')
  BY DEF CountedTwice, Crashed
<1>1. CASE UNCHANGED <<proc, torn>>
  BY <1>1 DEF Crashed
<1>2. CASE MainLoop
  BY <1>1, <1>2 DEF MainLoop, BufferIndex, FlushBuffer, DropEarly, TakeIndex, TakeEoLS, TakeJson,
     TakeBad, TakeCrash, TakeMerged, TakeProcessing, TakeComplete, Idle, Finish
<1>3. CASE DqmMerger
  BY <1>1, <1>3 DEF DqmMerger, DqmTake, DqmDone
<1>4. CASE Quietly
  <2>1. /\ UNCHANGED <<grab, valid, torn>>
        /\ \/ proc'[p] = proc[p]
           \/ proc[p].st # "crashed" /\ proc'[p].st \in {"ended", "died"}
           \/ proc[p].st = "new" /\ proc'[p].st = "work"
           \/ /\ proc[p].st = "work" /\ proc'[p].st = "output"
              /\ proc'[p].ls = proc[p].ls
    BY <1>4, QuietEffect
  <2> QED  BY <2>1 DEF Crashed
<1>5. ASSUME NEW q \in Pids, ReportCrash(q) PROVE torn' = torn /\ (Crashed(p) => Crashed(p)')
  <2>1. UNCHANGED torn /\ proc[q].st = "died" /\ \A r \in Pids \ {q} : proc'[r] = proc[r]
    BY <1>5, CrashReported
  <2> QED  BY <2>1 DEF Crashed
<1>6. ASSUME NEW q \in Pids, Grab(q) PROVE UNCHANGED <<proc, torn>>
  BY <1>6 DEF Grab
<1>7. ASSUME NEW q \in Pids, NEW s \in Streams, Output(q, s)
      PROVE  torn[l][p] \subseteq torn'[l][p] /\ (Crashed(p) => Crashed(p)')
  <2>1. PICK k : k = Current(q)
    OBVIOUS
  <2>2. PICK n : n = grab[k][q]
    OBVIOUS
  <2>3. WritesOne(q, s, k, n)
    BY <1>7, <2>1, <2>2, OutputFacts
  <2>4. proc[q].st = "output" /\ \A r \in Pids \ {q} : proc'[r] = proc[r]
    BY <2>3 DEF WritesOne
  <2>5. torn' = torn \/ Gains(torn, torn', k, q, s)
    BY <2>3 DEF WritesOne
  <2> QED  BY <2>4, <2>5 DEF Crashed, Gains
<1>8. CASE Outside
  BY <1>1, <1>4, <1>5, <1>6, <1>7, <1>8 DEF Outside, Quietly
<1> QED  BY <1>1, <1>2, <1>3, <1>8 DEF Next, lumiVars

\* The counts of the merge that begins: what the files in kept say is processed.
LEMMA MergedSum ==
  ASSUME NEW h \in Handler, NEW s \in Streams, NEW kept \in SUBSET Got(h, s), NEW lost,
         TalliedIn(h, s, lost), h.out[s].stage >= 1, NEW c, c = MergedCounts(h, s, kept)
  PROVE  c.proc + c.err = h.total
<1> DEFINE d == Counts(h)
           A == Got(h, s)
           L == lost[s]
           a == Share(d, kept)
           b == Share(d, A \ kept)
           t == h.out[s].proc + h.out[s].err
<1>1. t = h.total /\ t = Share(d, A \union L)
  BY DEF TalliedIn
<1>2. A \in SUBSET Pids /\ kept \in SUBSET Pids /\ A \ kept \in SUBSET Pids
  BY DEF Got
<1>3. /\ c.proc = ReadBy(h, kept)
      /\ c.err = IF t > ReadBy(h, kept) + ReadBy(h, A \ kept)
                 THEN t - ReadBy(h, kept) ELSE ReadBy(h, A \ kept)
  BY DEF MergedCounts, Got
<1>4. c.proc = a /\ c.err = IF t > a + b THEN t - a ELSE b
  <2>1. ReadBy(h, kept) = a /\ ReadBy(h, A \ kept) = b
    BY <1>2, ReadByShare
  <2> QED  BY <1>3, <2>1
<1>5. a \in Nat /\ b \in Nat /\ t \in Nat
  BY <1>1, ShareFinite
<1>6. a + b <= t
  <2>1. Share(d, kept \union (A \ kept)) = a + b
    <3>1. kept \cap (A \ kept) = {}
      OBVIOUS
    <3> QED  BY <3>1, ShareParts
  <2>2. kept \union (A \ kept) = A /\ A \subseteq A \union L
    OBVIOUS
  <2>3. d \in [Pids -> Nat]
    BY CountsTyped
  <2>4. Share(d, A) <= Share(d, A \union L)
    <3>1. \A p \in A : p \in Pids => d[p] <= d[p]
      BY <2>3
    <3> HIDE DEF d, A, L
    <3> QED  BY <2>2, <2>3, <3>1, ShareMore
  <2> QED  BY <1>1, <2>1, <2>2, <2>4
<1> HIDE DEF a, b, t
<1>7. c.proc + c.err = t
  BY ONLY <1>4, <1>5, <1>6
<1> QED  BY <1>1, <1>7

LEMMA SumsStay ==
  ASSUME Within, [Next]_lumiVars, \A l \in Lumis : StaysLate(l), SameMerge
  PROVE  SumsInv'
<1> SUFFICES ASSUME NEW m \in dqm'.cur, ~CountedTwice(m.ls)'
             PROVE  SumOf(lumi'[m.ls], m.stream, dqm'.counts)
  BY DEF SumsInv
<1>1. m \in dqm.cur /\ dqm'.counts = dqm.counts /\ m \in Merges
  BY DEF SameMerge, Merges
<1>2. m.ls \in Lumis /\ m.stream \in Streams
  BY <1>1, MergesType DEF Within, Around
<1>3. PICK l \in Lumis : l = m.ls
  BY <1>2
<1>4. ~CountedTwice(l)
  BY <1>3, TwiceStays DEF Within, Around
<1>5. SumOf(lumi[l], m.stream, dqm.counts) /\ Late(lumi[l], m.stream)
  BY <1>1, <1>3, <1>4 DEF Within, ToldInv, SumsInv, Around, MergesInv, MergedLate
<1>6. Continues(lumi[l], lumi'[l])
  BY DEF StaysLate
<1> QED  BY <1>1, <1>2, <1>3, <1>5, <1>6 DEF SumOf, Late, Continues, Filled

LEMMA DqmTakeSums ==
  ASSUME Within, [Next]_lumiVars, DqmTake
  PROVE  SumsInv'
<1>1. dqm \in DqmState /\ dqm.q \in Seq(Merge) /\ dqm.q # <<>> /\ lumi' = lumi
  BY DEF Within, Around, Course, LumiTypeOK, DqmState, DqmTake
<1>2. PICK m : m = Head(dqm.q)
  OBVIOUS
<1>3. PICK kept \in SUBSET Pids : TakesMerge(m, kept)
  BY <1>2, MergeTaken
<1>4. PICK c : c = MergedCounts(lumi[m.ls], m.stream, kept)
  OBVIOUS
<1>5. PICK q : q = Tail(dqm.q)
  OBVIOUS
<1>6. dqm' = [dqm EXCEPT !.cur = {m}, !.q = q, !.counts = c]
  BY <1>3, <1>4, <1>5 DEF TakesMerge
<1>7. dqm'.cur = {m} /\ dqm'.counts = c
  BY <1>1, <1>6 DEF DqmState
<1>8. m \in Merges
  BY <1>1, <1>2 DEF Merges
<1>9. m.ls \in Lumis /\ m.stream \in Streams
  BY <1>8, MergesType DEF Within, Around
<1>10. PICK l \in Lumis : l = m.ls
  BY <1>9
<1>11. PICK s \in Streams : s = m.stream
  BY <1>9
<1>12. PICK h : h = lumi[l]
  OBVIOUS
<1>13. ASSUME ~CountedTwice(l)', h.st # "closed", h.out[s].open PROVE c.proc + c.err = h.total
  <2>1. EventsOf(l)
    BY <1>13, TwiceStays DEF Within, Around, ToldInv, EventsInv
  <2>2. Late(h, s)
    BY <1>8, <1>10, <1>11, <1>12 DEF Within, Around, MergesInv, MergedLate
  <2>3. TalliedIn(h, s, LostOf(l))
    BY <1>12, <1>13, <2>1, <2>2 DEF EventsOf, Tallied, Late
  <2>4. kept \in SUBSET Got(h, s) /\ c = MergedCounts(h, s, kept) /\ h \in Handler
    BY <1>3, <1>4, <1>10, <1>11, <1>12, RowsTyped DEF TakesMerge, Got, Within
  <2>5. h.out[s].stage >= 1
    BY <1>13, <2>2 DEF Late
  <2> QED  BY <2>3, <2>4, <2>5, MergedSum
<1> QED  BY <1>1, <1>7, <1>10, <1>11, <1>12, <1>13 DEF SumsInv, SumOf

LEMMA SumsGoOn ==
  ASSUME Within, [Next]_lumiVars
  PROVE  SumsInv'
<1>1. CASE Takings
  <2>1. \A l \in Lumis : StaysLate(l)
    BY <1>1, TakingsLate DEF Within, Around
  <2>2. dqm' = dqm \/ Closing
    BY <1>1, TakingsClose DEF Within, Around
  <2>3. SameMerge
    BY <2>2, ClosureFacts DEF Closing, Within, Around, Course, SameMerge
  <2> QED  BY <2>1, <2>3, SumsStay
<1>2. CASE DqmTake
  BY <1>2, DqmTakeSums
<1>3. CASE DqmDone
  <2>1. dqm'.cur = {}
    BY <1>3, DqmEffect DEF Within, Around
  <2> QED  BY <2>1 DEF SumsInv
<1>4. CASE UNCHANGED <<lumi, dqm>>
  <2>1. SameMerge /\ \A l \in Lumis : StaysLate(l)
    BY <1>4 DEF SameMerge, StaysLate, Continues
  <2> QED  BY <2>1, SumsStay
<1>5. CASE Outside
  BY <1>4, <1>5, OutsideUnchanged DEF scriptVars
<1>6. CASE MainLoop /\ ~Takings
  BY <1>4, <1>6 DEF MainLoop, Takings, BufferIndex, FlushBuffer, DropEarly, TakeProcessing,
                    TakeComplete, Idle, Finish
<1>7. CASE UNCHANGED lumiVars
  BY <1>4, <1>7 DEF lumiVars
<1> QED  BY <1>1, <1>2, <1>3, <1>5, <1>6, <1>7 DEF Next, DqmMerger

LEMMA EventsBegin == Init => ToldInv
<1> SUFFICES ASSUME Init PROVE EventsInv /\ SumsInv
  BY DEF ToldInv
<1>1. EventsInv
  <2> SUFFICES ASSUME NEW l \in Lumis PROVE EventsOf(l)
    BY DEF EventsInv
  <2>1. lumi[l] = NoHandler /\ \A s \in Streams : ledger[l][s] = Unwritten
    BY DEF Init
  <2>2. NoHandler.st = "none"
    BY NoHandlerTyped
  <2> QED  BY <2>1, <2>2 DEF EventsOf, Tallied, Filled, Told, Written
<1>2. SumsInv
  BY DEF Init, SumsInv
<1> QED  BY <1>1, <1>2

EventsKeptInv == ErrorsInv /\ ToldInv

LEMMA EventsHold == Spec => []EventsKeptInv
<1>1. Init => EventsKeptInv
  BY CourseBegins, BooksBegin, FilesBegin, MergesBegin, CoverBegins, EventsBegin
     DEF Accounts, ErrorsInv, EventsKeptInv
<1>2. ASSUME EventsKeptInv, [Next]_lumiVars PROVE EventsKeptInv'
  <2>1. Course /\ Books /\ FilesInv /\ MergesInv /\ CoverInv /\ ToldInv
    BY <1>2 DEF EventsKeptInv, ErrorsInv, Accounts
  <2>2. Course' /\ Books'
    BY <1>2, <2>1, CourseGoesOn, BooksGoOn
  <2>3. FilesInv'
    BY <1>2, <2>1, FilesGoOn
  <2>4. CoverInv'
    BY <1>2, <2>1, <2>2, CoverGoesOn DEF Around
  <2>5. EventsInv' /\ SumsInv'
    BY <1>2, <2>1, <2>2, <2>3, EventsGoOn, SumsGoOn DEF Within, Around
  <2>6. MergesInv'
    BY <1>2, <2>1, MergesGoOn
  <2> QED  BY <2>2, <2>3, <2>4, <2>5, <2>6 DEF EventsKeptInv, ErrorsInv, Accounts, ToldInv
<1> QED  BY <1>1, <1>2, PTL DEF Spec

\* What is written for a stream accounts for every event: processed are those
\* read by the processes that delivered it, or none where it could not be merged
\* or moved, or for histograms those of some of these processes; all others are
\* lost.
THEOREM EventsKept == Spec => []EventsAccounted
<1>1. EventsKeptInv => EventsAccounted
  <2> SUFFICES ASSUME EventsKeptInv, NEW l \in Lumis, NEW s \in Streams, Written(l, s)
               PROVE  /\ ledger[l][s].proc + ledger[l][s].err = EventsRead(l)
                      /\ \/ CountedTwice(l)
                         \/ \E P \in SUBSET Delivered(l, s) :
                              /\ ledger[l][s].proc = EventsReadBy(l, P)
                              /\ s \in DqmStreams \/ P \in {{}, Delivered(l, s)}
    BY DEF EventsAccounted
  <2> DEFINE V == Delivered(l, s)
             n == ledger[l][s].proc
             c == grab[l]
  <2>1. FilesRead(l) = FilesOf(grab[l])
    BY FilesReadOf
  <2>2. n + ledger[l][s].err = EventsRead(l)
    <3>1. n + ledger[l][s].err = Cardinality(FilesOf(grab[l]))
      BY DEF EventsKeptInv, ErrorsInv, Accounts, Books, Book, Written
    <3> QED  BY <2>1, <3>1 DEF EventsRead
  <2>3. \A P : EventsReadBy(l, P) = Share(c, P)
    BY <2>1 DEF EventsReadBy, SharedFiles, Share
  <2>4. CountedTwice(l) \/ OfDelivered(c, n, V, s)
    BY DEF EventsKeptInv, ToldInv, EventsInv, EventsOf, Told
  <2>5. Share(c, {}) = 0
    <3>1. c \in [Pids -> Nat]
      BY DEF EventsKeptInv, ErrorsInv, Accounts, Course, LumiTypeOK
    <3> HIDE DEF c
    <3> QED  BY <3>1, ShareNone
  <2> HIDE DEF c, V, n
  <2>6. OfDelivered(c, n, V, s) =>
          \E P \in SUBSET V : n = Share(c, P) /\ (s \in DqmStreams \/ P \in {{}, V})
    <3>1. CASE n = 0
      <4>1. {} \in SUBSET V /\ n = Share(c, {})
        BY <2>5, <3>1
      <4> QED  BY <4>1
    <3>2. CASE n = Share(c, V)
      <4>1. V \in SUBSET V
        OBVIOUS
      <4> QED  BY <3>2, <4>1
    <3>3. CASE s \in DqmStreams /\ PartOf(c, n, V)
      BY <3>3 DEF PartOf
    <3> QED  BY <3>1, <3>2, <3>3 DEF OfDelivered
  <2> QED  BY <2>2, <2>3, <2>4, <2>6 DEF V, n
<1> QED  BY <1>1, EventsHold, PTL

-----------------------------------------------------------------------------
(* The end of the run *)

OfKind(k) == {e \in FileEvent : e.kind = k}
\* hltd has told that the run is complete, or aborted.
EndTold(k) == main.stop = k \/ Waits(Pend, OfKind(k))

\* A run that is complete was not aborted, and its processes are gone.
RunEnded ==
  /\ spent["abort"] # 0 => EndTold("complete") \/ EndTold("abort")
  /\ EndTold("complete") =>
       spent["abort"] = 0 /\ \A p \in Pids : proc[p].st \in {"ended", "crashed"}

\* After the end of the run no index file appears.
IndexFirst(P) ==
  \A i, j \in DOMAIN P : P[i].kind = "complete" /\ P[j].kind = "index" => j < i
LateIndex ==
  /\ IndexFirst(Pend)
  /\ main.stop = "complete" => \A i \in DOMAIN Pend : Pend[i].kind # "index"

\* A process that was not ended from outside has written its files for every
\* lumisection that it has left.
WrittenBy(p, l) ==
  /\ proc[p].st = "new" => grab[l][p] = 0
  /\ proc[p].st \in {"work", "output"} /\ grab[l][p] > 0 =>
       l <= proc[p].ls /\ (l < proc[p].ls => Files(l, p) = Streams)
  /\ proc[p].st = "output" /\ proc[p].ls = l => proc[p].out \subseteq Files(l, p)
  /\ proc[p].st = "ended" /\ grab[l][p] > 0 => Files(l, p) = Streams
Wrote == spent["abort"] = 0 => \A p \in Pids, l \in Lumis : WrittenBy(p, l)

EndInv == RunEnded /\ LateIndex /\ Wrote

LEMMA KindWaits ==
  ASSUME NEW P \in Seq(FileEvent), NEW k
  PROVE  Waits(P, OfKind(k)) <=> \E i \in DOMAIN P : P[i].kind = k
BY DEF Waits, OfKind

\* Of the events that have not been taken, the main loop holds index files only.
LEMMA ToldReported ==
  ASSUME Course, NEW k \in {"complete", "abort"}
  PROVE  EndTold(k) <=> k \in Reported
<1>1. /\ main.buffer \in Seq(FileEvent) /\ queue \in Seq(FileEvent) /\ Pend \in Seq(FileEvent)
      /\ \A i \in DOMAIN main.buffer : main.buffer[i].kind = "index"
  BY MainFields DEF Course, LumiTypeOK, Events, Buffered
<1> DEFINE b == main.buffer
<1>2. /\ Len(b) \in Nat /\ Len(queue) \in Nat /\ DOMAIN b = 1 .. Len(b) /\ DOMAIN queue = 1 .. Len(queue)
      /\ DOMAIN Pend = 1 .. Len(b) + Len(queue)
      /\ \A i \in 1 .. Len(b) + Len(queue) : Pend[i] = IF i <= Len(b) THEN b[i] ELSE queue[i - Len(b)]
  BY <1>1, ConcatProperties, LenProperties DEF Pend
<1> HIDE DEF b
<1>3. ASSUME NEW i \in DOMAIN queue PROVE \E j \in DOMAIN Pend : Pend[j] = queue[i]
  <2>1. Len(b) + i \in DOMAIN Pend /\ Pend[Len(b) + i] = queue[i]
    BY <1>2
  <2> QED  BY <2>1
<1>4. ASSUME NEW j \in DOMAIN Pend, Pend[j].kind = k PROVE \E i \in DOMAIN queue : Pend[j] = queue[i]
  <2>1. ~(j <= Len(b))
    BY <1>1, <1>2, <1>4 DEF b
  <2>2. j - Len(b) \in DOMAIN queue /\ Pend[j] = queue[j - Len(b)]
    BY <1>2, <2>1
  <2> QED  BY <2>2
<1>5. Waits(Pend, OfKind(k)) <=> \E j \in DOMAIN Pend : Pend[j].kind = k
  BY <1>1, KindWaits
<1> QED  BY <1>3, <1>4, <1>5 DEF EndTold, Reported

LEMMA OverTold ==
  ASSUME Course
  PROVE  RunOver <=> EndTold("complete") \/ EndTold("abort")
BY ToldReported DEF RunOver

LEMMA IndexStaysFirst ==
  ASSUME NEW P, NEW Q, NEW k, NEW X, Shifted(P, Q, k, X), IndexFirst(P),
         \/ \A j \in DOMAIN X : X[j].kind # "index"
         \/ /\ \A i \in DOMAIN P : P[i].kind # "complete"
            /\ \A i \in DOMAIN X : X[i].kind # "complete"
  PROVE  IndexFirst(Q)
<1> SUFFICES ASSUME NEW i \in DOMAIN Q, NEW j \in DOMAIN Q, Q[i].kind = "complete", Q[j].kind = "index"
             PROVE  j < i
  BY DEF IndexFirst
<1> DEFINE n == Len(P) - k
<1>1. /\ n \in Int /\ k \in Int /\ i \in Int /\ j \in Int
  BY DEF Shifted
<1>2. /\ \/ i + k \in DOMAIN P /\ Q[i] = P[i + k] /\ i <= n
         \/ i > n /\ i - n \in DOMAIN X /\ Q[i] = X[i - n]
      /\ \/ j + k \in DOMAIN P /\ Q[j] = P[j + k] /\ j <= n
         \/ j > n /\ j - n \in DOMAIN X /\ Q[j] = X[j - n]
  BY ShiftedFrom
<1> HIDE DEF n
<1>3. CASE j - n \in DOMAIN X /\ Q[j] = X[j - n]
  BY <1>2, <1>3
<1>4. CASE j + k \in DOMAIN P /\ Q[j] = P[j + k] /\ j <= n
  <2>1. CASE i + k \in DOMAIN P /\ Q[i] = P[i + k]
    <3>1. j + k < i + k
      BY <1>4, <2>1 DEF IndexFirst
    <3> QED  BY <1>1, <3>1
  <2>2. CASE i > n
    BY <1>1, <1>4, <2>2
  <2> QED  BY <1>2, <2>1, <2>2
<1> QED  BY <1>2, <1>3, <1>4

\* What the script does to the events and to the end of the run.
ScriptMoves(k) ==
  /\ Adds(k) /\ (k = 1 => 1 \in DOMAIN Pend)
  /\ UNCHANGED <<proc, grab, valid, torn>> /\ spent'["abort"] = spent["abort"]
  /\ \/ main'.stop = main.stop /\ (k = 1 => Pend[1].kind \notin {"complete", "abort"})
     \/ k = 1 /\ Pend[1].kind \in {"complete", "abort"} /\ main'.stop = Pend[1].kind

LEMMA ToldMoves ==
  ASSUME Course, NEW k \in {0, 1}, ScriptMoves(k), NEW e \in {"complete", "abort"}
  PROVE  /\ EndTold(e)' => EndTold(e)
         /\ EndTold(e) => EndTold("complete")' \/ EndTold("abort")'
<1>1. PICK X \in Seq(FileEvent) :
        Shifted(Pend, Pend', k, X) /\ \A i \in DOMAIN X : X[i].kind \in {"eols", "merged"}
  BY DEF ScriptMoves, Adds
<1> DEFINE Z == OfKind(e)
<1>2. ~Waits(X, Z)
  BY <1>1, KindWaits
<1> HIDE DEF Z
<1>3. /\ Waits(Pend', Z) => Waits(Pend, Z)
      /\ Waits(Pend, Z) => Waits(Pend', Z) \/ (k = 1 /\ 1 \in DOMAIN Pend /\ Pend[1] \in Z)
  BY <1>1, <1>2, WaitsShift
<1>4. 1 \in DOMAIN Pend /\ Pend[1].kind = e => Waits(Pend, Z)
  <2>1. Pend \in Seq(FileEvent)
    BY DEF Course, Events
  <2> QED  BY <2>1, KindWaits DEF Z
<1>5. Pend[1] \in Z => Pend[1].kind = e
  BY DEF Z, OfKind
<1>6. EndTold(e) <=> main.stop = e \/ Waits(Pend, Z)
  BY DEF EndTold, Z
<1>7. EndTold(e)' <=> main'.stop = e \/ Waits(Pend', Z)
  BY DEF EndTold, Z
<1>8. /\ main'.stop = "complete" => EndTold("complete")'
      /\ main'.stop = "abort" => EndTold("abort")'
  BY DEF EndTold
<1>9. e = "complete" \/ e = "abort"
  OBVIOUS
<1> QED  BY <1>3, <1>4, <1>5, <1>6, <1>7, <1>8, <1>9 DEF ScriptMoves

LEMMA ScriptEndInv ==
  ASSUME Course, EndInv, NEW k \in {0, 1}, ScriptMoves(k)
  PROVE  EndInv'
<1>1. RunEnded'
  BY ToldMoves DEF EndInv, RunEnded, ScriptMoves
<1>2. LateIndex'
  <2>1. PICK X \in Seq(FileEvent) :
          Shifted(Pend, Pend', k, X) /\ \A i \in DOMAIN X : X[i].kind \in {"eols", "merged"}
    BY DEF ScriptMoves, Adds
  <2>2. \A j \in DOMAIN X : X[j].kind # "index"
    BY <2>1
  <2>3. IndexFirst(Pend')
    BY <2>1, <2>2, IndexStaysFirst DEF EndInv, LateIndex
  <2>4. ASSUME main'.stop = "complete", NEW j \in DOMAIN Pend', Pend'[j].kind = "index" PROVE FALSE
    <3>1. j + k \in DOMAIN Pend /\ Pend[j + k].kind = "index"
      BY <2>1, <2>2, <2>4, ShiftedFrom
    <3>2. main.stop # "complete"
      BY <3>1 DEF EndInv, LateIndex
    <3>3. k = 1 /\ 1 \in DOMAIN Pend /\ Pend[1].kind = "complete"
      BY <2>4, <3>2 DEF ScriptMoves
    <3>4. j + k < 1
      BY <3>1, <3>3 DEF EndInv, LateIndex, IndexFirst
    <3>5. j \in Nat
      BY <2>1 DEF Shifted
    <3>6. j + k \in 1 .. Len(Pend)
      BY <2>1, <3>1 DEF Shifted
    <3> QED  BY <3>4, <3>6
  <2> QED  BY <2>3, <2>4 DEF LateIndex
<1>3. Wrote'
  BY DEF EndInv, Wrote, WrittenBy, ScriptMoves, Files
<1> QED  BY <1>1, <1>2, <1>3 DEF EndInv

LEMMA SpentOther ==
  ASSUME LumiTypeOK, UNCHANGED spent \/ Spend("lost") \/ Spend("refused") \/ Spend("twice")
                     \/ Spend("torn") \/ Spend("crash")
  PROVE  spent'["abort"] = spent["abort"]
<1>1. spent \in [Faults -> Nat]
  BY DEF LumiTypeOK
<1>2. ASSUME NEW f \in Faults \ {"abort"}, Spend(f) PROVE spent'["abort"] = spent["abort"]
  BY <1>1, <1>2 DEF Spend, Faults
<1> QED  BY <1>2 DEF Faults

LEMMA ClosureSpends ==
  ASSUME NEW S, NEW hs, CheckClosure(S, hs)
  PROVE  UNCHANGED spent \/ Spend("lost") \/ Spend("refused")
<1>1. \E fail, no : IF fail # {} THEN Spend("lost") ELSE SpendIf(no # {}, "refused")
  BY DEF CheckClosure
<1> QED  BY <1>1 DEF SpendIf

LEMMA TakingsSpend ==
  ASSUME Course, Takings
  PROVE  spent'["abort"] = spent["abort"]
<1>1. UNCHANGED spent \/ Spend("lost") \/ Spend("refused")
  <2>1. CASE TakeIndex
    BY <2>1, ClosureSpends DEF TakeIndex, Conclude
  <2>2. CASE TakeEoLS
    BY <2>2, ClosureSpends DEF TakeEoLS, Conclude
  <2>3. CASE TakeJson
    BY <2>3, ClosureSpends DEF TakeJson, Conclude
  <2>4. CASE TakeBad
    BY <2>4, ClosureSpends DEF TakeBad, Conclude
  <2>5. CASE TakeCrash
    <3>1. \E S, hs : CheckClosure(S, hs)
      BY <2>5 DEF TakeCrash
    <3> QED  BY <3>1, ClosureSpends
  <2>6. CASE TakeMerged
    BY <2>6, ClosureSpends DEF TakeMerged, Conclude
  <2> QED  BY <2>1, <2>2, <2>3, <2>4, <2>5, <2>6 DEF Takings
<1> QED  BY <1>1, SpentOther DEF Course

\* An event appears, or none, and none is taken.
LEMMA StillMoves ==
  ASSUME Course, Pend' = Pend, UNCHANGED <<proc, grab, valid, torn>>,
         spent'["abort"] = spent["abort"], main'.stop = main.stop
  PROVE  ScriptMoves(0)
<1>1. Shifted(Pend, Pend', 0, <<>>)
  BY NothingShifted DEF Course, Events
<1>2. <<>> \in Seq(FileEvent) /\ \A i \in DOMAIN <<>> : FALSE
  OBVIOUS
<1>3. Adds(0)
  BY <1>1, <1>2 DEF Adds
<1> QED  BY <1>3 DEF ScriptMoves

LEMMA TakingsMove ==
  ASSUME Course, Takings \/ TakeProcessing \/ TakeComplete
  PROVE  ScriptMoves(1)
<1>1. /\ Adds(1) /\ Pend[1] = Event /\ 1 \in DOMAIN Pend
      /\ UNCHANGED <<proc, grab, valid, torn>>
  BY TakeMoves DEF Takings
<1>2. spent'["abort"] = spent["abort"]
  BY TakingsSpend DEF TakeProcessing, TakeComplete
<1>3. main \in MainState
  BY DEF Course, LumiTypeOK
<1>4. \/ main'.stop = main.stop /\ Event.kind \notin {"complete", "abort"}
      \/ Event.kind \in {"complete", "abort"} /\ main'.stop = Event.kind
  <2>1. CASE Takings
    BY <2>1 DEF Takings, TakeIndex, TakeEoLS, TakeJson, TakeBad, TakeCrash, TakeMerged
  <2>2. CASE TakeProcessing
    <3>1. main' = [main EXCEPT !.allowEmpty = TRUE] /\ Event.kind = "processing"
      BY <2>2 DEF TakeProcessing
    <3> QED  BY <1>3, <3>1 DEF MainState
  <2>3. CASE TakeComplete
    <3>1. main' = [main EXCEPT !.stop = Event.kind] /\ Event.kind \in {"complete", "abort"}
      BY <2>3 DEF TakeComplete
    <3> QED  BY <1>3, <3>1 DEF MainState
  <2> QED  BY <2>1, <2>2, <2>3
<1> QED  BY <1>1, <1>2, <1>4 DEF ScriptMoves

LEMMA DropEarlyMoves ==
  ASSUME Course, DropEarly
  PROVE  ScriptMoves(1)
<1>1. Shifted(Pend, Pend', 1, <<>>) /\ Pend[1].kind = "crash"
  BY DropEarlyShifts
<1>2. 1 \in DOMAIN Pend
  BY <1>1 DEF Shifted
<1>3. <<>> \in Seq(FileEvent) /\ \A i \in DOMAIN <<>> : FALSE
  OBVIOUS
<1>4. Adds(1)
  BY <1>1, <1>3 DEF Adds
<1>5. UNCHANGED <<main, proc, grab, valid, torn, spent>>
  BY DEF DropEarly
<1> QED  BY <1>1, <1>2, <1>4, <1>5 DEF ScriptMoves

LEMMA DqmDoneMoves ==
  ASSUME Course, DqmDone
  PROVE  ScriptMoves(0)
<1>1. /\ UNCHANGED <<proc, grab, valid, torn>>
      /\ \E l, s : \E e \in MergedFiles(l, s) : Shifted(Pend, Pend', 0, <<e>>)
  BY DqmEffect
<1>2. PICK e \in FileEvent : e.kind = "merged" /\ Shifted(Pend, Pend', 0, <<e>>)
  BY <1>1 DEF MergedFiles
<1>3. <<e>> \in Seq(FileEvent) /\ \A i \in DOMAIN <<e>> : <<e>>[i].kind = "merged"
  BY <1>2
<1>4. Adds(0)
  BY <1>2, <1>3 DEF Adds
<1>5. UNCHANGED <<main, spent>>
  BY DEF DqmDone
<1> QED  BY <1>1, <1>4, <1>5 DEF ScriptMoves

LEMMA WaitingMoves ==
  ASSUME Course, BufferIndex \/ FlushBuffer \/ Idle \/ Finish \/ DqmTake
  PROVE  ScriptMoves(0)
<1>1. Pend' = Pend /\ UNCHANGED <<proc, grab, valid, torn>>
  BY WaitingPasses
<1>2. spent'["abort"] = spent["abort"]
  <2>1. CASE BufferIndex \/ FlushBuffer \/ Idle \/ Finish
    BY <2>1 DEF BufferIndex, FlushBuffer, Idle, Finish
  <2>2. CASE DqmTake
    <3>1. \E b \in BOOLEAN : SpendIf(b, "lost")
      BY <2>2, MergeTaken DEF TakesMerge
    <3>2. UNCHANGED spent \/ Spend("lost")
      BY <3>1 DEF SpendIf
    <3> QED  BY <3>2, SpentOther DEF Course
  <2> QED  BY <2>1, <2>2
<1>3. main'.stop = main.stop
  <2>1. main \in MainState
    BY DEF Course, LumiTypeOK
  <2>2. \/ main' = main
        \/ \E b : main' = [main EXCEPT !.buffer = b, !.index = TRUE]
        \/ \E b, a : main' = [main EXCEPT !.started = TRUE, !.buffer = b, !.allowEmpty = a]
        \/ \E a : main' = [main EXCEPT !.pc = a]
        \/ \E n, a : main' = [main EXCEPT !.left = n, !.skip = a]
    BY DEF BufferIndex, FlushBuffer, Idle, Finish, DqmTake
  <2> QED  BY <2>1, <2>2 DEF MainState
<1> QED  BY <1>1, <1>2, <1>3, StillMoves

LEMMA ScriptGoesOn ==
  ASSUME Course, MainLoop \/ DqmMerger
  PROVE  \E k \in {0, 1} : ScriptMoves(k)
<1>1. CASE Takings \/ TakeProcessing \/ TakeComplete
  BY <1>1, TakingsMove
<1>2. CASE DropEarly
  BY <1>2, DropEarlyMoves
<1>3. CASE BufferIndex \/ FlushBuffer \/ Idle \/ Finish \/ DqmTake
  BY <1>3, WaitingMoves
<1>4. CASE DqmDone
  BY <1>4, DqmDoneMoves
<1> QED  BY <1>1, <1>2, <1>3, <1>4 DEF MainLoop, DqmMerger, Takings

LEMMA ToldAppears ==
  ASSUME NEW X, Shifted(Pend, Pend', 0, X), main'.stop = main.stop, NEW k
  PROVE  EndTold(k)' <=> EndTold(k) \/ Waits(X, OfKind(k))
<1> DEFINE Z == OfKind(k)
<1> HIDE DEF Z
<1>1. /\ Waits(Pend', Z) => Waits(Pend, Z) \/ Waits(X, Z)
      /\ Waits(X, Z) => Waits(Pend', Z)
      /\ Waits(Pend, Z) => Waits(Pend', Z)
  BY WaitsShift
<1>2. EndTold(k) <=> main.stop = k \/ Waits(Pend, Z)
  BY DEF EndTold, Z
<1>3. EndTold(k)' <=> main'.stop = k \/ Waits(Pend', Z)
  BY DEF EndTold, Z
<1> QED  BY <1>1, <1>2, <1>3 DEF Z

LEMMA LateAppears ==
  ASSUME LateIndex, NEW X \in Seq(FileEvent), Shifted(Pend, Pend', 0, X), main'.stop = main.stop,
         \/ \A i \in DOMAIN X : X[i].kind # "index"
         \/ ~EndTold("complete") /\ \A i \in DOMAIN X : X[i].kind # "complete"
  PROVE  LateIndex'
<1>1. IndexFirst(Pend')
  <2>1. Pend \in Seq(FileEvent)
    BY DEF Shifted
  <2>2. ~EndTold("complete") => \A i \in DOMAIN Pend : Pend[i].kind # "complete"
    BY <2>1, KindWaits DEF EndTold
  <2> QED  BY <2>2, IndexStaysFirst DEF LateIndex
<1>2. ASSUME main'.stop = "complete", NEW j \in DOMAIN Pend' PROVE Pend'[j].kind # "index"
  <2>1. EndTold("complete")
    BY <1>2 DEF EndTold
  <2>2. \A i \in DOMAIN X : X[i].kind # "index"
    BY <2>1
  <2>3. \A i \in DOMAIN Pend : Pend[i].kind # "index"
    BY <1>2 DEF LateIndex
  <2> QED  BY <2>2, <2>3, ShiftedFrom
<1> QED  BY <1>1, <1>2 DEF LateIndex

\* A step after which the run goes on as before.
LEMMA RunStays ==
  ASSUME RunEnded, NEW X \in Seq(FileEvent), Shifted(Pend, Pend', 0, X), main'.stop = main.stop,
         \A i \in DOMAIN X : X[i].kind \notin {"complete", "abort"},
         spent'["abort"] = spent["abort"],
         \A p \in Pids : proc[p].st \in {"ended", "crashed"} => proc'[p].st \in {"ended", "crashed"}
  PROVE  RunEnded'
<1>1. ~Waits(X, OfKind("complete")) /\ ~Waits(X, OfKind("abort"))
  BY KindWaits
<1>2. /\ EndTold("complete")' <=> EndTold("complete")
      /\ EndTold("abort")' <=> EndTold("abort")
  BY <1>1, ToldAppears
<1> QED  BY <1>2 DEF RunEnded

\* One process moves.
LEMMA WroteMoves ==
  ASSUME Wrote, NEW p \in Pids, spent'["abort"] = 0 => spent["abort"] = 0,
         \A q \in Pids \ {p} : proc'[q] = proc[q],
         \A q \in Pids \ {p}, l \in Lumis :
           grab'[l][q] = grab[l][q] /\ valid'[l][q] = valid[l][q] /\ torn'[l][q] = torn[l][q],
         spent["abort"] = 0 => \A l \in Lumis : WrittenBy(p, l)'
  PROVE  Wrote'
<1> SUFFICES ASSUME spent'["abort"] = 0, NEW q \in Pids, NEW l \in Lumis
             PROVE  WrittenBy(q, l)'
  BY DEF Wrote
<1>1. CASE q = p
  BY <1>1
<1>2. CASE q # p
  <2>1. WrittenBy(q, l)
    BY DEF Wrote
  <2>2. proc'[q] = proc[q] /\ grab'[l][q] = grab[l][q] /\ Files(l, q)' = Files(l, q)
    BY <1>2 DEF Files
  <2> QED  BY <2>1, <2>2 DEF WrittenBy
<1> QED  BY <1>1, <1>2

LEMMA BuEndsEnd ==
  ASSUME Course, EndInv, NEW l \in Lumis, BuEnds(l)
  PROVE  EndInv'
<1>1. Pend' = Pend /\ UNCHANGED <<main, proc, grab, valid, torn, spent>>
  BY DEF BuEnds, scriptVars, Pend
<1>2. ScriptMoves(0)
  BY <1>1, StillMoves
<1> QED  BY <1>2, ScriptEndInv

LEMMA BeginEnd ==
  ASSUME Course, EndInv, NEW p \in Pids, Begin(p)
  PROVE  EndInv'
<1>1. /\ UNCHANGED <<main, grab, valid, torn, spent>> /\ Pend' = Pend /\ proc[p].st = "new"
      /\ proc \in [Pids -> ProcState]
      /\ proc' = [proc EXCEPT ![p].st = "work", ![p].ls = Cardinality(buEols) + 1]
  BY DEF Course, LumiTypeOK, Begin, scriptVars, Pend
<1>2. proc'[p].st = "work" /\ \A q \in Pids \ {p} : proc'[q] = proc[q]
  BY <1>1 DEF ProcState
<1>3. Shifted(Pend, Pend', 0, <<>>) /\ <<>> \in Seq(FileEvent) /\ \A i \in DOMAIN <<>> : FALSE
  BY <1>1, NothingShifted DEF Course, Events
<1>4. \A q \in Pids : proc[q].st \in {"ended", "crashed"} => proc'[q].st \in {"ended", "crashed"}
  BY <1>1, <1>2
<1>5. RunEnded'
  BY <1>1, <1>3, <1>4, RunStays DEF EndInv
<1>6. LateIndex'
  BY <1>1, <1>3, LateAppears DEF EndInv
<1>7. ASSUME spent["abort"] = 0, NEW l \in Lumis PROVE WrittenBy(p, l)'
  <2>1. grab'[l][p] = 0
    BY <1>1, <1>7 DEF EndInv, Wrote, WrittenBy
  <2> QED  BY <1>2, <2>1 DEF WrittenBy
<1>8. Wrote'
  BY <1>1, <1>2, <1>7, WroteMoves DEF EndInv
<1> QED  BY <1>5, <1>6, <1>8 DEF EndInv

LEMMA DieEnd ==
  ASSUME Course, EndInv, NEW p \in Pids, Die(p)
  PROVE  EndInv'
<1>1. /\ UNCHANGED <<main, grab, valid, torn>> /\ Pend' = Pend /\ proc[p].st \in {"work", "output"}
      /\ proc \in [Pids -> ProcState] /\ proc' = [proc EXCEPT ![p].st = "died"]
      /\ Spend("crash") /\ LumiTypeOK
  BY DEF Course, LumiTypeOK, Die, Running, scriptVars, Pend
<1>2. proc'[p].st = "died" /\ \A q \in Pids \ {p} : proc'[q] = proc[q]
  BY <1>1 DEF ProcState
<1>3. Shifted(Pend, Pend', 0, <<>>) /\ <<>> \in Seq(FileEvent) /\ \A i \in DOMAIN <<>> : FALSE
  BY <1>1, NothingShifted DEF Course, Events
<1>4. \A q \in Pids : proc[q].st \in {"ended", "crashed"} => proc'[q].st \in {"ended", "crashed"}
  BY <1>1, <1>2
<1>a. spent'["abort"] = spent["abort"]
  BY <1>1, SpentOther
<1>5. RunEnded'
  BY <1>1, <1>3, <1>4, <1>a, RunStays DEF EndInv
<1>6. LateIndex'
  BY <1>1, <1>3, LateAppears DEF EndInv
<1>7. ASSUME NEW l \in Lumis PROVE WrittenBy(p, l)'
  BY <1>2 DEF WrittenBy
<1>8. Wrote'
  BY <1>1, <1>2, <1>7, <1>a, WroteMoves DEF EndInv
<1> QED  BY <1>5, <1>6, <1>8 DEF EndInv

LEMMA LeaveEnd ==
  ASSUME Course, EndInv, NEW p \in Pids, Leave(p)
  PROVE  EndInv'
<1>1. /\ UNCHANGED <<main, grab, valid, torn>> /\ proc[p].st = "work"
      /\ proc \in [Pids -> ProcState] /\ proc' = [proc EXCEPT ![p].st = "output", ![p].out = {}]
      /\ UNCHANGED spent \/ Spend("twice")
      /\ LumiTypeOK /\ Current(p) \in Lumis
      /\ queue' = queue \/ WriteEoLS({Current(p)}, queue, queued)
  BY DEF Course, LumiTypeOK, Leave, scriptVars
<1>2. /\ proc'[p].st = "output" /\ proc'[p].out = {} /\ proc'[p].ls = proc[p].ls
      /\ \A q \in Pids \ {p} : proc'[q] = proc[q]
  BY <1>1 DEF ProcState
<1>3. PICK X \in Seq(FileEvent) :
        Shifted(Pend, Pend', 0, X) /\ \A i \in DOMAIN X : X[i].kind \notin {"index", "complete", "abort"}
  <2>1. CASE queue' = queue
    <3>1. Pend' = Pend
      BY <1>1, <2>1 DEF Pend
    <3>2. Shifted(Pend, Pend', 0, <<>>) /\ <<>> \in Seq(FileEvent) /\ \A i \in DOMAIN <<>> : FALSE
      BY <3>1, NothingShifted DEF Course, Events
    <3> QED  BY <3>2
  <2>2. CASE WriteEoLS({Current(p)}, queue, queued)
    <3>1. {Current(p)} \in SUBSET Lumis /\ queued \in SUBSET Lumis
      BY <1>1 DEF LumiTypeOK
    <3>2. PICK X : EndsOf(X, {Current(p)} \ queued) /\ queue' = queue \o X
      BY <2>2, <3>1, WritesEnds
    <3>3. X \in Seq(FileEvent) /\ \A i \in DOMAIN X : X[i].kind \notin FileKinds /\ X[i].kind = "eols"
      BY <3>2, EndsPass
    <3>4. Shifted(Pend, Pend', 0, X)
      BY <1>1, <3>2, <3>3, AddShifts
    <3> QED  BY <3>3, <3>4
  <2> QED  BY <1>1, <2>1, <2>2
<1>4. \A q \in Pids : proc[q].st \in {"ended", "crashed"} => proc'[q].st \in {"ended", "crashed"}
  BY <1>1, <1>2
<1>a. spent'["abort"] = spent["abort"]
  BY <1>1, SpentOther
<1>5. RunEnded'
  BY <1>1, <1>3, <1>4, <1>a, RunStays DEF EndInv
<1>6. LateIndex'
  BY <1>1, <1>3, LateAppears DEF EndInv
<1>7. ASSUME spent["abort"] = 0, NEW l \in Lumis PROVE WrittenBy(p, l)'
  BY <1>1, <1>2, <1>7 DEF EndInv, Wrote, WrittenBy, Files
<1>8. Wrote'
  BY <1>1, <1>2, <1>7, <1>a, WroteMoves DEF EndInv
<1> QED  BY <1>5, <1>6, <1>8 DEF EndInv

LEMMA ReportCrashEnd ==
  ASSUME Course, EndInv, NEW p \in Pids, ReportCrash(p)
  PROVE  EndInv'
<1> DEFINE e == Ev("crash", 0, p, NoStream, 0)
<1>1. /\ Shifted(Pend, Pend', 0, <<e>>) /\ UNCHANGED scriptVars
      /\ UNCHANGED <<grab, valid, torn, buEols>>
      /\ proc[p].st = "died" /\ proc'[p].st = "crashed"
      /\ \A q \in Pids \ {p} : proc'[q] = proc[q]
      /\ e \in CrashFiles(p) /\ e.kind = "crash" /\ e.pid = p
  BY CrashReported
<1> HIDE DEF e
<1>2. UNCHANGED <<main, spent>>
  BY <1>1 DEF ReportCrash, scriptVars
<1>3. <<e>> \in Seq(FileEvent) /\ \A i \in DOMAIN <<e>> : <<e>>[i].kind = "crash"
  BY <1>1 DEF Shifted
<1>4. \A q \in Pids : proc[q].st \in {"ended", "crashed"} => proc'[q].st \in {"ended", "crashed"}
  BY <1>1
<1>5. RunEnded'
  BY <1>1, <1>2, <1>3, <1>4, RunStays DEF EndInv
<1>6. LateIndex'
  BY <1>1, <1>2, <1>3, LateAppears DEF EndInv
<1>7. ASSUME NEW l \in Lumis PROVE WrittenBy(p, l)'
  BY <1>1 DEF WrittenBy
<1>8. Wrote'
  BY <1>1, <1>2, <1>7, WroteMoves DEF EndInv
<1> QED  BY <1>5, <1>6, <1>8 DEF EndInv

LEMMA GrabEnd ==
  ASSUME Course, EndInv, NEW p \in Pids, Grab(p)
  PROVE  EndInv'
<1>a. PICK l : l = Current(p)
  OBVIOUS
<1>1. /\ l \in Lumis /\ grab'[l][p] = grab[l][p] + 1
      /\ \A q \in Pids \ {p} : grab'[l][q] = grab[l][q]
      /\ \A k \in Lumis \ {l} : grab'[k] = grab[k]
      /\ \E X \in Seq(FileEvent) : ReadsOne(l, p, X)
  BY <1>a, GrabFacts
<1>2. /\ proc[p].st = "work" /\ proc[p].ls = l /\ UNCHANGED <<proc, main, valid, torn, spent>>
  BY <1>a DEF Grab, scriptVars, Current
<1>3. PICK X \in Seq(FileEvent) :
        Shifted(Pend, Pend', 0, X) /\ \A i \in DOMAIN X : X[i].kind \notin {"complete", "abort"}
  BY <1>1 DEF ReadsOne, IndexFiles
<1>4. ~EndTold("complete")
  BY <1>2 DEF EndInv, RunEnded
<1>5. RunEnded'
  BY <1>2, <1>3, RunStays DEF EndInv
<1>6. LateIndex'
  BY <1>2, <1>3, <1>4, LateAppears DEF EndInv
<1>7. ASSUME spent["abort"] = 0, NEW k \in Lumis PROVE WrittenBy(p, k)'
  <2>1. WrittenBy(p, k)
    BY <1>7 DEF EndInv, Wrote
  <2>2. CASE k = l
    BY <1>2, <2>2 DEF WrittenBy, Lumis
  <2>3. CASE k # l
    BY <1>1, <1>2, <2>1, <2>3 DEF WrittenBy, Files
  <2> QED  BY <2>2, <2>3
<1>8. Wrote'
  BY <1>1, <1>2, <1>7, WroteMoves DEF EndInv
<1> QED  BY <1>5, <1>6, <1>8 DEF EndInv

LEMMA OutputEnd ==
  ASSUME Course, EndInv, NEW p \in Pids, NEW s \in Streams, Output(p, s)
  PROVE  EndInv'
<1>a. PICK l : l = Current(p)
  OBVIOUS
<1>b. PICK n : n = grab[l][p]
  OBVIOUS
<1>1. WritesOne(p, s, l, n)
  BY <1>a, <1>b, OutputFacts
<1>2. /\ l \in Lumis /\ UNCHANGED <<main, grab>> /\ proc[p].st = "output" /\ proc[p].ls = l
      /\ \A q \in Pids \ {p} : proc'[q] = proc[q]
  BY <1>1 DEF WritesOne, scriptVars
<1>3. PICK e \in FileEvent :
        /\ Shifted(Pend, Pend', 0, <<e>>)
        /\ \/ e.kind = "json" /\ Gains(valid, valid', l, p, s) /\ torn' = torn
           \/ e.kind = "bad" /\ Gains(torn, torn', l, p, s) /\ valid' = valid
  BY <1>1 DEF WritesOne
<1>4. <<e>> \in Seq(FileEvent) /\ \A i \in DOMAIN <<e>> : <<e>>[i].kind \in {"json", "bad"}
  BY <1>3
<1>5. spent'["abort"] = spent["abort"]
  <2>1. UNCHANGED spent \/ Spend("torn")
    BY DEF Output
  <2> QED  BY <2>1, SpentOther DEF Course
<1>6. ASSUME NEW q \in Pids, NEW k \in Lumis
      PROVE  Files(k, q)' = IF k = l /\ q = p THEN Files(k, q) \union {s} ELSE Files(k, q)
  BY <1>2, <1>3 DEF Gains, Files
<1>7. \A q \in Pids : proc[q].st \in {"ended", "crashed"} => proc'[q].st \in {"ended", "crashed"}
  BY <1>2
<1>8. RunEnded'
  BY <1>2, <1>3, <1>4, <1>5, <1>7, RunStays DEF EndInv
<1>9. LateIndex'
  BY <1>2, <1>3, <1>4, LateAppears DEF EndInv
<1>10. ASSUME spent["abort"] = 0, NEW k \in Lumis PROVE WrittenBy(p, k)'
  <2>1. WrittenBy(p, k) /\ WrittenBy(p, l)
    BY <1>2, <1>10 DEF EndInv, Wrote
  <2>2. k \in Int /\ l \in Int
    BY <1>2 DEF Lumis
  <2>3. Files(k, p) \subseteq Streams /\ Files(l, p) \subseteq Streams
    BY <1>2 DEF Course, LumiTypeOK, Files
  <2>4. CASE proc'[p].st = "output" /\ proc'[p].ls = l /\ proc'[p].out = proc[p].out \union {s}
    BY <1>2, <1>6, <2>1, <2>3, <2>4 DEF WrittenBy
  <2>5. CASE /\ proc'[p].st \in {"work", "ended"} /\ proc'[p].ls = l + 1
             /\ proc[p].out \union {s} = Streams
    <3>1. Files(l, p)' = Streams
      BY <1>2, <1>6, <2>1, <2>3, <2>5 DEF WrittenBy
    <3>2. grab[k][p] > 0 => k <= l /\ (k < l => Files(k, p)' = Streams)
      BY <1>2, <1>6, <2>1, <2>2 DEF WrittenBy
    <3>3. grab'[k][p] > 0 => k <= l /\ Files(k, p)' = Streams
      BY <1>2, <2>2, <3>1, <3>2
    <3> QED  BY <2>2, <2>5, <3>3 DEF WrittenBy
  <2> QED  BY <1>1, <2>4, <2>5 DEF WritesOne
<1>11. \A q \in Pids \ {p}, k \in Lumis :
         grab'[k][q] = grab[k][q] /\ valid'[k][q] = valid[k][q] /\ torn'[k][q] = torn[k][q]
  BY <1>2, <1>3 DEF Gains
<1>12. Wrote'
  BY <1>2, <1>5, <1>10, <1>11, WroteMoves DEF EndInv
<1> QED  BY <1>8, <1>9, <1>12 DEF EndInv

LEMMA RunOverEnd ==
  ASSUME Course, EndInv, RunComplete \/ RunAborted
  PROVE  EndInv'
<1> DEFINE c == Ev("complete", 0, NoPid, NoStream, 0)
           a == Ev("abort", 0, NoPid, NoStream, 0)
<1>1. /\ LumiTypeOK /\ UNCHANGED <<main, grab, valid, torn>> /\ proc \in [Pids -> ProcState]
      /\ ~EndTold("complete") /\ ~EndTold("abort") /\ spent["abort"] = 0
  <2>1. ~RunOver /\ UNCHANGED <<main, grab, valid, torn>>
    BY DEF RunComplete, RunAborted, scriptVars
  <2> QED  BY <2>1, OverTold DEF EndInv, RunEnded, Course, LumiTypeOK
<1>2. c \in FileEvent /\ c.kind = "complete" /\ a \in FileEvent /\ a.kind = "abort"
  BY EventsTyped DEF Ev
<1> HIDE DEF c, a
<1>3. CASE RunComplete
  <2>1. queue' = Append(queue, c) /\ UNCHANGED spent
    BY <1>3 DEF RunComplete, Report, c
  <2>2. Shifted(Pend, Pend', 0, <<c>>)
    BY <1>1, <1>2, <2>1, ReportShifts
  <2>3. <<c>> \in Seq(FileEvent) /\ \A i \in DOMAIN <<c>> : <<c>>[i].kind = "complete"
    BY <1>2
  <2>4. ASSUME NEW p \in Pids
        PROVE  /\ proc'[p].st \in {"ended", "crashed"}
               /\ proc'[p] = proc[p] \/ (proc[p].st = "new" /\ proc'[p].st = "ended")
    <3>1. /\ proc'[p] = [proc[p] EXCEPT !.st = IF @ = "new" THEN "ended" ELSE @]
          /\ proc[p].st \in {"new", "ended", "crashed"}
      BY <1>3 DEF RunComplete
    <3> QED  BY <1>1, <3>1 DEF ProcState
  <2>5. RunEnded'
    BY <1>1, <2>1, <2>4 DEF RunEnded
  <2>6. LateIndex'
    BY <1>1, <2>2, <2>3, LateAppears DEF EndInv
  <2>7. Wrote'
    <3> SUFFICES ASSUME NEW p \in Pids, NEW l \in Lumis PROVE WrittenBy(p, l)'
      BY DEF Wrote
    <3>1. WrittenBy(p, l)
      BY <1>1 DEF EndInv, Wrote
    <3>2. grab'[l][p] = grab[l][p] /\ Files(l, p)' = Files(l, p)
      BY <1>1 DEF Files
    <3>3. CASE proc'[p] = proc[p]
      BY <3>1, <3>2, <3>3 DEF WrittenBy
    <3>4. CASE proc[p].st = "new" /\ proc'[p].st = "ended"
      BY <3>1, <3>2, <3>4 DEF WrittenBy
    <3> QED  BY <2>4, <3>3, <3>4
  <2> QED  BY <2>5, <2>6, <2>7 DEF EndInv
<1>4. CASE RunAborted
  <2>1. queue' = Append(queue, a) /\ Spend("abort")
    BY <1>4 DEF RunAborted, Report, a
  <2>2. Shifted(Pend, Pend', 0, <<a>>)
    BY <1>1, <1>2, <2>1, ReportShifts
  <2>3. <<a>> \in Seq(FileEvent) /\ \A i \in DOMAIN <<a>> : <<a>>[i].kind = "abort"
    BY <1>2
  <2>4. spent'["abort"] # 0
    BY <1>1, <2>1 DEF Spend, Faults, LumiTypeOK
  <2>5. ~Waits(<<a>>, OfKind("complete")) /\ Waits(<<a>>, OfKind("abort"))
    <3>1. 1 \in DOMAIN <<a>>
      OBVIOUS
    <3> QED  BY <2>3, <3>1, KindWaits, SMTT(30)
  <2>6. EndTold("abort")' /\ ~EndTold("complete")'
    BY <1>1, <2>2, <2>5, ToldAppears
  <2>7. LateIndex'
    BY <1>1, <2>2, <2>3, LateAppears DEF EndInv
  <2> QED  BY <2>4, <2>6, <2>7 DEF EndInv, RunEnded, Wrote
<1> QED  BY <1>3, <1>4

LEMMA EndGoesOn ==
  ASSUME Course, EndInv, [Next]_lumiVars
  PROVE  EndInv'
<1>1. CASE MainLoop \/ DqmMerger
  BY <1>1, ScriptGoesOn, ScriptEndInv
<1>2. CASE Outside
  BY <1>2, BuEndsEnd, BeginEnd, DieEnd, LeaveEnd, ReportCrashEnd, GrabEnd, OutputEnd, RunOverEnd
     DEF Outside
<1>3. CASE UNCHANGED lumiVars
  <2>1. Pend' = Pend /\ UNCHANGED <<main, proc, grab, valid, torn, spent>>
    BY <1>3 DEF lumiVars, Pend
  <2>2. ScriptMoves(0)
    BY <2>1, StillMoves
  <2> QED  BY <2>2, ScriptEndInv
<1> QED  BY <1>1, <1>2, <1>3 DEF Next

LEMMA EndBegins == Init => EndInv
<1> SUFFICES ASSUME Init PROVE EndInv
  OBVIOUS
<1>1. /\ main.stop = "no" /\ Pend = <<>> /\ DOMAIN Pend = {}
      /\ spent["abort"] = 0 /\ \A p \in Pids, l \in Lumis : proc[p].st = "new" /\ grab[l][p] = 0
  <2>1. main.stop = "no" /\ main.buffer = <<>> /\ queue = <<>>
    BY DEF Init
  <2>2. Pend = <<>>
    BY <2>1, ConcatEmptySeq DEF Pend
  <2> QED  BY <2>1, <2>2 DEF Init, Faults
<1>2. ~EndTold("complete") /\ ~EndTold("abort")
  BY <1>1 DEF EndTold, Waits
<1> QED  BY <1>1, <1>2 DEF EndInv, RunEnded, LateIndex, IndexFirst, Wrote, WrittenBy

-----------------------------------------------------------------------------
(* What the main loop does to the handler of a lumisection with events *)

\* The event that is taken is neither the end of the lumisection nor a merged
\* file of it.
Aside(l) ==
  /\ l \in seen' => l \in seen
  /\ \A u \in Streams : ~IsHead(1, MergedFiles(l, u))

\* The handler of a lumisection with events is left alone.
Rested(l) == Filled(lumi'[l]) => lumi'[l] = lumi[l] /\ Aside(l)

\* The event makes h of the handler of lumisection l, which is a new one if the
\* event is an index file; streams stay open, and those that are being merged
\* are not those that come back.
Older(l, h) ==
  /\ Filled(lumi[l]) /\ (lumi[l].eols => h.eols)
  /\ \A u \in Streams :
       /\ h.out[u].open = lumi[l].out[u].open
       /\ h.out[u].open /\ h.out[u].stage = 1 =>
            lumi[l].out[u].stage = 1 /\ ~IsHead(1, MergedFiles(l, u))
Newer(l, h) ==
  /\ Event.kind = "index" /\ l \notin seen /\ seen' = seen
  /\ \A u \in Streams : h.out[u].open /\ h.out[u].stage = 0
Grown(l, h) ==
  /\ h.st = "open" /\ (l \in seen' => l \in seen \/ h.eols)
  /\ Filled(h) => Older(l, h) \/ Newer(l, h)

GoesOn(l) ==
  \/ Rested(l)
  \/ \E h \in Handler : Grown(l, h) /\ lumi'[l] = Settled(h) /\ Given(l, h)

LEMMA UntouchedGoesOn ==
  ASSUME NEW l \in Lumis, Untouched(l), Aside(l) \/ ~Open(l)
  PROVE  GoesOn(l)
BY DEF Untouched, GoesOn, Rested, Filled, Open

LEMMA EmptiesGoesOn ==
  ASSUME NEW l \in Lumis, Empties(l)
  PROVE  GoesOn(l)
BY DEF Empties, Blank, GoesOn, Rested, Filled

LEMMA SettlesGoesOn ==
  ASSUME NEW l \in Lumis, NEW h \in Handler, Settles(l, h), Grown(l, h)
  PROVE  GoesOn(l)
BY DEF Settles, GoesOn

\* A file of the lumisection that is not a merged one: its streams stay as they are.
LEMMA FileGrown ==
  ASSUME NEW l \in Lumis, Aside(l), NEW h, h.st = "open", Open(l), h.empty = lumi[l].empty,
         h.eols = lumi[l].eols,
         \A u \in Streams : h.out[u].open = lumi[l].out[u].open /\ h.out[u].stage = lumi[l].out[u].stage
  PROVE  Grown(l, h)
BY DEF Grown, Older, Filled, Open, Aside

LEMMA AsideOthers ==
  ASSUME Course, Takings, NEW l \in Lumis,
         Event.ls # l \/ Event.kind \notin {"eols", "merged"}
  PROVE  Aside(l)
<1>1. Pend[1] = Event /\ 1 \in DOMAIN Pend
  BY TakeMoves DEF Takings
<1>2. \A u : ~IsHead(1, MergedFiles(l, u))
  BY <1>1 DEF IsHead, MergedFiles
<1>3. CASE TakeEoLS
  <2>1. Event.kind = "eols"
    BY <1>3 DEF TakeEoLS
  <2>2. \A x : seen' = seen \/ (x = Event.ls => seen' = seen \union {x})
    BY <1>3 DEF TakeEoLS
  <2> QED  BY <1>2, <2>1, <2>2 DEF Aside
<1>4. CASE TakeIndex \/ TakeJson \/ TakeBad \/ TakeCrash \/ TakeMerged
  <2>1. seen' = seen
    BY <1>4 DEF TakeIndex, TakeJson, TakeBad, TakeCrash, TakeMerged
  <2> QED  BY <1>2, <2>1 DEF Aside
<1> QED  BY <1>3, <1>4 DEF Takings

LEMMA OthersGoOn ==
  ASSUME Course, Takings, NEW l, l = Event.ls, l \in Lumis, Others(l), GoesOn(l), NEW k \in Lumis
  PROVE  GoesOn(k)
<1>1. CASE k = l
  BY <1>1
<1>2. CASE k # l
  BY <1>2, AsideOthers, UntouchedGoesOn DEF Others
<1> QED  BY <1>1, <1>2

LEMMA TakeIndexGoesOn ==
  ASSUME Course, Books, TakeIndex, NEW k \in Lumis
  PROVE  GoesOn(k)
<1>1. PICK l : l = Event.ls
  OBVIOUS
<1>2. PICK p : p = Event.pid
  OBVIOUS
<1>3. PICK h : h = IF Open(l) THEN lumi[l] ELSE NewHandler("index")
  OBVIOUS
<1>4. PICK g : g = WithIndex(h, p, 1)
  OBVIOUS
<1>5. /\ l \in Lumis /\ p \in Pids /\ h \in Handler /\ h.st = "open"
      /\ ~Over(Pend, buEols, l)
      /\ Settles(l, g) /\ Others(l)
  BY <1>1, <1>2, <1>3, <1>4, IndexEffect
<1>6. /\ g \in Handler /\ g.st = h.st /\ g.empty = h.empty /\ g.eols = h.eols /\ g.out = h.out
  <2>1. 1 \in Nat
    OBVIOUS
  <2> QED  BY ONLY <1>4, <1>5, <2>1, IndexFields
<1>7. Takings /\ Event.kind = "index"
  BY DEF Takings, TakeIndex
<1>8. Aside(l)
  BY <1>5, <1>7, AsideOthers
<1>9. CASE Open(l)
  <2>1. Grown(l, g)
    BY <1>3, <1>5, <1>6, <1>8, <1>9, FileGrown
  <2> QED  BY <1>1, <1>5, <1>6, <1>7, <2>1, SettlesGoesOn, OthersGoOn
<1>10. CASE ~Open(l)
  <2>1. h = NewHandler("index")
    BY <1>3, <1>10
  <2>2. h.out = NoHandler.out
    BY <2>1, NewFields
  <2>3. \A u \in Streams : g.out[u].open /\ g.out[u].stage = 0
    BY <1>6, <2>2, NoHandlerTyped
  <2>4. l \notin seen
    BY <1>5 DEF Books, Book
  <2>5. seen' = seen
    BY DEF TakeIndex
  <2>6. Grown(l, g)
    BY <1>5, <1>6, <1>7, <2>3, <2>4, <2>5 DEF Grown, Newer
  <2> QED  BY <1>1, <1>5, <1>6, <1>7, <2>6, SettlesGoesOn, OthersGoOn
<1> QED  BY <1>9, <1>10

LEMMA TakeEoLSGoesOn ==
  ASSUME Course, Books, TakeEoLS, NEW k \in Lumis
  PROVE  GoesOn(k)
<1>1. PICK l : l = Event.ls
  OBVIOUS
<1>2. /\ l \in Lumis /\ Others(l)
      /\ \/ Untouched(l) /\ (l \in seen \/ ~Open(l))
         \/ \E h \in Handler, g \in Handler :
              /\ h = lumi[l] \/ (Blank(h) /\ h.pid = NoHandler.pid /\ lumi[l].st = "none")
              /\ h.st = "open" /\ g = [h EXCEPT !.eols = TRUE] /\ Settles(l, g)
  BY <1>1, EoLSEffect
<1>3. Takings /\ Event.kind = "eols" /\ Pend[1] = Event
  <2>1. Takings /\ Event.kind = "eols"
    BY DEF Takings, TakeEoLS
  <2> QED  BY <2>1, TakeMoves
<1>4. \A u \in Streams : ~IsHead(1, MergedFiles(l, u))
  BY <1>3 DEF IsHead, MergedFiles
<1>5. CASE Untouched(l) /\ (l \in seen \/ ~Open(l))
  <2>1. GoesOn(l)
    BY <1>2, <1>4, <1>5, UntouchedGoesOn DEF Aside
  <2> QED  BY <1>1, <1>2, <1>3, <2>1, OthersGoOn
<1>6. ASSUME NEW h \in Handler, NEW g \in Handler,
             h = lumi[l] \/ (Blank(h) /\ h.pid = NoHandler.pid /\ lumi[l].st = "none"),
             h.st = "open", g = [h EXCEPT !.eols = TRUE], Settles(l, g)
      PROVE  GoesOn(k)
  <2>1. g.st = h.st /\ g.empty = h.empty /\ g.out = h.out /\ g.eols
    BY <1>6, EolsFields
  <2>2. Grown(l, g)
    BY <1>4, <1>6, <2>1 DEF Grown, Older, Filled, Blank
  <2> QED  BY <1>1, <1>2, <1>3, <1>6, <2>2, SettlesGoesOn, OthersGoOn
<1> QED  BY <1>2, <1>5, <1>6

LEMMA TakeJsonGoesOn ==
  ASSUME Course, Books, TakeJson, NEW k \in Lumis
  PROVE  GoesOn(k)
<1>1. PICK l : l = Event.ls
  OBVIOUS
<1>2. PICK p : p = Event.pid
  OBVIOUS
<1>3. PICK s : s = Event.stream
  OBVIOUS
<1>4. PICK n : n = Event.n
  OBVIOUS
<1>5. PICK h : h = lumi[l]
  OBVIOUS
<1>6. PICK g : g = WithJson(h, p, s, n)
  OBVIOUS
<1>7. /\ l \in Lumis /\ p \in Pids /\ s \in Streams /\ n \in Nat /\ Others(l)
      /\ \/ Open(l) /\ g \in Handler /\ Settles(l, g)
         \/ Untouched(l) \/ Empties(l)
  BY <1>1, <1>2, <1>3, <1>4, <1>5, <1>6, JsonEffect
<1>8. Takings /\ Event.kind = "json"
  BY DEF Takings, TakeJson
<1>9. Aside(l)
  BY <1>7, <1>8, AsideOthers
<1>10. CASE Open(l) /\ g \in Handler /\ Settles(l, g)
  <2>1. h \in Handler
    BY <1>5, <1>7 DEF Course, LumiTypeOK
  <2>2. Kept(g, h) /\ \A u \in Streams : g.out[u].stage = h.out[u].stage /\ g.out[u].open = h.out[u].open
    BY <1>6, <1>7, <2>1, JsonFields
  <2>3. Grown(l, g)
    BY <1>5, <1>7, <1>9, <1>10, <2>2, FileGrown DEF Kept, Open
  <2> QED  BY <1>1, <1>7, <1>8, <1>10, <2>3, SettlesGoesOn, OthersGoOn
<1> QED  BY <1>1, <1>7, <1>8, <1>9, <1>10, UntouchedGoesOn, EmptiesGoesOn, OthersGoOn

LEMMA TakeBadGoesOn ==
  ASSUME Course, Books, TakeBad, NEW k \in Lumis
  PROVE  GoesOn(k)
<1>1. PICK l : l = Event.ls
  OBVIOUS
<1>2. PICK p : p = Event.pid
  OBVIOUS
<1>3. PICK s : s = Event.stream
  OBVIOUS
<1>5. PICK h : h = lumi[l]
  OBVIOUS
<1>6. PICK g : g = WithBad(h, p, s)
  OBVIOUS
<1>7. /\ l \in Lumis /\ p \in Pids /\ s \in Streams /\ Others(l)
      /\ \/ Open(l) /\ g \in Handler /\ Settles(l, g)
         \/ Untouched(l) \/ Empties(l)
  BY <1>1, <1>2, <1>3, <1>5, <1>6, BadEffect
<1>8. Takings /\ Event.kind = "bad"
  BY DEF Takings, TakeBad
<1>9. Aside(l)
  BY <1>7, <1>8, AsideOthers
<1>10. CASE Open(l) /\ g \in Handler /\ Settles(l, g)
  <2>1. h \in Handler
    BY <1>5, <1>7 DEF Course, LumiTypeOK
  <2>2. Kept(g, h) /\ \A u \in Streams : g.out[u].stage = h.out[u].stage /\ g.out[u].open = h.out[u].open
    BY <1>6, <1>7, <2>1, BadFields
  <2>3. Grown(l, g)
    BY <1>5, <1>7, <1>9, <1>10, <2>2, FileGrown DEF Kept, Open
  <2> QED  BY <1>1, <1>7, <1>8, <1>10, <2>3, SettlesGoesOn, OthersGoOn
<1> QED  BY <1>1, <1>7, <1>8, <1>9, <1>10, UntouchedGoesOn, EmptiesGoesOn, OthersGoOn

LEMMA TakeMergedGoesOn ==
  ASSUME Course, Books, TakeMerged, NEW k \in Lumis
  PROVE  GoesOn(k)
<1>1. PICK l : l = Event.ls
  OBVIOUS
<1>3. PICK s : s = Event.stream
  OBVIOUS
<1>5. PICK h : h = lumi[l]
  OBVIOUS
<1>6. PICK g : g = WithMerged(h, s)
  OBVIOUS
<1>7. /\ l \in Lumis /\ s \in Streams /\ Others(l)
      /\ \/ Untouched(l) /\ ~Open(l)
         \/ Open(l) /\ g \in Handler /\ Settles(l, g)
  BY <1>1, <1>3, <1>5, <1>6, MergedEffect
<1>8. Takings /\ Event.kind = "merged" /\ Pend[1] = Event
  <2>1. Takings /\ Event.kind = "merged"
    BY DEF Takings, TakeMerged
  <2> QED  BY <2>1, TakeMoves
<1>9. \A u \in Streams \ {s} : ~IsHead(1, MergedFiles(l, u))
  BY <1>3, <1>8 DEF IsHead, MergedFiles
<1>10. CASE Open(l) /\ g \in Handler /\ Settles(l, g)
  <2>1. h \in Handler
    BY <1>5, <1>7 DEF Course, LumiTypeOK
  <2>2. /\ Kept(g, h) /\ \A u \in Streams \ {s} : g.out[u] = h.out[u]
        /\ g.out[s].open = h.out[s].open /\ (h.out[s].open => g.out[s].stage # 1)
    BY <1>6, <1>7, <2>1, MergedFields
  <2>3. seen' = seen
    BY DEF TakeMerged
  <2>4. Grown(l, g)
    BY <1>5, <1>9, <1>10, <2>2, <2>3 DEF Kept, Open, Grown, Older, Filled
  <2> QED  BY <1>1, <1>7, <1>8, <1>10, <2>4, SettlesGoesOn, OthersGoOn
<1> QED  BY <1>1, <1>7, <1>8, <1>10, UntouchedGoesOn, OthersGoOn

LEMMA TakeCrashGoesOn ==
  ASSUME Course, Books, TakeCrash, NEW k \in Lumis
  PROVE  GoesOn(k)
<1>1. PICK p : p = Event.pid
  OBVIOUS
<1>2. Takings /\ Event.kind = "crash"
  BY DEF Takings, TakeCrash
<1>3. Aside(k)
  BY <1>2, AsideOthers
<1>4. /\ p \in Pids
      /\ \/ Untouched(k)
         \/ /\ Open(k)
            /\ \E raw \in Nat : /\ WithCrash(lumi[k], p, raw) \in Handler
                                /\ Settles(k, WithCrash(lumi[k], p, raw))
  BY <1>1, CrashEffect
<1>5. ASSUME Open(k), NEW raw \in Nat, NEW g \in Handler, g = WithCrash(lumi[k], p, raw), Settles(k, g)
      PROVE  GoesOn(k)
  <2>1. PICK h \in Handler : h = lumi[k]
    BY DEF Course, LumiTypeOK
  <2>2. g = WithCrash(h, p, raw)
    BY <1>5, <2>1
  <2>3. Kept(g, h) /\ \A u \in Streams : g.out[u].stage = h.out[u].stage /\ g.out[u].open = h.out[u].open
    BY <1>4, <2>2, CrashFields
  <2>4. Grown(k, g)
    BY <1>3, <1>5, <2>1, <2>3, FileGrown DEF Kept, Open
  <2> QED  BY <1>5, <2>4, SettlesGoesOn
<1> QED  BY <1>3, <1>4, <1>5, UntouchedGoesOn

LEMMA TakingsGoOn ==
  ASSUME Course, Books, Takings
  PROVE  \A l \in Lumis : GoesOn(l)
BY TakeIndexGoesOn, TakeEoLSGoesOn, TakeJsonGoesOn, TakeBadGoesOn, TakeMergedGoesOn, TakeCrashGoesOn
   DEF Takings

LEMMA TakingsGive ==
  ASSUME Course, Books, Takings
  PROVE  Merges \subseteq Merges' /\ dqm.refused \subseteq dqm'.refused /\ dqm'.cur = dqm.cur
<1>1. CASE dqm' = dqm
  BY <1>1 DEF Merges
<1>2. CASE Closing
  BY <1>2, ClosureFacts DEF Closing, Course
<1> QED  BY <1>1, <1>2, TakingsClose

-----------------------------------------------------------------------------
(* What is to be done for a lumisection with events *)

\* The stream is merged, was not given to the thread, or has come back.
OnItsWay(l, s) ==
  \/ [ls |-> l, stream |-> s] \in Merges \union dqm.refused
  \/ Waits(Pend, MergedFiles(l, s))

\* Nothing is left to do but to wait for events or for the merging thread.
AtRest(l) == Filled(lumi[l]) =>
  /\ lumi[l].eols => \E s \in Streams : lumi[l].out[s].open
  /\ ToMerge(lumi[l]) = {} /\ ToWrite(lumi[l]) = {}
  /\ \A s \in Streams : lumi[l].out[s].open /\ lumi[l].out[s].stage = 1 => OnItsWay(l, s)

\* The EoLS files are those that were seen or whose event is waiting.
EndsKnown ==
  /\ eols = seen \union queued
  /\ \A l \in seen : Filled(lumi[l]) => lumi[l].eols
  /\ main.stop = "complete" => \A l \in buEols : Filled(lumi[l]) => l \in eols
OneMerge == \A a, b \in dqm.cur : a = b

Due(l) == CountedTwice(l) \/ AtRest(l)
RestInv == EndsKnown /\ OneMerge /\ \A l \in Lumis : Due(l)

\* What checkClosure leaves undone.
LEMMA SettledAtRest ==
  ASSUME NEW h \in Handler, ~Complete(h), NEW g, g = Settled(h)
  PROVE  /\ ToMerge(g) = {} /\ ToWrite(g) = {}
         /\ Filled(g) => /\ Filled(h) /\ g.eols = h.eols
                         /\ h.eols => \E s \in Streams : g.out[s].open
         /\ \A s \in Streams : g.out[s].open => h.out[s].open
         /\ \A s \in Streams : g.out[s].stage = 1 => s \in ToMerge(h) \/ h.out[s].stage = 1
<1>1. /\ g \in Handler /\ Kept(g, h) /\ g.total = h.total
      /\ \A s \in Streams :
           /\ g.out[s].open = (h.out[s].open /\ s \notin ToWrite(h))
           /\ g.out[s].stage = IF s \in ToMerge(h) THEN 1 ELSE h.out[s].stage
           /\ g.out[s].proc = h.out[s].proc /\ g.out[s].err = h.out[s].err
           /\ g.out[s].pb = h.out[s].pb
  BY SettledFields
<1>2. g.st = h.st /\ g.empty = h.empty /\ g.eols = h.eols
  BY <1>1 DEF Kept
<1>3. ASSUME NEW s \in Streams, s \in Full(g) PROVE s \in Full(h) /\ s \notin ToWrite(h)
  BY <1>1, <1>2, <1>3 DEF Full
<1>4. ToMerge(g) = {}
  <2> SUFFICES ASSUME NEW s \in ToMerge(g) PROVE FALSE
    OBVIOUS
  <2>1. s \in Full(g) /\ s \in Streams /\ g.out[s].pb /\ g.out[s].stage = 0
    BY DEF ToMerge, Full
  <2>2. s \in Full(h) /\ h.out[s].pb
    BY <1>1, <1>3, <2>1
  <2> QED  BY <1>1, <2>1, <2>2 DEF ToMerge
<1>5. ToWrite(g) = {}
  <2> SUFFICES ASSUME NEW s \in ToWrite(g) PROVE FALSE
    OBVIOUS
  <2>1. s \in Full(g) /\ s \in Streams /\ (g.out[s].pb => g.out[s].stage = 2)
    BY DEF ToWrite, Full
  <2>2. s \in Full(h) /\ s \notin ToWrite(h)
    BY <1>3, <2>1
  <2>3. h.out[s].pb /\ h.out[s].stage # 2
    BY <2>2 DEF ToWrite
  <2> QED  BY <1>1, <2>1, <2>3
<1>6. Filled(h) /\ h.eols => \E s \in Streams : g.out[s].open
  BY <1>1 DEF Complete, Filled
<1> QED  BY <1>1, <1>2, <1>4, <1>5, <1>6 DEF Filled

LEMMA ClosedNotFilled ==
  ASSUME NEW h, Complete(h)
  PROVE  ~Filled(Settled(h))
BY NoHandlerTyped DEF Settled, Filled

LEMMA StillOnItsWay ==
  ASSUME NEW k, NEW X, Shifted(Pend, Pend', k, X), NEW l, NEW s, OnItsWay(l, s),
         ~IsHead(k, MergedFiles(l, s)), Merges \subseteq Merges', dqm.refused \subseteq dqm'.refused
  PROVE  OnItsWay(l, s)'
<1> DEFINE Z == MergedFiles(l, s)
           m == [ls |-> l, stream |-> s]
<1> HIDE DEF Z, m
<1>1. Waits(Pend, Z) => Waits(Pend', Z)
  <2>1. Waits(Pend, Z) => Waits(Pend', Z) \/ (k = 1 /\ 1 \in DOMAIN Pend /\ Pend[1] \in Z)
    BY WaitsShift
  <2> QED  BY <2>1 DEF IsHead, Z
<1>2. OnItsWay(l, s) <=> m \in Merges \union dqm.refused \/ Waits(Pend, Z)
  BY DEF OnItsWay, Z, m
<1>3. OnItsWay(l, s)' <=> m \in Merges' \union dqm'.refused \/ Waits(Pend', Z)
  BY DEF OnItsWay, Z, m
<1> QED  BY <1>1, <1>2, <1>3

LEMMA GoesOnAtRest ==
  ASSUME Course, Books, Takings, NEW l \in Lumis, GoesOn(l), AtRest(l)
  PROVE  AtRest(l)'
<1>1. PICK X \in Seq(FileEvent) : Shifted(Pend, Pend', 1, X)
  BY TakeMoves DEF Takings, Adds
<1>2. Merges \subseteq Merges' /\ dqm.refused \subseteq dqm'.refused
  BY TakingsGive
<1>3. ASSUME NEW s \in Streams, OnItsWay(l, s), ~IsHead(1, MergedFiles(l, s)) PROVE OnItsWay(l, s)'
  BY <1>1, <1>2, <1>3, StillOnItsWay
<1>4. AtRest(l)
  OBVIOUS
<1> SUFFICES ASSUME Filled(lumi'[l])
             PROVE  /\ lumi'[l].eols => \E s \in Streams : lumi'[l].out[s].open
                    /\ ToMerge(lumi'[l]) = {} /\ ToWrite(lumi'[l]) = {}
                    /\ \A s \in Streams : lumi'[l].out[s].open /\ lumi'[l].out[s].stage = 1 =>
                         OnItsWay(l, s)'
  BY DEF AtRest
<1>5. CASE Rested(l)
  <2>1. lumi'[l] = lumi[l] /\ Aside(l)
    BY <1>5 DEF Rested
  <2> QED  BY <1>3, <1>4, <2>1 DEF AtRest, Aside
<1>6. ASSUME NEW h \in Handler, Grown(l, h), lumi'[l] = Settled(h), Given(l, h)
      PROVE  /\ lumi'[l].eols => \E s \in Streams : lumi'[l].out[s].open
             /\ ToMerge(lumi'[l]) = {} /\ ToWrite(lumi'[l]) = {}
             /\ \A s \in Streams : lumi'[l].out[s].open /\ lumi'[l].out[s].stage = 1 =>
                  OnItsWay(l, s)'
  <2>1. ~Complete(h)
    BY <1>6, ClosedNotFilled
  <2>2. PICK g : g = Settled(h)
    OBVIOUS
  <2>3. /\ ToMerge(g) = {} /\ ToWrite(g) = {}
        /\ Filled(g) => /\ Filled(h) /\ g.eols = h.eols
                        /\ h.eols => \E s \in Streams : g.out[s].open
        /\ \A s \in Streams : g.out[s].open => h.out[s].open
        /\ \A s \in Streams : g.out[s].stage = 1 => s \in ToMerge(h) \/ h.out[s].stage = 1
    BY <2>1, <2>2, SettledAtRest
  <2>4. lumi'[l] = g
    BY <1>6, <2>2
  <2>5. Filled(h) /\ (Older(l, h) \/ Newer(l, h))
    BY <1>6, <2>3, <2>4 DEF Grown
  <2>6. lumi'[l].eols => \E s \in Streams : g.out[s].open
    BY <2>3, <2>4
  <2>7. ASSUME NEW s \in Streams, g.out[s].open, g.out[s].stage = 1 PROVE OnItsWay(l, s)'
    <3>1. CASE s \in ToMerge(h)
      BY <1>6, <3>1 DEF Given, OnItsWay
    <3>2. CASE h.out[s].stage = 1
      <4>1. h.out[s].open
        BY <2>3, <2>7
      <4>2. lumi[l].out[s].open /\ lumi[l].out[s].stage = 1 /\ ~IsHead(1, MergedFiles(l, s)) /\ Filled(lumi[l])
        BY <2>5, <3>2, <4>1 DEF Older, Newer
      <4> QED  BY <1>3, <1>4, <4>2 DEF AtRest
    <3> QED  BY <2>3, <2>7, <3>1, <3>2
  <2> QED  BY <2>3, <2>4, <2>6, <2>7
<1> QED  BY <1>5, <1>6 DEF GoesOn

LEMMA GoesOnEnded ==
  ASSUME Course, Books, Takings, EndInv, RestInv, NEW l \in Lumis, GoesOn(l), Filled(lumi'[l])
  PROVE  /\ l \in seen' => lumi'[l].eols
         /\ main.stop = "complete" => Filled(lumi[l])
<1>1. \A k \in seen : Filled(lumi[k]) => lumi[k].eols
  BY DEF RestInv, EndsKnown
<1>2. CASE Rested(l)
  BY <1>1, <1>2 DEF Rested, Aside
<1>3. ASSUME NEW h \in Handler, Grown(l, h), lumi'[l] = Settled(h)
      PROVE  /\ l \in seen' => lumi'[l].eols
             /\ main.stop = "complete" => Filled(lumi[l])
  <2>1. ~Complete(h)
    BY <1>3, ClosedNotFilled
  <2>2. PICK g : g = Settled(h)
    OBVIOUS
  <2>3. Filled(g) => Filled(h) /\ g.eols = h.eols
    BY <2>1, <2>2, SettledAtRest
  <2>4. Filled(h) /\ lumi'[l].eols = h.eols /\ (Older(l, h) \/ Newer(l, h))
    BY <1>3, <2>2, <2>3 DEF Grown
  <2>5. CASE Older(l, h)
    BY <1>1, <1>3, <2>4, <2>5 DEF Older, Grown
  <2>6. CASE Newer(l, h)
    <3>1. Pend[1] = Event /\ 1 \in DOMAIN Pend
      BY TakeMoves DEF Takings
    <3>2. main.stop # "complete"
      BY <2>6, <3>1 DEF Newer, EndInv, LateIndex
    <3> QED  BY <1>3, <2>4, <2>6, <3>2 DEF Newer, Grown
  <2> QED  BY <2>4, <2>5, <2>6
<1> QED  BY <1>2, <1>3 DEF GoesOn

\* EoLS files that are written are those that are queued, and one that is taken
\* off the queue has been seen.
LEMMA TakingsEnds ==
  ASSUME Course, Takings, EndsKnown
  PROVE  /\ eols' = seen' \union queued' /\ eols \subseteq eols'
         /\ UNCHANGED <<main, buEols>>
<1>1. Pend[1] = Event /\ 1 \in DOMAIN Pend /\ Counted(Pend, queued)
  BY TakeMoves DEF Takings, Course, Events
<1>2. UNCHANGED <<main, buEols>>
  BY DEF Takings, TakeIndex, TakeEoLS, TakeJson, TakeBad, TakeCrash, TakeMerged
<1>3. eols = seen \union queued
  BY DEF EndsKnown
<1>4. CASE TakeIndex
  <2>1. seen' = seen /\ (UNCHANGED <<queued, eols>>
          \/ \E S : queued' = queued \union S /\ eols' = eols \union S)
    BY <1>4 DEF TakeIndex, WriteEoLS
  <2> QED  BY <1>2, <1>3, <2>1
<1>5. CASE TakeEoLS
  <2>1. PICK l : l = Event.ls
    OBVIOUS
  <2>2. Event.kind = "eols"
    BY <1>5 DEF TakeEoLS
  <2>3. l \in queued
    BY <1>1, <2>1, <2>2 DEF Counted, Ends
  <2>4. \/ l \in seen /\ queued' = queued \ {l} /\ UNCHANGED <<seen, eols>>
        \/ seen' = seen \union {l} /\ WriteEoLS(Unended(l), Tail(queue), Notify(l))
    BY <1>5, <2>1 DEF TakeEoLS, Notify
  <2>5. \/ l \in seen /\ queued' = queued \ {l} /\ UNCHANGED <<seen, eols>>
        \/ /\ seen' = seen \union {l}
           /\ \E S : queued' = (queued \ {l}) \union S /\ eols' = eols \union S
    BY <2>4 DEF WriteEoLS, Notify
  <2> QED  BY <1>2, <1>3, <2>3, <2>5
<1>6. CASE TakeJson \/ TakeBad \/ TakeCrash \/ TakeMerged
  <2>1. UNCHANGED <<queued, seen, eols>>
    BY <1>6 DEF TakeJson, TakeBad, TakeCrash, TakeMerged
  <2> QED  BY <1>2, <1>3, <2>1
<1> QED  BY <1>4, <1>5, <1>6 DEF Takings

LEMMA TakingsRest ==
  ASSUME Course, Books, Takings, EndInv, RestInv
  PROVE  RestInv'
<1>1. \A l \in Lumis : GoesOn(l)
  BY TakingsGoOn
<1>2. \A l \in Lumis : Due(l)'
  <2>1. [Next]_lumiVars
    BY DEF Takings, Next, MainLoop
  <2>2. ASSUME NEW l \in Lumis PROVE Due(l)'
    BY <1>1, <2>1, GoesOnAtRest, TwiceStays DEF RestInv, Due
  <2> QED  BY <2>2
<1>3. /\ eols' = seen' \union queued' /\ eols \subseteq eols'
      /\ UNCHANGED <<main, buEols>>
  BY TakingsEnds DEF RestInv
<1>4. \A l \in Lumis : Filled(lumi'[l]) =>
        (l \in seen' => lumi'[l].eols) /\ (main.stop = "complete" => Filled(lumi[l]))
  BY <1>1, GoesOnEnded
<1>5. Course'
  BY CourseGoesOn DEF Takings, Next, MainLoop
<1>6. seen' \subseteq Lumis /\ buEols \subseteq Lumis
  BY <1>5 DEF Course, LumiTypeOK
<1>7. EndsKnown'
  BY <1>3, <1>4, <1>6 DEF RestInv, EndsKnown
<1>8. OneMerge'
  BY TakingsGive DEF RestInv, OneMerge
<1> QED  BY <1>2, <1>7, <1>8 DEF RestInv

\* A step that leaves the handlers alone and takes no merged file.
LEMMA QuietAtRest ==
  ASSUME Course, RestInv, [Next]_lumiVars,
         lumi' = lumi, Merges \subseteq Merges', dqm.refused \subseteq dqm'.refused,
         NEW k, NEW X, Shifted(Pend, Pend', k, X), k = 1 => Pend[1].kind # "merged"
  PROVE  \A l \in Lumis : Due(l)'
<1> SUFFICES ASSUME NEW l \in Lumis PROVE Due(l)'
  OBVIOUS
<1>1. CountedTwice(l) => CountedTwice(l)'
  BY TwiceStays
<1>2. ASSUME NEW s \in Streams, OnItsWay(l, s) PROVE OnItsWay(l, s)'
  <2>1. ~IsHead(k, MergedFiles(l, s))
    BY DEF IsHead, MergedFiles
  <2> QED  BY <1>2, <2>1, StillOnItsWay
<1>3. AtRest(l) => AtRest(l)'
  BY <1>2 DEF AtRest
<1> QED  BY <1>1, <1>3 DEF RestInv, Due

LEMMA DqmTakeRest ==
  ASSUME Course, RestInv, DqmTake
  PROVE  RestInv'
<1>1. /\ UNCHANGED <<queue, queued, seen, main, lumi, eols, buEols>> /\ dqm \in DqmState
      /\ dqm.cur = {} /\ dqm.q # <<>> /\ [Next]_lumiVars
  BY DEF DqmTake, Course, LumiTypeOK, Next, DqmMerger
<1>2. PICK q : q = dqm.q
  OBVIOUS
<1>3. /\ q \in Seq(Merge) /\ q # <<>> /\ dqm'.cur = {Head(q)} /\ dqm'.q = Tail(q)
      /\ dqm'.refused = dqm.refused
  <2>1. \E c : dqm' = [dqm EXCEPT !.cur = {Head(q)}, !.q = Tail(q), !.counts = c]
    BY <1>2, MergeTaken DEF TakesMerge
  <2> QED  BY <1>1, <1>2, <2>1 DEF DqmState
<1>4. \A i \in DOMAIN q : q[i] = Head(q) \/ (i - 1 \in DOMAIN Tail(q) /\ q[i] = Tail(q)[i - 1])
  <2> SUFFICES ASSUME NEW i \in DOMAIN q, i # 1
               PROVE  i - 1 \in DOMAIN Tail(q) /\ q[i] = Tail(q)[i - 1]
    BY <1>3
  <2>1. Len(q) \in Nat /\ DOMAIN q = 1 .. Len(q) /\ Len(Tail(q)) = Len(q) - 1
        /\ DOMAIN Tail(q) = 1 .. Len(q) - 1 /\ \A j \in 1 .. Len(q) - 1 : Tail(q)[j] = q[j + 1]
    BY <1>3
  <2> QED  BY <2>1
<1>5. Merges \subseteq Merges'
  <2>1. Merges = {q[i] : i \in DOMAIN q}
    BY <1>1, <1>2 DEF Merges
  <2>2. Merges' = {Head(q)} \union {Tail(q)[i] : i \in DOMAIN Tail(q)}
    BY <1>3 DEF Merges
  <2>3. ASSUME NEW i \in DOMAIN q PROVE q[i] \in Merges'
    BY <1>4, <2>2
  <2> QED  BY <2>1, <2>3
<1>6. Pend' = Pend
  BY <1>1 DEF Pend
<1>7. Shifted(Pend, Pend', 0, <<>>)
  BY <1>6, NothingShifted DEF Course, Events
<1>8. \A l \in Lumis : Due(l)'
  BY <1>1, <1>3, <1>5, <1>7, QuietAtRest
<1>9. EndsKnown'
  BY <1>1 DEF RestInv, EndsKnown
<1>10. OneMerge'
  BY <1>3 DEF OneMerge
<1> QED  BY <1>8, <1>9, <1>10 DEF RestInv

\* The merging thread gives the stream back: nothing else becomes due.
LEMMA ReturnedDue ==
  ASSUME NEW h \in Handler, NEW g \in Handler, NEW s \in Streams, NEW c, Returned(h, g, s, c),
         Filled(h) /\ h.out[s].open => c.proc + c.err = h.out[s].proc + h.out[s].err
  PROVE  ToMerge(g) = ToMerge(h) /\ ToWrite(g) = ToWrite(h)
<1>1. g.st = h.st /\ g.empty = h.empty /\ g.eols = h.eols /\ g.total = h.total
  BY DEF Returned, Kept
<1>2. \A u \in Streams : /\ g.out[u].open = h.out[u].open /\ g.out[u].stage = h.out[u].stage
                         /\ g.out[u].pb = h.out[u].pb
  BY DEF Returned
<1>3. \A u \in Streams : Filled(h) /\ h.out[u].open =>
        g.out[u].proc + g.out[u].err = h.out[u].proc + h.out[u].err
  BY DEF Returned
<1>4. Full(g) = Full(h)
  BY <1>1, <1>2, <1>3 DEF Full, Filled
<1>5. Full(h) \subseteq Streams
  BY DEF Full
<1> QED  BY <1>2, <1>4, <1>5 DEF ToMerge, ToWrite

LEMMA DqmDoneRest ==
  ASSUME EventsKeptInv, RestInv, DqmDone
  PROVE  RestInv'
<1>0. Course /\ [Next]_lumiVars
  BY DEF EventsKeptInv, ErrorsInv, Accounts, Next, DqmMerger
<1>1. /\ dqm'.cur = {} /\ dqm'.q = dqm.q
      /\ \E m \in dqm.cur, g \in Handler :
           /\ m.ls \in Lumis /\ m.stream \in Streams
           /\ lumi'[m.ls] = g /\ Returned(lumi[m.ls], g, m.stream, dqm.counts)
           /\ \A k \in Lumis \ {m.ls} : lumi'[k] = lumi[k]
           /\ \E e \in MergedFiles(m.ls, m.stream) : Shifted(Pend, Pend', 0, <<e>>)
  BY <1>0, DqmEffect
<1>2. PICK m \in dqm.cur, e \in FileEvent :
           /\ m.ls \in Lumis /\ m.stream \in Streams
           /\ lumi'[m.ls] \in Handler /\ Returned(lumi[m.ls], lumi'[m.ls], m.stream, dqm.counts)
           /\ \A k \in Lumis \ {m.ls} : lumi'[k] = lumi[k]
           /\ e \in MergedFiles(m.ls, m.stream) /\ Shifted(Pend, Pend', 0, <<e>>)
  BY <1>1 DEF MergedFiles
<1>3. /\ UNCHANGED <<queued, seen, main, eols, buEols>> /\ dqm \in DqmState
      /\ dqm' = [dqm EXCEPT !.cur = {}, !.counts = NoCounts] /\ lumi \in [Lumis -> Handler]
  BY <1>0 DEF DqmDone, Course, LumiTypeOK
<1>4. dqm'.refused = dqm.refused
  BY <1>3 DEF DqmState
<1>5. PICK l \in Lumis : l = m.ls
  BY <1>2
<1>6. PICK s \in Streams : s = m.stream
  BY <1>2
<1>7. m = [ls |-> l, stream |-> s] /\ dqm.cur = {m}
  BY <1>3, <1>5, <1>6 DEF RestInv, OneMerge, DqmState, Merge
<1>8. /\ lumi[l] \in Handler /\ lumi'[l] \in Handler
      /\ Returned(lumi[l], lumi'[l], s, dqm.counts)
      /\ lumi'[l].st = lumi[l].st /\ lumi'[l].empty = lumi[l].empty /\ lumi'[l].eols = lumi[l].eols
      /\ \A u \in Streams : /\ lumi'[l].out[u].open = lumi[l].out[u].open
                            /\ lumi'[l].out[u].stage = lumi[l].out[u].stage
  BY <1>2, <1>3, <1>5, <1>6 DEF Returned, Kept
<1>9. \A k \in Lumis \ {l} : lumi'[k] = lumi[k]
  BY <1>2, <1>5
<1>a. ASSUME ~CountedTwice(l)
      PROVE  ToMerge(lumi'[l]) = ToMerge(lumi[l]) /\ ToWrite(lumi'[l]) = ToWrite(lumi[l])
  <2>1. PICK h \in Handler : h = lumi[l]
    BY <1>8
  <2>2. PICK g \in Handler : g = lumi'[l]
    BY <1>8
  <2>3. ASSUME Filled(h), h.out[s].open
        PROVE  dqm.counts.proc + dqm.counts.err = h.out[s].proc + h.out[s].err
    <3>1. TalliedIn(h, s, LostOf(l))
      BY <1>a, <2>1, <2>3 DEF EventsKeptInv, ToldInv, EventsInv, EventsOf, Tallied
    <3>2. Late(h, s)
      BY <1>2, <1>5, <1>6, <2>1 DEF EventsKeptInv, ErrorsInv, MergesInv, MergedLate, Merges
    <3>3. SumOf(h, s, dqm.counts)
      BY <1>2, <1>5, <1>6, <1>a, <2>1 DEF EventsKeptInv, ToldInv, SumsInv
    <3> QED  BY <2>3, <3>1, <3>2, <3>3 DEF TalliedIn, Late, SumOf, Filled
  <2>4. Returned(h, g, s, dqm.counts)
    BY <1>8, <2>1, <2>2
  <2> QED  BY <2>1, <2>2, <2>3, <2>4, ReturnedDue
<1>10. ASSUME NEW k \in Lumis, NEW u \in Streams, OnItsWay(k, u) PROVE OnItsWay(k, u)'
  <2> DEFINE x == [ls |-> k, stream |-> u]
             Z == MergedFiles(k, u)
  <2>1. ~(0 = 1)
    OBVIOUS
  <2> HIDE DEF Z
  <2>2. /\ Waits(Pend, Z) => Waits(Pend', Z)
        /\ Waits(<<e>>, Z) => Waits(Pend', Z)
    BY <1>2, <2>1, WaitsShift
  <2>3. CASE x = m
    <3>1. k = l /\ u = s
      BY <1>7, <2>3
    <3>2. e \in Z
      BY <1>2, <1>5, <1>6, <3>1 DEF Z
    <3>3. Waits(<<e>>, Z)
      <4>1. 1 \in DOMAIN <<e>> /\ <<e>>[1] = e
        OBVIOUS
      <4> QED  BY <3>2, <4>1 DEF Waits
    <3> QED  BY <2>2, <3>3 DEF OnItsWay, Z
  <2>4. CASE x \in Merges \union dqm.refused /\ x # m
    <3>1. x \in Merges' \union dqm'.refused
      BY <1>1, <1>4, <1>7, <2>4 DEF Merges
    <3> QED  BY <3>1 DEF OnItsWay
  <2>5. CASE Waits(Pend, Z)
    BY <2>2, <2>5 DEF OnItsWay, Z
  <2> QED  BY <1>10, <2>3, <2>4, <2>5 DEF OnItsWay, Z
<1>11. ASSUME NEW k \in Lumis, ~CountedTwice(k)' PROVE AtRest(k)'
  <2>1. ~CountedTwice(k) /\ AtRest(k)
    BY <1>0, <1>11, TwiceStays DEF RestInv, Due
  <2>2. CASE k = l
    BY <1>8, <1>10, <1>a, <2>1, <2>2 DEF AtRest, Filled
  <2>3. CASE k # l
    BY <1>9, <1>10, <2>1, <2>3 DEF AtRest
  <2> QED  BY <2>2, <2>3
<1>12. EndsKnown'
  <2>1. \A k \in Lumis : (Filled(lumi'[k]) <=> Filled(lumi[k])) /\ lumi'[k].eols = lumi[k].eols
    <3> TAKE k \in Lumis
    <3>1. CASE k = l
      BY <1>8, <3>1 DEF Filled
    <3>2. CASE k # l
      BY <1>9, <3>2
    <3> QED  BY <3>1, <3>2
  <2>2. seen \subseteq Lumis /\ buEols \subseteq Lumis
    BY <1>0 DEF Course, LumiTypeOK
  <2> QED  BY <1>3, <2>1, <2>2 DEF RestInv, EndsKnown
<1>13. OneMerge'
  BY <1>1 DEF OneMerge
<1> QED  BY <1>11, <1>12, <1>13 DEF RestInv, Due

\* The processes, the BU and hltd take no event.
LEMMA OutsideAdds ==
  ASSUME Course, Outside
  PROVE  \E X : Shifted(Pend, Pend', 0, X)
<1>1. CASE Quietly
  BY <1>1, QuietEffect DEF Passes
<1>2. ASSUME NEW p \in Pids, Grab(p) PROVE \E X : Shifted(Pend, Pend', 0, X)
  <2>1. PICK l : l = Current(p)
    OBVIOUS
  <2>2. \E X \in Seq(FileEvent) : ReadsOne(l, p, X)
    BY <1>2, <2>1, GrabFacts
  <2> QED  BY <2>2 DEF ReadsOne
<1>3. ASSUME NEW p \in Pids, ReportCrash(p) PROVE \E X : Shifted(Pend, Pend', 0, X)
  BY <1>3, CrashReported
<1>4. ASSUME NEW p \in Pids, NEW s \in Streams, Output(p, s) PROVE \E X : Shifted(Pend, Pend', 0, X)
  <2>1. PICK l : l = Current(p)
    OBVIOUS
  <2>2. PICK n : n = grab[l][p]
    OBVIOUS
  <2>3. WritesOne(p, s, l, n)
    BY <1>4, <2>1, <2>2, OutputFacts
  <2> QED  BY <2>3 DEF WritesOne
<1> QED  BY <1>1, <1>2, <1>3, <1>4 DEF Outside, Quietly

LEMMA OutsideEnds ==
  ASSUME Course, Outside
  PROVE  /\ UNCHANGED <<seen, main, lumi, dqm>>
         /\ buEols' = buEols \/ main.stop # "complete"
         /\ \E S : queued' = queued \union S /\ eols' = eols \union S
<1>1. UNCHANGED <<seen, main, lumi, dqm>>
  BY OutsideUnchanged DEF scriptVars
<1>2. buEols' = buEols \/ main.stop # "complete"
  <2>1. ASSUME NEW l, BuEnds(l) PROVE main.stop # "complete"
    BY <2>1 DEF BuEnds, RunOver, Reported
  <2> QED  BY <2>1 DEF Outside, Begin, Grab, Leave, Die, ReportCrash, Output, RunComplete, RunAborted
<1>3. \E S : queued' = queued \union S /\ eols' = eols \union S
  <2>1. ASSUME UNCHANGED <<queued, eols>> PROVE \E S : queued' = queued \union S /\ eols' = eols \union S
    <3>1. queued' = queued \union {} /\ eols' = eols \union {}
      BY <2>1
    <3> QED  BY <3>1
  <2>2. ASSUME NEW p, Leave(p) PROVE \E S : queued' = queued \union S /\ eols' = eols \union S
    <3>1. UNCHANGED <<queued, eols>> \/ WriteEoLS({Current(p)}, queue, queued)
      BY <2>2 DEF Leave
    <3> QED  BY <2>1, <3>1 DEF WriteEoLS
  <2>3. CASE \E l \in Lumis : BuEnds(l)
    BY <2>1, <2>3 DEF BuEnds
  <2>4. CASE \E p \in Pids : Begin(p) \/ Grab(p) \/ Die(p) \/ ReportCrash(p)
    BY <2>1, <2>4 DEF Begin, Grab, Die, ReportCrash, Report
  <2>5. CASE \E p \in Pids, s \in Streams : Output(p, s)
    <3>1. UNCHANGED <<queued, eols>>
      BY <2>5 DEF Output, Report
    <3> QED  BY <2>1, <3>1
  <2>6. CASE RunComplete \/ RunAborted
    BY <2>1, <2>6 DEF RunComplete, RunAborted, Report
  <2> QED  BY <2>2, <2>3, <2>4, <2>5, <2>6 DEF Outside
<1> QED  BY <1>1, <1>2, <1>3

LEMMA MergesSame ==
  ASSUME dqm' = dqm
  PROVE  Merges \subseteq Merges' /\ dqm.refused \subseteq dqm'.refused
BY DEF Merges

LEMMA OutsideRest ==
  ASSUME Course, RestInv, Outside
  PROVE  RestInv'
<1>1. PICK X : Shifted(Pend, Pend', 0, X)
  BY OutsideAdds
<1>2. /\ UNCHANGED <<seen, main, lumi, dqm>>
      /\ buEols' = buEols \/ main.stop # "complete"
      /\ \E S : queued' = queued \union S /\ eols' = eols \union S
  BY OutsideEnds
<1>3. \A l \in Lumis : Due(l)'
  BY <1>1, <1>2, MergesSame, QuietAtRest DEF Next
<1>4. EndsKnown'
  BY <1>2 DEF RestInv, EndsKnown
<1>5. OneMerge'
  BY <1>2 DEF RestInv, OneMerge
<1> QED  BY <1>3, <1>4, <1>5 DEF RestInv

LEMMA WaitingRest ==
  ASSUME Course, RestInv, BufferIndex \/ FlushBuffer \/ Idle \/ Finish
  PROVE  RestInv'
<1>1. UNCHANGED <<seen, queued, eols, buEols, lumi, dqm>>
  BY DEF BufferIndex, FlushBuffer, Idle, Finish
<1>2. Pend' = Pend
  BY WaitingPasses
<1>3. main'.stop = main.stop
  BY WaitingMoves DEF ScriptMoves
<1>4. Shifted(Pend, Pend', 0, <<>>)
  BY <1>2, NothingShifted DEF Course, Events
<1>5. \A l \in Lumis : Due(l)'
  BY <1>1, <1>4, MergesSame, QuietAtRest DEF Next, MainLoop
<1>6. EndsKnown'
  BY <1>1, <1>3 DEF RestInv, EndsKnown
<1>7. OneMerge'
  BY <1>1 DEF RestInv, OneMerge
<1> QED  BY <1>5, <1>6, <1>7 DEF RestInv

LEMMA DropEarlyRest ==
  ASSUME Course, RestInv, DropEarly
  PROVE  RestInv'
<1>1. UNCHANGED <<seen, queued, eols, buEols, lumi, dqm, main>>
  BY DEF DropEarly
<1>2. Shifted(Pend, Pend', 1, <<>>) /\ Pend[1].kind = "crash"
  BY DropEarlyShifts
<1>3. \A l \in Lumis : Due(l)'
  BY <1>1, <1>2, MergesSame, QuietAtRest DEF Next, MainLoop
<1>4. EndsKnown'
  BY <1>1 DEF RestInv, EndsKnown
<1>5. OneMerge'
  BY <1>1 DEF RestInv, OneMerge
<1> QED  BY <1>3, <1>4, <1>5 DEF RestInv

LEMMA TakeProcessingRest ==
  ASSUME Course, RestInv, TakeProcessing
  PROVE  RestInv'
<1>1. /\ UNCHANGED <<seen, queued, eols, buEols, lumi, dqm>> /\ Event.kind = "processing"
      /\ main' = [main EXCEPT !.allowEmpty = TRUE] /\ main \in MainState
  BY DEF TakeProcessing, Course, LumiTypeOK
<1>2. main'.stop = main.stop
  BY <1>1 DEF MainState
<1>3. Pend[1] = Event /\ \E X : Shifted(Pend, Pend', 1, X)
  BY TakeMoves DEF Adds
<1>4. \A l \in Lumis : Due(l)'
  BY <1>1, <1>3, MergesSame, QuietAtRest DEF Next, MainLoop
<1>5. EndsKnown'
  BY <1>1, <1>2 DEF RestInv, EndsKnown
<1>6. OneMerge'
  BY <1>1 DEF RestInv, OneMerge
<1> QED  BY <1>4, <1>5, <1>6 DEF RestInv

\* checkOpenLumis writes the EoLS files that are missing.
LEMMA TakeCompleteRest ==
  ASSUME Course, RestInv, TakeComplete
  PROVE  RestInv'
<1>1. /\ UNCHANGED <<seen, buEols, lumi, dqm>> /\ Event.kind \in {"complete", "abort"}
      /\ main' = [main EXCEPT !.stop = Event.kind] /\ main \in MainState
      /\ \/ Event.kind = "complete" /\ WriteEoLS(MissingEoLS, Tail(queue), queued)
         \/ Event.kind = "abort" /\ UNCHANGED <<queued, eols>>
  BY DEF TakeComplete, Course, LumiTypeOK
<1>2. main'.stop = Event.kind
  BY <1>1 DEF MainState
<1>3. Pend[1] = Event /\ \E X : Shifted(Pend, Pend', 1, X)
  BY TakeMoves DEF Adds
<1>4. \A l \in Lumis : Due(l)'
  BY <1>1, <1>3, MergesSame, QuietAtRest DEF Next, MainLoop
<1>5. /\ eols = seen \union queued
      /\ \A l \in seen : Filled(lumi[l]) => lumi[l].eols
  BY DEF RestInv, EndsKnown
<1>6. eols' = seen \union queued'
  BY <1>1, <1>5 DEF WriteEoLS
<1>7. ASSUME Event.kind = "complete", NEW l \in buEols, Filled(lumi[l]) PROVE l \in eols'
  <2>1. eols' = eols \union MissingEoLS
    BY <1>1, <1>7 DEF WriteEoLS
  <2>2. l \in Lumis /\ (lumi[l].eols => l \in seen)
    BY DEF Course, HandlersEnded, LumiTypeOK
  <2>3. CASE lumi[l].eols
    BY <1>5, <2>1, <2>2, <2>3
  <2>4. CASE ~lumi[l].eols
    BY <1>7, <2>1, <2>2, <2>4 DEF MissingEoLS, Filled, Open
  <2> QED  BY <2>3, <2>4
<1>8. EndsKnown'
  BY <1>1, <1>2, <1>5, <1>6, <1>7 DEF EndsKnown
<1>9. OneMerge'
  BY <1>1 DEF RestInv, OneMerge
<1> QED  BY <1>4, <1>8, <1>9 DEF RestInv

LEMMA RestGoesOn ==
  ASSUME EventsKeptInv, EndInv, RestInv, [Next]_lumiVars
  PROVE  RestInv'
<1>0. Course /\ Books
  BY DEF EventsKeptInv, ErrorsInv, Accounts
<1>1. CASE Takings
  BY <1>0, <1>1, TakingsRest
<1>2. CASE BufferIndex \/ FlushBuffer \/ Idle \/ Finish
  BY <1>0, <1>2, WaitingRest
<1>3. CASE UNCHANGED lumiVars
  <2>1. UNCHANGED <<seen, queued, eols, buEols, lumi, dqm, main>> /\ Pend' = Pend
    BY <1>3 DEF lumiVars, Pend
  <2>2. Shifted(Pend, Pend', 0, <<>>)
    BY <1>0, <2>1, NothingShifted DEF Course, Events
  <2>3. \A l \in Lumis : Due(l)'
    BY <1>0, <2>1, <2>2, MergesSame, QuietAtRest
  <2>4. EndsKnown' /\ OneMerge'
    BY <2>1 DEF RestInv, EndsKnown, OneMerge
  <2> QED  BY <2>3, <2>4 DEF RestInv
<1> QED  BY <1>0, <1>1, <1>2, <1>3, DropEarlyRest, TakeProcessingRest, TakeCompleteRest, DqmTakeRest,
            DqmDoneRest, OutsideRest
         DEF Next, MainLoop, DqmMerger, Takings

LEMMA RestBegins == Init => RestInv
<1> SUFFICES ASSUME Init PROVE RestInv
  OBVIOUS
<1>1. /\ eols = {} /\ seen = {} /\ queued = {} /\ buEols = {} /\ dqm.cur = {}
      /\ \A l \in Lumis : lumi[l] = NoHandler
  BY DEF Init
<1>2. NoHandler.st = "none"
  BY NoHandlerTyped
<1>3. \A l \in Lumis : AtRest(l)
  BY <1>1, <1>2 DEF AtRest, Filled
<1> QED  BY <1>1, <1>3 DEF RestInv, EndsKnown, OneMerge, Due

-----------------------------------------------------------------------------
(* When nothing is on its way any more *)

\* No event has been left, nor a stream to be merged.
LEMMA QuietEmpty ==
  ASSUME Course, EndInv, Quiet
  PROVE  DOMAIN Pend = {} /\ queued = {} /\ Merges = {}
<1>1. /\ queue = <<>> /\ dqm.q = <<>> /\ dqm.cur = {} /\ main.stop = "complete"
      /\ main.buffer \in Seq(FileEvent)
  BY MainFields DEF Quiet, Course, LumiTypeOK
<1>2. Pend = main.buffer
  BY <1>1, ConcatEmptySeq DEF Pend
<1>3. DOMAIN Pend = {}
  BY <1>1, <1>2 DEF Course, Buffered, EndInv, LateIndex
<1>4. queued = {}
  BY <1>3 DEF Course, Events, Counted, Ends
<1>5. Merges = {}
  BY <1>1 DEF Merges
<1> QED  BY <1>3, <1>4, <1>5

\* Every process that has read events of the lumisection has delivered the stream,
\* or has lost them.
LEMMA QuietDelivered ==
  ASSUME Course, FilesInv, EndInv, Quiet, NEW l \in Lumis, lumi[l].st # "closed",
         NEW s \in Streams, NEW p \in Pids, grab[l][p] > 0
  PROVE  p \in Got(lumi[l], s) \union LostOf(l)[s]
<1>1. \A Z : ~Waits(Pend, Z)
  BY QuietEmpty DEF Waits
<1>2. spent["abort"] = 0 /\ proc[p].st \in {"ended", "crashed"}
  BY DEF Quiet, EndInv, RunEnded, EndTold
<1>3. LostOf(l)[s] = Gone \union BadTaken(l, s)
  BY LostTyped
<1>4. CASE proc[p].st = "crashed"
  BY <1>1, <1>3, <1>4 DEF Gone, Crashed
<1>5. CASE proc[p].st = "ended"
  <2>1. s \in valid[l][p] \union torn[l][p]
    BY <1>2, <1>5 DEF EndInv, Wrote, WrittenBy, Files
  <2>2. s \in valid[l][p] => s \in lumi[l].pid[p].merged
    BY <1>1 DEF FilesInv, TakenOf
  <2> QED  BY <1>1, <1>3, <2>1, <2>2 DEF Got, BadTaken
<1> QED  BY <1>2, <1>4, <1>5

\* All its events are accounted for, then, and it is written or on its way.
LEMMA QuietFull ==
  ASSUME Course, Books, FilesInv, EventsInv, EndInv, Quiet, NEW l \in Lumis, Filled(lumi[l]),
         lumi[l].eols, ~CountedTwice(l), NEW s \in Streams, lumi[l].out[s].open
  PROVE  s \in Full(lumi[l])
<1>1. PICK h \in Handler : h = lumi[l]
  BY DEF Course, LumiTypeOK
<1>2. PICK c : c = Counts(h)
  OBVIOUS
<1>3. h.st = "open" /\ ~h.empty
  BY <1>1 DEF Filled
<1>4. Over(Pend, buEols, l) /\ Account(h, l, Pend, buEols, grab[l])
  <2>1. l \in seen
    BY DEF Course, HandlersEnded
  <2> QED  BY <1>1, <1>3, <2>1 DEF Books, Book
<1>5. ASSUME NEW p \in Pids PROVE h.pid[p].n = grab[l][p]
  <2>1. Left(Pend, l, p) = 0
    BY <1>4, NoneLeft DEF Course, Events
  <2>2. h.pid[p].n + Left(Pend, l, p) = grab[l][p] /\ h.pid[p].n \in Nat
    BY <1>4, HandlerFields DEF Account
  <2> QED  BY <2>1, <2>2
<1>6. c \in [Pids -> Nat] /\ \A p \in Pids : c[p] = grab[l][p]
  BY <1>2, <1>5, CountsTyped
<1>7. h.total = Cardinality(FilesOf(c))
  BY <1>2, <1>3, <1>4 DEF Account
<1>8. PICK Q : Q = Got(h, s) \union LostOf(l)[s]
  OBVIOUS
<1>9. Q \subseteq Pids
  BY <1>8, LostTyped DEF Got
<1>10. \A p \in Pids : p \in Pids /\ p \notin Q => c[p] = 0
  <2> SUFFICES ASSUME NEW p \in Pids, p \notin Q PROVE c[p] = 0
    OBVIOUS
  <2>1. ~(grab[l][p] > 0)
    BY <1>1, <1>3, <1>8, QuietDelivered
  <2> QED  BY <1>6, <2>1
<1>11. Share(c, Pids) = Share(c, Q)
  BY <1>6, <1>9, <1>10, ShareWiden
<1>12. Share(c, Pids) = Cardinality(FilesOf(c))
  <2>1. SharedFiles(c, Pids) = FilesOf(c)
    BY DEF SharedFiles, FilesOf
  <2> QED  BY <2>1 DEF Share
<1>13. h.out[s].proc + h.out[s].err = Share(c, Q)
  BY <1>1, <1>2, <1>8 DEF EventsInv, EventsOf, Tallied, TalliedIn
<1> QED  BY <1>1, <1>3, <1>7, <1>11, <1>12, <1>13 DEF Full

LEMMA RestCloses ==
  ASSUME EventsKeptInv, EndInv, RestInv
  PROVE  QuietMeansClosed
<1>1. Course /\ Books /\ FilesInv /\ EventsInv
  BY DEF EventsKeptInv, ErrorsInv, Accounts, ToldInv
<1> SUFFICES ASSUME Quiet, NEW l \in buEols, Open(l), ~lumi[l].empty, ~CountedTwice(l)
             PROVE  \E m \in dqm.refused : m.ls = l
  BY DEF QuietMeansClosed
<1>2. l \in Lumis /\ Filled(lumi[l]) /\ AtRest(l)
  BY <1>1 DEF Course, LumiTypeOK, Filled, Open, RestInv, Due
<1>3. DOMAIN Pend = {} /\ queued = {} /\ Merges = {}
  BY <1>1, QuietEmpty
<1>4. lumi[l].eols
  BY <1>2, <1>3 DEF Quiet, RestInv, EndsKnown
<1>5. PICK s \in Streams : lumi[l].out[s].open
  BY <1>2, <1>4 DEF AtRest
<1>6. s \in Full(lumi[l])
  BY <1>1, <1>2, <1>4, <1>5, QuietFull
<1>7. lumi[l].out[s].stage = 1
  <2>1. lumi[l].out[s].stage \in 0 .. 2
    BY <1>1, <1>2, HandlerFields DEF Course, LumiTypeOK
  <2>2. ToMerge(lumi[l]) = {} /\ ToWrite(lumi[l]) = {}
    BY <1>2 DEF AtRest
  <2>3. lumi[l].out[s].pb /\ lumi[l].out[s].stage # 2
    BY <1>6, <2>2 DEF ToWrite
  <2>4. lumi[l].out[s].stage # 0
    BY <1>6, <2>2, <2>3 DEF ToMerge
  <2> QED  BY <2>1, <2>3, <2>4
<1>8. OnItsWay(l, s)
  BY <1>2, <1>5, <1>7 DEF AtRest
<1>9. [ls |-> l, stream |-> s] \in dqm.refused
  BY <1>3, <1>8 DEF OnItsWay, Waits
<1> QED  BY <1>9

LEMMA RestHolds == Spec => [](EventsKeptInv /\ EndInv /\ RestInv)
<1>1. Init => EndInv /\ RestInv
  BY EndBegins, RestBegins
<1>2. EventsKeptInv /\ EndInv /\ RestInv /\ [Next]_lumiVars => EndInv' /\ RestInv'
  BY EndGoesOn, RestGoesOn DEF EventsKeptInv, ErrorsInv, Accounts
<1> QED  BY <1>1, <1>2, EventsHold, PTL DEF Spec

\* Once the run is complete and nothing is on its way, no lumisection with events
\* that the BU has ended is left open, but those whose histograms the merging thread
\* never got and those with events counted twice.
THEOREM QuietCloses == Spec => []QuietMeansClosed
<1>1. EventsKeptInv /\ EndInv /\ RestInv => QuietMeansClosed
  BY RestCloses
<1> QED  BY <1>1, RestHolds, PTL
=============================================================================
