-------------------------- MODULE OmsJournalProofs --------------------------
(***************************************************************************)
(* The journal's safety for every setting, any number of lines and every   *)
(* order of faults and crashes: first what one write or flush keeps, then  *)
(* what every operation keeps, then the theorems.                          *)
(***************************************************************************)
EXTENDS OmsJournal, SequenceTheorems, TLAPS

-----------------------------------------------------------------------------
(* What the writes, flushes and their failures keep.  The inductive        *)
(* invariant is stated of the outcome [file, synced,                       *)
(* pending, ok] of a write, so that every step of an operation keeps it; n *)
(* is the number of the next line.                                         *)

Ios == { io \in [file : Seq(Lines \cup { Torn }), synced : Nat, pending : Seq(Lines), ok : BOOLEAN] :
             io.synced <= Len(io.file) }

\* r and q may follow each other in the file.
InOrder(r, q) ==
    \/ r.id < q.id
    \/ /\ AsyncEnabled /\ ~CriticalFlushQueued
       /\ IsCriticalEventType(r.type) /\ ~IsCriticalEventType(q.type)
       /\ r.id # q.id

\* A fragment is last, and there is none while the writer is usable.
TornInv(io) ==
    /\ \A i \in 1 .. Len(io.file) : io.file[i] = Torn => i = Len(io.file)
    /\ io.ok => \A i \in 1 .. Len(io.file) : io.file[i] # Torn

PairInv(io) ==
    /\ \A i \in 1 .. Len(io.file) :
          io.file[i].type = "place_send_attempt" =>
              i > 1 /\ io.file[i - 1] = [id |-> io.file[i].id - 1, type |-> "order_intent"]
    /\ \A i \in 1 .. Len(io.pending) : io.pending[i].type # "place_send_attempt"

IdInv(io, n) ==
    /\ \A i \in 1 .. Len(io.file) : io.file[i].id < n
    /\ \A i \in 1 .. Len(io.pending) : io.pending[i].id < n

\* Pending lines are in order, and after the file's lines.
OrderInv(io) ==
    SyncCritical =>
        /\ \A i \in 1 .. Len(io.pending) : ~IsCriticalEventType(io.pending[i].type)
        /\ \A i, j \in 1 .. Len(io.pending) : i < j => io.pending[i].id < io.pending[j].id
        /\ \A i, j \in 1 .. Len(io.file) :
              i < j /\ io.file[i] # Torn /\ io.file[j] # Torn => InOrder(io.file[i], io.file[j])
        /\ io.ok => \A i \in 1 .. Len(io.file), j \in 1 .. Len(io.pending) :
                        InOrder(io.file[i], io.pending[j])

IoInv(io, n) ==
    /\ io \in Ios
    /\ TornInv(io)
    /\ PairInv(io)
    /\ IdInv(io, n)
    /\ OrderInv(io)
    /\ Len(io.pending) <= MaxPendingRecords

-----------------------------------------------------------------------------
(* Outcomes. *)

Has(s, r) == \E i \in 1 .. Len(s) : s[i] = r

\* g has the lines of f, where they were.
Grown(f, g) == Len(f) <= Len(g) /\ \A i \in 1 .. Len(f) : g[i] = f[i]

\* Every line of p is in g or in q.
Kept(p, g, q) == \A j \in 1 .. Len(p) : Has(g, p[j]) \/ Has(q, p[j])

\* x was reached from io by writing: the file grew and no pending line was lost.
Follows(io, x) ==
    /\ Grown(io.file, x.file) /\ io.synced <= x.synced
    /\ Kept(io.pending, x.file, x.pending)

\* An outcome follows from itself, and outcomes compose.
LEMMA FollowsRefl ==
    ASSUME NEW io \in Ios
    PROVE  Follows(io, io)
<1>1. /\ Len(io.file) \in Nat /\ io.synced \in Nat
      BY DEF Ios
<1> QED BY <1>1 DEF Follows, Grown, Has, Kept

LEMMA FollowsTrans ==
    ASSUME NEW io \in Ios, NEW x \in Ios, NEW y \in Ios, Follows(io, x), Follows(x, y)
    PROVE  Follows(io, y)
<1>1. /\ Len(io.file) \in Nat /\ Len(x.file) \in Nat /\ Len(y.file) \in Nat
      /\ io.synced \in Nat /\ x.synced \in Nat /\ y.synced \in Nat
      BY DEF Ios
<1>2. Grown(io.file, x.file) /\ Grown(x.file, y.file)
      BY DEF Follows
<1>3. Grown(io.file, y.file)
      BY <1>1, <1>2 DEF Grown
<1>4. io.synced <= y.synced
      BY <1>1 DEF Follows
<1>5. ASSUME NEW j \in 1 .. Len(io.pending)
      PROVE  Has(y.file, io.pending[j]) \/ Has(y.pending, io.pending[j])
  <2>1. CASE Has(x.file, io.pending[j])
        BY <1>1, <1>2, <2>1 DEF Grown, Has
  <2>2. CASE Has(x.pending, io.pending[j])
    <3>1. PICK i \in 1 .. Len(x.pending) : x.pending[i] = io.pending[j]
          BY <2>2 DEF Has
    <3> QED BY <3>1 DEF Follows, Kept
  <2> QED BY <2>1, <2>2 DEF Follows, Kept
<1> QED BY <1>3, <1>4, <1>5 DEF Follows, Kept

\* Lines are not fragments.
LEMMA LineFacts ==
    ASSUME NEW r \in Lines
    PROVE  r # Torn /\ r.id \in 1 .. MaxAppends /\ r.id \in Nat /\ r.id > 0
BY JournalConstants DEF Lines, Torn

LEMMA TornFacts == Torn.id = 0 /\ Torn.type # "place_send_attempt"
BY DEF Torn

\* Line i of g, beyond those of f, was pending, or is the fragment of such a line.
FromPending(f, p, g, ok, i) ==
    /\ i - Len(f) \in 1 .. Len(p)
    /\ \/ g[i] = p[i - Len(f)]
       \/ g[i] = Torn /\ i = Len(g) /\ ~ok

Added(f, p, g, ok) == \A i \in 1 .. Len(g) : i > Len(f) => FromPending(f, p, g, ok, i)

\* s is what remains of q after its first k entries.
Suffix(s, q, k) ==
    /\ k \in 0 .. Len(q) /\ Len(s) = Len(q) - k
    /\ \A i \in 1 .. Len(s) : s[i] = q[i + k]

\* What a flush does, line by line: lines that were pending follow the file's own,
\* and the rest stays pending.
Flushes(io, x, k) ==
    /\ Follows(io, x) /\ x.synced = io.synced
    /\ Added(io.file, io.pending, x.file, x.ok)
    /\ Suffix(x.pending, io.pending, k)
    /\ x.ok => k = Len(io.pending)

LEMMA IosFacts ==
    ASSUME NEW io \in Ios
    PROVE  /\ Len(io.file) \in Nat /\ Len(io.pending) \in Nat /\ io.synced \in Nat
           /\ io.synced <= Len(io.file)
           /\ \A i \in 1 .. Len(io.pending) : io.pending[i] \in Lines
           /\ \A i \in 1 .. Len(io.file) : io.file[i] \in Lines \cup { Torn }
           /\ io.file \in Seq(Lines \cup { Torn }) /\ io.pending \in Seq(Lines)
           /\ io.ok \in BOOLEAN
BY DEF Ios

\* Each line of a flushed file is an old one or was pending.
LEMMA FlushedLine ==
    ASSUME NEW io \in Ios, NEW x \in Ios, NEW k, Flushes(io, x, k), NEW i \in 1 .. Len(x.file)
    PROVE  \/ i \in 1 .. Len(io.file) /\ x.file[i] = io.file[i]
           \/ i > Len(io.file) /\ FromPending(io.file, io.pending, x.file, x.ok, i)
<1>1. Len(io.file) \in Nat
      BY IosFacts
<1>2. CASE i <= Len(io.file)
      BY <1>1, <1>2 DEF Flushes, Follows, Grown
<1>3. CASE i > Len(io.file)
      BY <1>3 DEF Flushes, Added
<1> QED BY <1>1, <1>2, <1>3

LEMMA FlushedRest ==
    ASSUME NEW io \in Ios, NEW x \in Ios, NEW k, Flushes(io, x, k), NEW i \in 1 .. Len(x.pending)
    PROVE  i + k \in 1 .. Len(io.pending) /\ x.pending[i] = io.pending[i + k] /\ k \in Nat
<1>1. Len(io.pending) \in Nat
      BY IosFacts
<1> QED BY <1>1 DEF Flushes, Suffix

LEMMA FlushKeepsTorn ==
    ASSUME NEW io \in Ios, NEW x \in Ios, NEW k, Flushes(io, x, k), TornInv(io), io.ok
    PROVE  TornInv(x)
<1>1. ASSUME NEW i \in 1 .. Len(x.file), x.file[i] = Torn
      PROVE  i = Len(x.file) /\ ~x.ok
  <2>1. CASE i \in 1 .. Len(io.file) /\ x.file[i] = io.file[i]
        BY <1>1, <2>1 DEF TornInv
  <2>2. CASE FromPending(io.file, io.pending, x.file, x.ok, i)
        BY <1>1, <2>2, IosFacts, LineFacts DEF FromPending
  <2> QED BY <2>1, <2>2, FlushedLine
<1> QED BY <1>1 DEF TornInv

LEMMA FlushKeepsPairs ==
    ASSUME NEW io \in Ios, NEW x \in Ios, NEW k, Flushes(io, x, k), PairInv(io)
    PROVE  PairInv(x)
<1>1. Len(io.file) \in Nat /\ Len(io.pending) \in Nat
      BY IosFacts
<1>2. ASSUME NEW i \in 1 .. Len(x.file), x.file[i].type = "place_send_attempt"
      PROVE  i > 1 /\ x.file[i - 1] = [id |-> x.file[i].id - 1, type |-> "order_intent"]
  <2>1. CASE FromPending(io.file, io.pending, x.file, x.ok, i)
        BY <1>2, <2>1, TornFacts DEF FromPending, PairInv
  <2>2. CASE i \in 1 .. Len(io.file) /\ x.file[i] = io.file[i]
    <3>1. i > 1 /\ io.file[i - 1] = [id |-> io.file[i].id - 1, type |-> "order_intent"]
          BY <1>2, <2>2 DEF PairInv
    <3>2. i - 1 \in 1 .. Len(io.file)
          BY <1>1, <2>2, <3>1
    <3>3. x.file[i - 1] = io.file[i - 1]
          BY <3>2 DEF Flushes, Follows, Grown
    <3> QED BY <2>2, <3>1, <3>3
  <2> QED BY <2>1, <2>2, FlushedLine
<1>3. ASSUME NEW i \in 1 .. Len(x.pending)
      PROVE  x.pending[i].type # "place_send_attempt"
  <2>1. i + k \in 1 .. Len(io.pending) /\ x.pending[i] = io.pending[i + k]
        BY FlushedRest
  <2> QED BY <2>1 DEF PairInv
<1> QED BY <1>2, <1>3 DEF PairInv

LEMMA FlushKeepsIds ==
    ASSUME NEW io \in Ios, NEW x \in Ios, NEW k, Flushes(io, x, k), NEW n \in Nat, n > 0, IdInv(io, n)
    PROVE  IdInv(x, n)
<1>1. ASSUME NEW i \in 1 .. Len(x.file)
      PROVE  x.file[i].id < n
  <2>1. CASE i \in 1 .. Len(io.file) /\ x.file[i] = io.file[i]
        BY <2>1 DEF IdInv
  <2>2. CASE FromPending(io.file, io.pending, x.file, x.ok, i)
        BY <2>2, TornFacts DEF FromPending, IdInv
  <2> QED BY <2>1, <2>2, FlushedLine
<1>2. ASSUME NEW i \in 1 .. Len(x.pending)
      PROVE  x.pending[i].id < n
  <2>1. i + k \in 1 .. Len(io.pending) /\ x.pending[i] = io.pending[i + k]
        BY FlushedRest
  <2> QED BY <2>1 DEF IdInv
<1> QED BY <1>1, <1>2 DEF IdInv

LEMMA FlushKeepsOrder ==
    ASSUME NEW io \in Ios, NEW x \in Ios, NEW k, Flushes(io, x, k), OrderInv(io), io.ok
    PROVE  OrderInv(x)
<1> SUFFICES ASSUME SyncCritical
             PROVE  OrderInv(x)
    BY DEF OrderInv
<1>1. Len(io.file) \in Nat /\ Len(io.pending) \in Nat
      BY IosFacts
<1>2. ASSUME NEW i \in 1 .. Len(x.pending)
      PROVE  ~IsCriticalEventType(x.pending[i].type)
  <2>1. i + k \in 1 .. Len(io.pending) /\ x.pending[i] = io.pending[i + k]
        BY FlushedRest
  <2> QED BY <2>1 DEF OrderInv
<1>3. ASSUME NEW i \in 1 .. Len(x.pending), NEW j \in 1 .. Len(x.pending), i < j
      PROVE  x.pending[i].id < x.pending[j].id
  <2>1. /\ i + k \in 1 .. Len(io.pending) /\ x.pending[i] = io.pending[i + k]
        /\ j + k \in 1 .. Len(io.pending) /\ x.pending[j] = io.pending[j + k] /\ k \in Nat
        BY FlushedRest
  <2>2. i + k < j + k
        BY <1>3, <2>1
  <2> QED BY <2>1, <2>2 DEF OrderInv
<1>4. ASSUME NEW i \in 1 .. Len(x.file), NEW j \in 1 .. Len(x.file), i < j,
             x.file[i] # Torn, x.file[j] # Torn
      PROVE  InOrder(x.file[i], x.file[j])
  <2>1. CASE j \in 1 .. Len(io.file) /\ x.file[j] = io.file[j]
    <3>1. i \in 1 .. Len(io.file) /\ x.file[i] = io.file[i]
          BY <1>1, <1>4, <2>1 DEF Flushes, Follows, Grown
    <3> QED BY <1>4, <2>1, <3>1 DEF OrderInv
  <2>2. CASE i \in 1 .. Len(io.file) /\ x.file[i] = io.file[i] /\ FromPending(io.file, io.pending, x.file, x.ok, j)
    <3>1. j - Len(io.file) \in 1 .. Len(io.pending) /\ x.file[j] = io.pending[j - Len(io.file)]
          BY <1>4, <2>2 DEF FromPending
    <3> QED BY <2>2, <3>1 DEF OrderInv
  <2>3. CASE FromPending(io.file, io.pending, x.file, x.ok, i) /\ FromPending(io.file, io.pending, x.file, x.ok, j)
    <3>1. j - Len(io.file) \in 1 .. Len(io.pending) /\ x.file[j] = io.pending[j - Len(io.file)]
          BY <1>4, <2>3 DEF FromPending
    <3>2. i - Len(io.file) \in 1 .. Len(io.pending) /\ x.file[i] = io.pending[i - Len(io.file)]
          BY <1>4, <2>3 DEF FromPending
    <3>3. i - Len(io.file) < j - Len(io.file)
          BY <1>1, <1>4
    <3>4. x.file[i].id < x.file[j].id
          BY <3>1, <3>2, <3>3 DEF OrderInv
    <3> QED BY <3>4 DEF InOrder
  <2> QED BY <2>1, <2>2, <2>3, FlushedLine
<1>5. ASSUME x.ok
      PROVE  Len(x.pending) = 0
      BY <1>1, <1>5 DEF Flushes, Suffix
<1>6. x.ok => \A i \in 1 .. Len(x.file), j \in 1 .. Len(x.pending) :
                  InOrder(x.file[i], x.pending[j])
      BY <1>5
<1> QED BY <1>2, <1>3, <1>4, <1>6 DEF OrderInv

\* The synced lines stay in the file.
LEMMA SyncedStays ==
    ASSUME NEW S, NEW f \in Seq(S), NEW g \in Seq(S), NEW s \in Nat, s <= Len(f), Grown(f, g)
    PROVE  s <= Len(g)
BY DEF Grown

\* u consists of s and then t.
Joins(u, s, t) ==
    /\ Len(s) \in Nat /\ Len(t) \in Nat /\ Len(u) \in Nat
    /\ Len(u) = Len(s) + Len(t) /\ Grown(s, u)
    /\ \A i \in 1 .. Len(u) :
          i > Len(s) => i - Len(s) \in 1 .. Len(t) /\ u[i] = t[i - Len(s)]
    /\ \A j \in 1 .. Len(t) : Has(u, t[j])

LEMMA Joined ==
    ASSUME NEW S, NEW s \in Seq(S), NEW t \in Seq(S)
    PROVE  s \o t \in Seq(S) /\ Joins(s \o t, s, t)
<1>1. Len(s) \in Nat /\ Len(t) \in Nat /\ Len(s \o t) \in Nat
      OBVIOUS
<1>2. /\ s \o t \in Seq(S) /\ Len(s \o t) = Len(s) + Len(t)
      /\ \A i \in 1 .. Len(s) + Len(t) : (s \o t)[i] = IF i <= Len(s) THEN s[i] ELSE t[i - Len(s)]
      BY ConcatProperties
<1>3. Grown(s, s \o t)
      BY <1>1, <1>2 DEF Grown
<1>4. ASSUME NEW i \in 1 .. Len(s \o t), i > Len(s)
      PROVE  i - Len(s) \in 1 .. Len(t) /\ (s \o t)[i] = t[i - Len(s)]
      BY <1>1, <1>2, <1>4
<1>5. ASSUME NEW j \in 1 .. Len(t)
      PROVE  Has(s \o t, t[j])
  <2>1. j + Len(s) \in 1 .. Len(s \o t) /\ j + Len(s) > Len(s) /\ (j + Len(s)) - Len(s) = j
        BY <1>1, <1>2
  <2>2. (s \o t)[j + Len(s)] = t[j]
        BY <1>4, <2>1
  <2> QED BY <2>1, <2>2 DEF Has
<1> QED BY <1>1, <1>2, <1>3, <1>4, <1>5 DEF Joins

\* The lines before and from line k on.
LEMMA SplitAt ==
    ASSUME NEW S, NEW p \in Seq(S), NEW k \in 1 .. Len(p)
    PROVE  /\ SubSeq(p, k, Len(p)) \in Seq(S) /\ Suffix(SubSeq(p, k, Len(p)), p, k - 1)
           /\ SubSeq(p, 1, k - 1) \in Seq(S) /\ Len(SubSeq(p, 1, k - 1)) = k - 1
           /\ \A i \in 1 .. k - 1 : SubSeq(p, 1, k - 1)[i] = p[i]
<1>1. /\ Len(p) \in Nat /\ k \in Int /\ Len(p) \in Int /\ k - 1 \in Int /\ 1 \in Int
      /\ \A i \in 1 .. Len(p) : p[i] \in S
      OBVIOUS
<1>2. (\A i \in k .. Len(p) : p[i] \in S) /\ (\A i \in 1 .. k - 1 : p[i] \in S)
      BY <1>1
<1>3. /\ SubSeq(p, k, Len(p)) \in Seq(S)
      /\ Len(SubSeq(p, k, Len(p))) = IF k <= Len(p) THEN Len(p) - k + 1 ELSE 0
      /\ \A i \in 1 .. Len(p) - k + 1 : SubSeq(p, k, Len(p))[i] = p[k + i - 1]
      BY <1>1, <1>2, SubSeqProperties
<1>4. /\ SubSeq(p, 1, k - 1) \in Seq(S)
      /\ Len(SubSeq(p, 1, k - 1)) = IF 1 <= k - 1 THEN k - 1 - 1 + 1 ELSE 0
      /\ \A i \in 1 .. k - 1 - 1 + 1 : SubSeq(p, 1, k - 1)[i] = p[1 + i - 1]
      BY <1>1, <1>2, SubSeqProperties
<1>5. Len(SubSeq(p, k, Len(p))) = Len(p) - (k - 1) /\ k - 1 \in 0 .. Len(p)
      BY <1>1, <1>3
<1>6. ASSUME NEW i \in 1 .. Len(SubSeq(p, k, Len(p)))
      PROVE  SubSeq(p, k, Len(p))[i] = p[i + (k - 1)]
  <2>1. k + i - 1 = i + (k - 1) /\ i \in 1 .. Len(p) - k + 1
        BY <1>1, <1>5
  <2> QED BY <1>3, <2>1
<1>7. Suffix(SubSeq(p, k, Len(p)), p, k - 1)
      BY <1>5, <1>6 DEF Suffix
<1>8. Len(SubSeq(p, 1, k - 1)) = k - 1
      BY <1>1, <1>4
<1>9. ASSUME NEW i \in 1 .. k - 1
      PROVE  SubSeq(p, 1, k - 1)[i] = p[i]
  <2>1. 1 + i - 1 = i /\ i \in 1 .. k - 1 - 1 + 1
        BY <1>1
  <2> QED BY <1>4, <2>1
<1> QED BY <1>3, <1>4, <1>7, <1>8, <1>9

\* What a failed write of r can have added.
Remains(tail, r) ==
    /\ Len(tail) = 0 \/ Len(tail) = 1
    /\ \A i \in 1 .. Len(tail) : i = 1 /\ (tail[i] = Torn \/ tail[i] = r)

LEMMA TailFacts ==
    ASSUME NEW r \in Lines, NEW tail \in FailedTails(r)
    PROVE  tail \in Seq(Lines \cup { Torn }) /\ Remains(tail, r)
<1>1. CASE tail = <<>>
      BY <1>1 DEF Remains
<1>2. CASE tail = <<Torn>>
      BY <1>2 DEF Remains
<1>3. CASE tail = <<r>>
      BY <1>3 DEF Remains
<1> QED BY <1>1, <1>2, <1>3 DEF FailedTails

\* A flush that succeeds, and one that fails at line k.
LEMMA FlushedAll ==
    ASSUME NEW f, NEW p, NEW g, NEW q, NEW ok, Joins(g, f, p), Len(q) = 0
    PROVE  Grown(f, g) /\ Kept(p, g, q) /\ Suffix(q, p, Len(p)) /\ Added(f, p, g, ok)
<1>1. Grown(f, g) /\ Kept(p, g, q)
      BY DEF Joins, Kept
<1>2. Len(p) \in Nat
      BY DEF Joins
<1>3. Suffix(q, p, Len(p))
      BY <1>2 DEF Suffix
<1>4. ASSUME NEW i \in 1 .. Len(g), i > Len(f)
      PROVE  FromPending(f, p, g, ok, i)
      BY <1>4 DEF Joins, FromPending
<1> QED BY <1>1, <1>3, <1>4 DEF Added

LEMMA FlushedSome ==
    ASSUME NEW f, NEW p, NEW g, NEW q, NEW ok, NEW k \in 1 .. Len(p), NEW w, NEW u, NEW tail, ~ok,
           Len(p) \in Nat, Len(w) = k - 1, \A i \in 1 .. k - 1 : w[i] = p[i],
           Joins(u, f, w), Joins(g, u, tail), Remains(tail, p[k]), Suffix(q, p, k - 1)
    PROVE  Grown(f, g) /\ Kept(p, g, q) /\ Added(f, p, g, ok)
<1>1. Len(tail) \in 0 .. 1
      BY DEF Remains
<1>2. /\ Len(f) \in Nat /\ Len(u) \in Nat /\ Len(g) \in Nat
      /\ k \in Nat /\ k >= 1 /\ k <= Len(p)
      /\ Len(u) = Len(f) + (k - 1) /\ Len(g) = Len(u) + Len(tail)
      BY DEF Joins
<1>3. Grown(f, u) /\ Grown(u, g)
      BY DEF Joins
<1>4. Grown(f, g)
      BY <1>1, <1>2, <1>3 DEF Grown
<1>5. ASSUME NEW j \in 1 .. Len(p)
      PROVE  Has(g, p[j]) \/ Has(q, p[j])
  <2>1. CASE j <= k - 1
    <3>1. Has(u, p[j])
          BY <1>2, <2>1 DEF Joins
    <3>2. PICK i \in 1 .. Len(u) : u[i] = p[j]
          BY <3>1 DEF Has
    <3>3. i \in 1 .. Len(g) /\ g[i] = u[i]
          BY <1>1, <1>2, <1>3 DEF Grown
    <3> QED BY <3>2, <3>3 DEF Has
  <2>2. CASE j > k - 1
    <3>1. j - (k - 1) \in 1 .. Len(q) /\ j - (k - 1) + (k - 1) = j
          BY <1>2, <2>2 DEF Suffix
    <3>2. q[j - (k - 1)] = p[j]
          BY <3>1 DEF Suffix
    <3> QED BY <3>1, <3>2 DEF Has
  <2> QED BY <1>2, <2>1, <2>2
<1>6. ASSUME NEW i \in 1 .. Len(g), i > Len(f)
      PROVE  FromPending(f, p, g, ok, i)
  <2>1. CASE i <= Len(u)
    <3>1. i \in 1 .. Len(u) /\ g[i] = u[i]
          BY <1>2, <1>3, <2>1 DEF Grown
    <3>2. i - Len(f) \in 1 .. k - 1 /\ u[i] = w[i - Len(f)]
          BY <1>6, <3>1 DEF Joins
    <3>3. i - Len(f) \in 1 .. Len(p) /\ g[i] = p[i - Len(f)]
          BY <1>2, <3>1, <3>2
    <3> QED BY <3>3 DEF FromPending
  <2>2. CASE i > Len(u)
    <3>1. i - Len(u) \in 1 .. Len(tail) /\ g[i] = tail[i - Len(u)]
          BY <2>2 DEF Joins
    <3>2. i - Len(u) = 1 /\ (g[i] = Torn \/ g[i] = p[k])
          BY <3>1 DEF Remains
    <3>3. Len(tail) = 1 /\ i = Len(u) + 1
      <4>1. i - Len(u) = 1 /\ 1 \in 1 .. Len(tail)
            BY <3>1, <3>2
      <4> QED BY <1>1, <1>2, <4>1
    <3>4. i = Len(g) /\ i - Len(f) = k
          BY <1>2, <3>3
    <3> QED BY <3>2, <3>4 DEF FromPending
  <2> QED BY <1>2, <2>1, <2>2
<1> QED BY <1>4, <1>5, <1>6 DEF Kept, Added

LEMMA FlushOutcome ==
    ASSUME NEW io \in Ios, io.ok, NEW x \in FlushPending(io)
    PROVE  x \in Ios /\ \E k : Flushes(io, x, k)
<1> DEFINE L == Lines \cup { Torn }
<1>1. /\ io.file \in Seq(L) /\ io.pending \in Seq(L) /\ io.pending \in Seq(Lines)
      /\ io.synced \in Nat /\ io.synced <= Len(io.file) /\ Len(io.pending) \in Nat
      BY DEF Ios
<1>2. CASE x = [io EXCEPT !.file = @ \o io.pending, !.pending = <<>>]
  <2>1. /\ x.file = io.file \o io.pending /\ x.pending = <<>>
        /\ x.ok = io.ok /\ x.synced = io.synced
        BY <1>2 DEF Ios
  <2> HIDE DEF L
  <2>2. x.file \in Seq(L) /\ Joins(x.file, io.file, io.pending)
        BY <1>1, <2>1, Joined
  <2>3. Len(x.pending) = 0
        BY <2>1
  <2>4. /\ Grown(io.file, x.file) /\ Kept(io.pending, x.file, x.pending)
        /\ Suffix(x.pending, io.pending, Len(io.pending))
        /\ Added(io.file, io.pending, x.file, x.ok)
        BY <2>2, <2>3, FlushedAll
  <2>6. io.synced <= Len(x.file)
        BY <1>1, <2>2, <2>4, SyncedStays
  <2>7. Flushes(io, x, Len(io.pending))
    <3>1. io.synced <= x.synced
          BY <1>1, <2>1
    <3> QED BY <2>1, <2>4, <3>1 DEF Flushes, Follows
  <2>5. x \in Ios
    <3>1. x.pending \in Seq(Lines) /\ x.synced \in Nat /\ x.ok \in BOOLEAN
          BY <2>1 DEF Ios
    <3> QED BY <1>2, <2>1, <2>2, <2>6, <3>1 DEF Ios, L
  <2> QED BY <2>5, <2>7
<1>3. ASSUME NEW k \in 1 .. Len(io.pending), NEW tail \in FailedTails(io.pending[k]),
             x = [io EXCEPT !.file = @ \o SubSeq(io.pending, 1, k - 1) \o tail,
                            !.pending = SubSeq(@, k, Len(@)),
                            !.ok = FALSE]
      PROVE  x \in Ios /\ Flushes(io, x, k - 1)
  <2> DEFINE w == SubSeq(io.pending, 1, k - 1)
             g == io.file \o SubSeq(io.pending, 1, k - 1)
  <2>1. /\ x.file = g \o tail
        /\ x.pending = SubSeq(io.pending, k, Len(io.pending)) /\ x.ok = FALSE /\ x.synced = io.synced
        BY <1>3 DEF Ios
  <2>2. io.pending[k] \in Lines
        BY <1>1
  <2>3. tail \in Seq(L) /\ Remains(tail, io.pending[k])
        BY <2>2, TailFacts
  <2>4. /\ x.pending \in Seq(Lines) /\ Suffix(x.pending, io.pending, k - 1)
        /\ w \in Seq(Lines) /\ Len(w) = k - 1 /\ \A i \in 1 .. k - 1 : w[i] = io.pending[i]
        BY <1>1, <2>1, SplitAt
  <2>5. w \in Seq(L)
        BY <2>4
  <2> HIDE DEF L
  <2>6. g \in Seq(L) /\ Joins(g, io.file, w)
        BY <1>1, <2>5, Joined
  <2> HIDE DEF g, w
  <2>7. x.file \in Seq(L) /\ Joins(x.file, g, tail)
        BY <2>1, <2>3, <2>6, Joined
  <2>8. /\ Grown(io.file, x.file) /\ Kept(io.pending, x.file, x.pending)
        /\ Added(io.file, io.pending, x.file, x.ok)
        BY <1>1, <2>1, <2>3, <2>4, <2>6, <2>7, FlushedSome
  <2>9. io.synced <= Len(x.file)
        BY <1>1, <2>7, <2>8, SyncedStays
  <2>10. Flushes(io, x, k - 1)
        BY <1>1, <2>1, <2>4, <2>8 DEF Flushes, Follows
  <2>11. x \in Ios
        BY <1>1, <1>3, <2>1, <2>4, <2>7, <2>9 DEF Ios, L
  <2> QED BY <2>10, <2>11
<1> QED BY <1>2, <1>3 DEF FlushPending

\* A flush keeps the invariant and drops nothing; one that succeeds leaves nothing pending.
LEMMA FlushKeeps ==
    ASSUME NEW io, NEW n \in Nat \ {0}, IoInv(io, n), io.ok, NEW x \in FlushPending(io)
    PROVE  /\ IoInv(x, n) /\ Follows(io, x) /\ x.synced = io.synced
           /\ x.ok => Len(x.pending) = 0
<1>1. io \in Ios /\ TornInv(io) /\ PairInv(io) /\ IdInv(io, n) /\ OrderInv(io)
      BY DEF IoInv
<1>2. x \in Ios
      BY <1>1, FlushOutcome
<1>3. PICK k : Flushes(io, x, k)
      BY <1>1, FlushOutcome
<1>4. TornInv(x) /\ PairInv(x) /\ IdInv(x, n) /\ OrderInv(x)
      BY <1>1, <1>2, <1>3, FlushKeepsTorn, FlushKeepsPairs, FlushKeepsIds, FlushKeepsOrder
<1>5. Follows(io, x) /\ x.synced = io.synced
      BY <1>3 DEF Flushes
<1>6. Suffix(x.pending, io.pending, k) /\ (x.ok => k = Len(io.pending))
      BY <1>3 DEF Flushes
<1> DEFINE a == Len(io.pending)
           b == Len(x.pending)
<1>7. a \in Nat /\ k \in 0 .. a /\ b = a - k /\ a <= MaxPendingRecords
      BY <1>1, <1>6, IosFacts DEF Suffix, IoInv
<1>8. MaxPendingRecords \in Nat
      BY JournalConstants
<1> HIDE DEF a, b
<1>9. b <= MaxPendingRecords /\ (k = a => b = 0)
      BY <1>7, <1>8
<1> QED BY <1>2, <1>4, <1>5, <1>6, <1>9 DEF IoInv, a, b

\* The lines of the file and the pending ones together.
Size(io) == Len(io.file) + Len(io.pending)

LEMMA SizeNat ==
    ASSUME NEW io \in Ios
    PROVE  Size(io) \in Nat
<1> DEFINE a == Len(io.file)
           b == Len(io.pending)
<1>1. a \in Nat /\ b \in Nat
      BY IosFacts
<1> HIDE DEF a, b
<1>2. a + b \in Nat
      BY <1>1
<1> QED BY <1>2 DEF Size, a, b

\* A flush that succeeds makes the journal no longer.
LEMMA FlushSize ==
    ASSUME NEW io \in Ios, io.ok, NEW x \in FlushPending(io), x.ok
    PROVE  Size(x) <= Size(io) /\ Size(x) \in Nat /\ Size(io) \in Nat
<1>1. x \in Ios
      BY FlushOutcome
<1>2. PICK k : Flushes(io, x, k)
      BY FlushOutcome
<1> DEFINE a == Len(io.file)
           b == Len(io.pending)
           c == Len(x.file)
           d == Len(x.pending)
<1>3. a \in Nat /\ b \in Nat /\ c \in Nat /\ d \in Nat
      BY <1>1, IosFacts
<1>4. d = 0
      BY <1>2, <1>3 DEF Flushes, Suffix
<1>5. c > a => c - a \in 1 .. b
  <2>1. c > a => c \in 1 .. c
        BY <1>3
  <2> QED BY <1>2, <2>1 DEF Flushes, Added, FromPending
<1> HIDE DEF a, b, c, d
<1>6. c + d <= a + b /\ c + d \in Nat /\ a + b \in Nat
      BY <1>3, <1>4, <1>5
<1> QED BY <1>6 DEF Size, a, b, c, d

-----------------------------------------------------------------------------
(* One line written after the file's. *)

Wrote(f, g, r, ok) ==
    /\ Grown(f, g)
    /\ Len(g) = Len(f) \/ Len(g) = Len(f) + 1
    /\ Len(g) = Len(f) + 1 => g[Len(g)] = r \/ (g[Len(g)] = Torn /\ ~ok)
    /\ ok => Len(g) = Len(f) + 1

LEMMA WroteLine ==
    ASSUME NEW S, NEW f \in Seq(S), NEW g \in Seq(S), NEW r, NEW ok, Wrote(f, g, r, ok),
           NEW i \in 1 .. Len(g)
    PROVE  \/ i \in 1 .. Len(f) /\ g[i] = f[i]
           \/ i = Len(g) /\ i = Len(f) + 1 /\ (g[i] = r \/ (g[i] = Torn /\ ~ok))
<1>1. Len(f) \in Nat /\ Len(g) \in Nat
      OBVIOUS
<1>2. CASE i <= Len(f)
      BY <1>1, <1>2 DEF Wrote, Grown
<1>3. CASE i > Len(f)
  <2>1. i = Len(g) /\ i = Len(f) + 1
        BY <1>1, <1>3 DEF Wrote
  <2> QED BY <2>1 DEF Wrote
<1> QED BY <1>1, <1>2, <1>3

LEMMA WroteTail ==
    ASSUME NEW f, NEW g, NEW tail, NEW r, Joins(g, f, tail), Remains(tail, r)
    PROVE  Wrote(f, g, r, FALSE)
<1>1. Len(f) \in Nat /\ Len(g) \in Nat /\ Len(g) = Len(f) + Len(tail) /\ Grown(f, g)
      BY DEF Joins
<1>2. Len(tail) = 0 \/ Len(tail) = 1
      BY DEF Remains
<1>3. ASSUME Len(g) = Len(f) + 1
      PROVE  g[Len(g)] = r \/ g[Len(g)] = Torn
  <2>1. Len(g) \in 1 .. Len(g) /\ Len(g) > Len(f) /\ Len(g) - Len(f) = 1
        BY <1>1, <1>3
  <2>2. Len(g) - Len(f) \in 1 .. Len(tail) /\ g[Len(g)] = tail[Len(g) - Len(f)]
        BY <2>1 DEF Joins
  <2>3. 1 \in 1 .. Len(tail) /\ g[Len(g)] = tail[1]
        BY <2>1, <2>2
  <2> QED BY <2>3 DEF Remains
<1>4. CASE Len(tail) = 0
  <2>1. Len(g) = Len(f)
        BY <1>1, <1>4
  <2> QED BY <1>1, <1>3, <2>1 DEF Wrote
<1>5. CASE Len(tail) = 1
  <2>1. Len(g) = Len(f) + 1
        BY <1>1, <1>5
  <2> QED BY <1>1, <1>3, <2>1 DEF Wrote
<1> QED BY <1>2, <1>4, <1>5

\* What WriteLineToPinnedFileLocked can leave.
LEMMA WriteOutcome ==
    ASSUME NEW io \in Ios, io.ok, NEW r \in Lines, NEW durable \in BOOLEAN,
           NEW x \in WriteLineToPinnedFileLocked(io, r, durable)
    PROVE  /\ x \in Ios /\ Wrote(io.file, x.file, r, x.ok) /\ x.pending = io.pending
           /\ io.synced <= x.synced
           /\ x.ok /\ durable => x.synced = Len(x.file)
<1> DEFINE L == Lines \cup { Torn }
<1>1. /\ io.file \in Seq(L) /\ io.synced \in Nat /\ io.synced <= Len(io.file) /\ Len(io.file) \in Nat
      /\ r \in L /\ io.pending \in Seq(Lines)
      BY DEF Ios
<1>2. CASE x = [io EXCEPT !.file = Append(@, r), !.synced = IF durable THEN Len(io.file) + 1 ELSE @]
  <2>1. /\ x.file = Append(io.file, r) /\ x.pending = io.pending /\ x.ok = TRUE
        /\ x.synced = IF durable THEN Len(io.file) + 1 ELSE io.synced
        BY <1>2 DEF Ios
  <2>2. /\ Append(io.file, r) \in Seq(L) /\ Len(Append(io.file, r)) = Len(io.file) + 1
        /\ \A i \in 1 .. Len(io.file) : Append(io.file, r)[i] = io.file[i]
        /\ Append(io.file, r)[Len(io.file) + 1] = r
        BY <1>1
  <2>3. Wrote(io.file, x.file, r, TRUE)
        BY <1>1, <2>1, <2>2 DEF Wrote, Grown
  <2>4. /\ x.synced \in Nat /\ io.synced <= x.synced /\ x.synced <= Len(x.file)
        /\ durable => x.synced = Len(x.file)
        BY <1>1, <2>1, <2>2
  <2>5. x \in Ios
        BY <1>1, <1>2, <2>1, <2>2, <2>4 DEF Ios
  <2>6. Wrote(io.file, x.file, r, x.ok)
        BY <2>1, <2>3
  <2> QED BY <2>1, <2>4, <2>5, <2>6
<1>3. ASSUME NEW tail \in FailedTails(r), x = [io EXCEPT !.file = @ \o tail, !.ok = FALSE]
      PROVE  /\ x \in Ios /\ Wrote(io.file, x.file, r, FALSE) /\ x.pending = io.pending /\ ~x.ok
             /\ io.synced <= x.synced
  <2>1. x.file = io.file \o tail /\ x.pending = io.pending /\ x.ok = FALSE /\ x.synced = io.synced
        BY <1>3 DEF Ios
  <2>2. tail \in Seq(L) /\ Remains(tail, r)
        BY TailFacts
  <2> HIDE DEF L
  <2>3. x.file \in Seq(L) /\ Joins(x.file, io.file, tail)
        BY <1>1, <2>1, <2>2, Joined
  <2>4. Wrote(io.file, x.file, r, FALSE)
        BY <1>1, <2>2, <2>3, WroteTail
  <2>5. io.synced <= Len(x.file)
        BY <1>1, <2>3, <2>4, SyncedStays DEF Wrote
  <2>6. x \in Ios
        BY <1>1, <1>3, <2>1, <2>3, <2>5 DEF Ios, L
  <2>7. io.synced <= x.synced
        BY <1>1, <2>1
  <2> QED BY <2>1, <2>4, <2>6, <2>7
<1>4. Wrote(io.file, x.file, r, FALSE) /\ ~x.ok => Wrote(io.file, x.file, r, x.ok)
      BY DEF Wrote
<1> QED BY <1>2, <1>3, <1>4 DEF WriteLineToPinnedFileLocked

\* When a line may be written after io's: a send attempt right after its intent, and
\* past pending lines only as a critical one under an asynchronous queue.
MayWrite(io, r) ==
    /\ r.type = "place_send_attempt" =>
          /\ Len(io.file) > 0
          /\ io.file[Len(io.file)] = [id |-> r.id - 1, type |-> "order_intent"]
    /\ SyncCritical /\ Len(io.pending) > 0 =>
          AsyncEnabled /\ ~CriticalFlushQueued /\ IsCriticalEventType(r.type)

\* A line of g is one of f, or the last, which is r or its fragment.
Placed(f, g, r, ok, i) ==
    \/ i \in 1 .. Len(f) /\ g[i] = f[i]
    \/ i = Len(g) /\ i = Len(f) + 1 /\ (g[i] = r \/ (g[i] = Torn /\ ~ok))

LEMMA WroteIos ==
    ASSUME NEW io \in Ios, NEW x \in Ios, NEW r, Wrote(io.file, x.file, r, x.ok),
           NEW i \in 1 .. Len(x.file)
    PROVE  Placed(io.file, x.file, r, x.ok, i)
<1>1. io.file \in Seq(Lines \cup { Torn }) /\ x.file \in Seq(Lines \cup { Torn })
      BY DEF Ios
<1> QED BY <1>1, WroteLine DEF Placed

LEMMA WriteKeepsTorn ==
    ASSUME NEW io \in Ios, NEW x \in Ios, NEW r \in Lines, Wrote(io.file, x.file, r, x.ok),
           TornInv(io), io.ok
    PROVE  TornInv(x)
<1>1. ASSUME NEW i \in 1 .. Len(x.file), x.file[i] = Torn
      PROVE  i = Len(x.file) /\ ~x.ok
  <2>1. CASE i \in 1 .. Len(io.file) /\ x.file[i] = io.file[i]
        BY <1>1, <2>1 DEF TornInv
  <2>2. CASE i = Len(x.file) /\ (x.file[i] = r \/ (x.file[i] = Torn /\ ~x.ok))
        BY <1>1, <2>2, LineFacts
  <2>3. Placed(io.file, x.file, r, x.ok, i)
        BY WroteIos
  <2> QED BY <2>1, <2>2, <2>3 DEF Placed
<1> QED BY <1>1 DEF TornInv

LEMMA WriteKeepsPairs ==
    ASSUME NEW io \in Ios, NEW x \in Ios, NEW r \in Lines, Wrote(io.file, x.file, r, x.ok),
           x.pending = io.pending, MayWrite(io, r), PairInv(io)
    PROVE  PairInv(x)
<1>1. Len(io.file) \in Nat
      BY IosFacts
<1>2. ASSUME NEW i \in 1 .. Len(x.file), x.file[i].type = "place_send_attempt"
      PROVE  i > 1 /\ x.file[i - 1] = [id |-> x.file[i].id - 1, type |-> "order_intent"]
  <2>1. CASE i \in 1 .. Len(io.file) /\ x.file[i] = io.file[i]
    <3>1. i > 1 /\ io.file[i - 1] = [id |-> io.file[i].id - 1, type |-> "order_intent"]
          BY <1>2, <2>1 DEF PairInv
    <3>2. i - 1 \in 1 .. Len(io.file)
          BY <1>1, <2>1, <3>1
    <3>3. x.file[i - 1] = io.file[i - 1]
          BY <3>2 DEF Wrote, Grown
    <3> QED BY <2>1, <3>1, <3>3
  <2>2. CASE i = Len(io.file) + 1 /\ (x.file[i] = r \/ x.file[i] = Torn)
    <3>1. x.file[i] = r /\ r.type = "place_send_attempt"
          BY <1>2, <2>2, TornFacts
    <3>2. Len(io.file) > 0 /\ io.file[Len(io.file)] = [id |-> r.id - 1, type |-> "order_intent"]
          BY <3>1 DEF MayWrite
    <3>3. i > 1 /\ i - 1 = Len(io.file) /\ i - 1 \in 1 .. Len(io.file)
          BY <1>1, <2>2, <3>2
    <3>4. x.file[i - 1] = io.file[i - 1]
          BY <3>3 DEF Wrote, Grown
    <3> QED BY <3>1, <3>2, <3>3, <3>4
  <2> QED BY <2>1, <2>2, WroteIos DEF Placed
<1> QED BY <1>2 DEF PairInv

LEMMA WriteKeepsIds ==
    ASSUME NEW io \in Ios, NEW x \in Ios, NEW r \in Lines, Wrote(io.file, x.file, r, x.ok),
           x.pending = io.pending, NEW n \in Nat, r.id = n, IdInv(io, n)
    PROVE  IdInv(x, n + 1)
<1>1. ASSUME NEW i \in 1 .. Len(x.file)
      PROVE  x.file[i].id < n + 1
  <2>1. CASE i \in 1 .. Len(io.file) /\ x.file[i] = io.file[i]
    <3>1. io.file[i] \in Lines \cup { Torn }
          BY <2>1, IosFacts
    <3>2. io.file[i].id \in Nat
          BY <3>1, LineFacts, TornFacts
    <3>3. io.file[i].id < n
          BY <2>1 DEF IdInv
    <3> QED BY <2>1, <3>2, <3>3
  <2>2. CASE x.file[i] = r \/ x.file[i] = Torn
        BY <2>2, TornFacts
  <2>3. Placed(io.file, x.file, r, x.ok, i)
        BY WroteIos
  <2> QED BY <2>1, <2>2, <2>3 DEF Placed
<1>2. ASSUME NEW i \in 1 .. Len(x.pending)
      PROVE  x.pending[i].id < n + 1
  <2>1. io.pending[i].id \in Nat /\ io.pending[i].id < n
        BY IosFacts, LineFacts DEF IdInv
  <2> QED BY <2>1
<1> QED BY <1>1, <1>2 DEF IdInv

LEMMA WriteKeepsOrder ==
    ASSUME NEW io \in Ios, NEW x \in Ios, NEW r \in Lines, Wrote(io.file, x.file, r, x.ok),
           x.pending = io.pending, MayWrite(io, r), NEW n \in Nat, r.id = n, IdInv(io, n),
           OrderInv(io), io.ok
    PROVE  OrderInv(x)
<1> SUFFICES ASSUME SyncCritical
             PROVE  OrderInv(x)
    BY DEF OrderInv
<1>1. Len(io.file) \in Nat
      BY IosFacts
<1>2. ASSUME NEW i \in 1 .. Len(io.file)
      PROVE  InOrder(io.file[i], r)
      BY DEF IdInv, InOrder
<1>3. ASSUME NEW i \in 1 .. Len(x.file), NEW j \in 1 .. Len(x.file), i < j,
             x.file[i] # Torn, x.file[j] # Torn
      PROVE  InOrder(x.file[i], x.file[j])
  <2>1. CASE j \in 1 .. Len(io.file) /\ x.file[j] = io.file[j]
    <3>1. i \in 1 .. Len(io.file)
          BY <1>1, <1>3, <2>1
    <3>2. x.file[i] = io.file[i]
          BY <3>1 DEF Wrote, Grown
    <3> QED BY <1>3, <2>1, <3>1, <3>2 DEF OrderInv
  <2>2. CASE j = Len(io.file) + 1 /\ (x.file[j] = r \/ x.file[j] = Torn)
    <3>1. i \in 1 .. Len(io.file)
          BY <1>1, <1>3, <2>2
    <3>2. x.file[i] = io.file[i]
          BY <3>1 DEF Wrote, Grown
    <3> QED BY <1>2, <1>3, <2>2, <3>1, <3>2
  <2>3. Placed(io.file, x.file, r, x.ok, j)
        BY WroteIos
  <2> QED BY <2>1, <2>2, <2>3 DEF Placed
<1>4. ASSUME NEW i \in 1 .. Len(x.file), NEW j \in 1 .. Len(x.pending), x.ok
      PROVE  InOrder(x.file[i], x.pending[j])
  <2>1. CASE i \in 1 .. Len(io.file) /\ x.file[i] = io.file[i]
        BY <2>1 DEF OrderInv
  <2>2. CASE x.file[i] = r
    <3>1. Len(io.pending) > 0 /\ j \in 1 .. Len(io.pending)
          BY IosFacts
    <3>2. AsyncEnabled /\ ~CriticalFlushQueued /\ IsCriticalEventType(r.type)
          BY <3>1 DEF MayWrite
    <3>3. ~IsCriticalEventType(io.pending[j].type)
          BY <3>1 DEF OrderInv
    <3>4. io.pending[j].id \in Nat /\ io.pending[j].id < n
          BY <3>1, IosFacts, LineFacts DEF IdInv
    <3>5. r.id # io.pending[j].id
          BY <3>4
    <3> QED BY <2>2, <3>2, <3>3, <3>5 DEF InOrder
  <2>3. Placed(io.file, x.file, r, x.ok, i)
        BY WroteIos
  <2> QED BY <1>4, <2>1, <2>2, <2>3 DEF Placed
<1> QED BY <1>3, <1>4 DEF OrderInv

\* Writing line n keeps the invariant for n + 1.
LEMMA WriteKeeps ==
    ASSUME NEW io, NEW n \in Nat, IoInv(io, n), io.ok, NEW r \in Lines, r.id = n, MayWrite(io, r),
           NEW durable \in BOOLEAN, NEW x \in WriteLineToPinnedFileLocked(io, r, durable)
    PROVE  /\ IoInv(x, n + 1) /\ Follows(io, x) /\ Wrote(io.file, x.file, r, x.ok)
           /\ x.pending = io.pending
           /\ x.ok /\ durable => x.synced = Len(x.file)
<1>1. io \in Ios /\ TornInv(io) /\ PairInv(io) /\ IdInv(io, n) /\ OrderInv(io)
      BY DEF IoInv
<1>2. /\ x \in Ios /\ Wrote(io.file, x.file, r, x.ok) /\ x.pending = io.pending
      /\ io.synced <= x.synced
      /\ x.ok /\ durable => x.synced = Len(x.file)
      BY <1>1, WriteOutcome
<1>3. TornInv(x) /\ PairInv(x)
      BY <1>1, <1>2, WriteKeepsTorn, WriteKeepsPairs
<1>4. IdInv(x, n + 1)
      BY <1>1, <1>2, WriteKeepsIds
<1>5. OrderInv(x)
      BY <1>1, <1>2, WriteKeepsOrder
<1>6. Follows(io, x)
      BY <1>2 DEF Follows, Wrote, Kept, Has
<1> QED BY <1>2, <1>3, <1>4, <1>5, <1>6 DEF IoInv

-----------------------------------------------------------------------------
(* Accepting a line, syncing, poisoning. *)

LEMMA OneMore ==
    ASSUME NEW m \in Nat, NEW i \in 1 .. (m + 1), i # m + 1
    PROVE  i \in 1 .. m
OBVIOUS

LEMMA QueueKeeps ==
    ASSUME NEW io, NEW n \in Nat, IoInv(io, n), io.ok, Len(io.pending) < MaxPendingRecords,
           NEW r \in Lines, r.id = n, r.type # "place_send_attempt",
           SyncCritical => ~IsCriticalEventType(r.type),
           NEW x, x = QueueLineLocked(io, r)
    PROVE  IoInv(x, n + 1) /\ Follows(io, x) /\ x.ok
<1>1. io \in Ios /\ TornInv(io) /\ PairInv(io) /\ IdInv(io, n) /\ OrderInv(io)
      BY DEF IoInv
<1>2. /\ x.file = io.file /\ x.synced = io.synced /\ x.ok = io.ok
      /\ x.pending = Append(io.pending, r)
      BY <1>1 DEF Ios, QueueLineLocked
<1>3. x \in Ios
  <2>1. Append(io.pending, r) \in Seq(Lines)
        BY <1>1 DEF Ios
  <2> QED BY <1>1, <1>2, <2>1 DEF Ios, QueueLineLocked
<1> DEFINE p == io.pending
           q == x.pending
<1>4. /\ p \in Seq(Lines) /\ q \in Seq(Lines) /\ q = Append(p, r) /\ io.synced \in Nat /\ Len(io.file) \in Nat
      BY <1>1, <1>2, <1>3 DEF Ios
<1> HIDE DEF p, q
<1>5. /\ Len(p) \in Nat /\ Len(q) = Len(p) + 1 /\ q[Len(p) + 1] = r
      /\ \A i \in 1 .. Len(p) : q[i] = p[i]
      BY <1>4, AppendProperties
<1>6. \A i \in 1 .. Len(q) : (i \in 1 .. Len(p) /\ q[i] = p[i]) \/ (i = Len(p) + 1 /\ q[i] = r)
      BY <1>5, OneMore
<1>7. TornInv(x)
      BY <1>1, <1>2 DEF TornInv
<1>8. \A i \in 1 .. Len(q) : q[i].type # "place_send_attempt"
      BY <1>1, <1>6 DEF PairInv, p
<1>9. PairInv(x)
      BY <1>1, <1>2, <1>8 DEF PairInv, q
<1>10. \A i \in 1 .. Len(p) : p[i].id \in Nat /\ p[i].id < n
       BY <1>1, IosFacts, LineFacts DEF IdInv, p
<1>11. \A i \in 1 .. Len(q) : q[i].id < n + 1
       BY <1>6, <1>10
<1>12. \A i \in 1 .. Len(io.file) : io.file[i].id < n + 1 /\ io.file[i].id < n
  <2>1. ASSUME NEW i \in 1 .. Len(io.file)
        PROVE  io.file[i].id < n + 1 /\ io.file[i].id < n
    <3>1. io.file[i] \in Lines \cup { Torn }
          BY <1>1, IosFacts
    <3>2. io.file[i].id \in Nat
          BY <3>1, LineFacts, TornFacts
    <3>3. io.file[i].id < n
          BY <1>1 DEF IdInv
    <3> QED BY <3>2, <3>3
  <2> QED BY <2>1
<1>13. IdInv(x, n + 1)
       BY <1>2, <1>11, <1>12 DEF IdInv, q
<1>14. OrderInv(x)
  <2> SUFFICES ASSUME SyncCritical
               PROVE  OrderInv(x)
      BY DEF OrderInv
  <2>1. \A i \in 1 .. Len(q) : ~IsCriticalEventType(q[i].type)
        BY <1>1, <1>6 DEF OrderInv, p
  <2>2. ASSUME NEW i \in 1 .. Len(q), NEW j \in 1 .. Len(q), i < j
        PROVE  q[i].id < q[j].id
    <3>1. i \in 1 .. Len(p) /\ q[i] = p[i]
          BY <1>5, <2>2
    <3>2. CASE j \in 1 .. Len(p) /\ q[j] = p[j]
          BY <1>1, <2>2, <3>1, <3>2 DEF OrderInv, p
    <3>3. CASE q[j] = r
          BY <1>10, <3>1, <3>3
    <3> QED BY <1>6, <3>2, <3>3
  <2>3. ASSUME NEW i \in 1 .. Len(io.file), NEW j \in 1 .. Len(q)
        PROVE  InOrder(io.file[i], q[j])
    <3>1. CASE j \in 1 .. Len(p) /\ q[j] = p[j]
          BY <1>1, <3>1 DEF OrderInv, p
    <3>2. CASE q[j] = r
          BY <1>12, <3>2 DEF InOrder
    <3> QED BY <1>6, <3>1, <3>2
  <2>4. \A i, j \in 1 .. Len(io.file) :
           i < j /\ io.file[i] # Torn /\ io.file[j] # Torn => InOrder(io.file[i], io.file[j])
        BY <1>1 DEF OrderInv
  <2> QED BY <1>2, <2>1, <2>2, <2>3, <2>4 DEF OrderInv, q
<1>15. Len(q) <= MaxPendingRecords
  <2>1. MaxPendingRecords \in Nat /\ Len(p) < MaxPendingRecords
        BY JournalConstants DEF p
  <2> QED BY <1>5, <2>1
<1>16. Kept(p, x.file, q)
       BY <1>5 DEF Kept, Has
<1>17. Grown(io.file, x.file) /\ io.synced <= x.synced
       BY <1>2, <1>4 DEF Grown
<1> QED BY <1>2, <1>3, <1>7, <1>9, <1>13, <1>14, <1>15, <1>16, <1>17 DEF IoInv, Follows, p, q

\* A sync marks the whole file; a failed one poisons.
LEMMA SyncKeeps ==
    ASSUME NEW io, NEW n, IoInv(io, n), NEW x, x = [io EXCEPT !.synced = Len(io.file)]
    PROVE  IoInv(x, n) /\ Follows(io, x) /\ x.ok = io.ok /\ x.file = io.file /\ x.pending = io.pending
<1>1. io \in Ios
      BY DEF IoInv
<1>2. /\ x.file = io.file /\ x.pending = io.pending /\ x.ok = io.ok /\ x.synced = Len(io.file)
      BY <1>1 DEF Ios
<1>3. x \in Ios /\ io.synced <= x.synced
      BY <1>1, <1>2 DEF Ios
<1>4. TornInv(x) /\ PairInv(x) /\ IdInv(x, n) /\ OrderInv(x) /\ Len(x.pending) <= MaxPendingRecords
      BY <1>2 DEF IoInv, TornInv, PairInv, IdInv, OrderInv
<1>5. Grown(io.file, x.file) /\ Kept(io.pending, x.file, x.pending)
      BY <1>1, <1>2, IosFacts DEF Grown, Kept, Has
<1> QED BY <1>2, <1>3, <1>4, <1>5 DEF IoInv, Follows

LEMMA PoisonKeeps ==
    ASSUME NEW io, NEW n, IoInv(io, n), NEW x, x = [io EXCEPT !.ok = FALSE]
    PROVE  /\ IoInv(x, n) /\ Follows(io, x)
           /\ x.ok = FALSE /\ x.file = io.file /\ x.pending = io.pending /\ x.synced = io.synced
<1>1. io \in Ios
      BY DEF IoInv
<1>2. /\ x.file = io.file /\ x.pending = io.pending /\ x.ok = FALSE /\ x.synced = io.synced
      BY <1>1 DEF Ios
<1>3. x \in Ios /\ io.synced <= x.synced
  <2>1. x \in [file : Seq(Lines \cup { Torn }), synced : Nat, pending : Seq(Lines), ok : BOOLEAN]
        BY <1>1 DEF Ios
  <2>2. io.synced <= Len(io.file) /\ io.synced \in Nat
        BY <1>1, IosFacts
  <2>3. x.synced <= Len(x.file)
        BY <1>2, <2>2
  <2>4. io.synced <= x.synced
        BY <1>2, <2>2
  <2> QED BY <2>1, <2>3, <2>4 DEF Ios
<1>4. TornInv(x) /\ PairInv(x) /\ IdInv(x, n) /\ OrderInv(x) /\ Len(x.pending) <= MaxPendingRecords
      BY <1>2 DEF IoInv, TornInv, PairInv, IdInv, OrderInv
<1>5. Grown(io.file, x.file) /\ Kept(io.pending, x.file, x.pending)
      BY <1>1, <1>2, IosFacts DEF Grown, Kept, Has
<1> QED BY <1>2, <1>3, <1>4, <1>5 DEF IoInv, Follows

\* Line numbers only grow.
LEMMA LaterLine ==
    ASSUME NEW io, NEW n \in Nat, NEW m \in Nat, n <= m, IoInv(io, n)
    PROVE  IoInv(io, m)
<1>1. ASSUME NEW r \in Lines \cup { Torn }, r.id < n
      PROVE  r.id < m
  <2>1. r.id \in Nat
        BY LineFacts, TornFacts
  <2> QED BY <1>1, <2>1
<1>2. io \in Ios /\ IdInv(io, n)
      BY DEF IoInv
<1>3. IdInv(io, m)
      BY <1>1, <1>2, IosFacts DEF IdInv
<1> QED BY <1>3 DEF IoInv

-----------------------------------------------------------------------------
(* The inductive invariant of the state. *)

\* The state as an outcome: a journal that is closed or poisoned writes nothing.
Current == [file |-> file, synced |-> synced, pending |-> pending, ok |-> open /\ ~poisoned]

\* Every acknowledged critical line is among the first k of f.
Holds(f, k, r) == \E i \in 1 .. k : f[i] = r
Durable(f, k, A) == SyncCritical => \A r \in A : IsCriticalEventType(r.type) => Holds(f, k, r)

IInv == TypeOK /\ IoInv(Current, next) /\ Durable(file, synced, acked)

\* The invariant of an outcome does not change while the settings do not.
LEMMA IoInvPrime ==
    ASSUME config' = config, NEW x, NEW n, IoInv(x, n)
    PROVE  IoInv(x, n)'
<1>1. OrderInv(x)'
      BY DEF IoInv, OrderInv, InOrder, SyncCritical, AsyncEnabled, CriticalFlushQueued
<1> QED BY <1>1 DEF IoInv, TornInv, PairInv, IdInv, Ios

\* A state that holds the outcome x is safe.
LEMMA StateStep ==
    ASSUME config' = config, config \in Configs, NEW x, NEW n, IoInv(x, n),
           next' = n, next' \in 1 .. MaxAppends + 1,
           file' = x.file, synced' = x.synced, pending' = x.pending,
           (open' /\ ~poisoned') = x.ok,
           open' \in BOOLEAN, poisoned' \in BOOLEAN, capacityKnown' \in BOOLEAN,
           acked' \subseteq Lines, Durable(x.file, x.synced, acked')
    PROVE  IInv'
<1>1. x \in Ios
      BY DEF IoInv
<1>2. Current' = x
      BY <1>1 DEF Ios, Current
<1>3. IoInv(Current, next)'
      BY <1>2, IoInvPrime
<1>4. TypeOK'
      BY <1>1 DEF TypeOK, Ios
<1>5. Durable(file, synced, acked)'
      BY DEF Durable, SyncCritical, Holds
<1> QED BY <1>3, <1>4, <1>5 DEF IInv

\* What is durable stays durable while the file grows.
LEMMA DurableStays ==
    ASSUME NEW io \in Ios, NEW x \in Ios, Follows(io, x), NEW A, Durable(io.file, io.synced, A)
    PROVE  Durable(x.file, x.synced, A)
<1>1. ASSUME NEW r, Holds(io.file, io.synced, r)
      PROVE  Holds(x.file, x.synced, r)
  <2>1. PICK i \in 1 .. io.synced : io.file[i] = r
        BY <1>1 DEF Holds
  <2>2. /\ io.synced \in Nat /\ x.synced \in Nat /\ io.synced <= x.synced
        /\ Len(io.file) \in Nat /\ io.synced <= Len(io.file) /\ Grown(io.file, x.file)
        BY IosFacts DEF Follows
  <2>3. i \in 1 .. x.synced /\ i \in 1 .. Len(io.file)
        BY <2>2
  <2>4. x.file[i] = r
        BY <2>1, <2>2, <2>3 DEF Grown
  <2> QED BY <2>3, <2>4 DEF Holds
<1> QED BY <1>1 DEF Durable

LEMMA IoHolds ==
    ASSUME IInv, open, ~poisoned
    PROVE  /\ IoInv(Io, next) /\ Io.ok /\ Io \in Ios /\ next \in Nat \ {0}
           /\ Io.file = file /\ Io.pending = pending /\ Io.synced = synced
           /\ Durable(Io.file, Io.synced, acked)
<1>1. Current = Io
      BY DEF Current, Io
<1>2. next \in Nat \ {0}
      BY DEF IInv, TypeOK
<1> QED BY <1>1, <1>2 DEF IInv, IoInv, Io

\* An operation that writes from Io and acknowledges the lines R.
Good(x, n, R) ==
    /\ IoInv(x, n) /\ Follows(Io, x)
    /\ x.ok => Durable(x.file, x.synced, R)

LEMMA GoodStep ==
    ASSUME IInv, open, ~poisoned, config' = config, open' = open,
           NEW x, NEW R, R \subseteq Lines, Good(x, next', R), Commit(x),
           acked' = IF x.ok THEN acked \cup R ELSE acked,
           next' \in 1 .. MaxAppends + 1, capacityKnown' \in BOOLEAN
    PROVE  IInv'
<1>1. /\ IoInv(Io, next) /\ Io \in Ios /\ Durable(Io.file, Io.synced, acked)
      BY IoHolds
<1>2. IoInv(x, next') /\ Follows(Io, x) /\ x \in Ios
      BY DEF Good, IoInv
<1>3. Durable(x.file, x.synced, acked)
      BY <1>1, <1>2, DurableStays
<1>4. Durable(x.file, x.synced, acked')
  <2>1. CASE x.ok
        BY <1>3, <2>1 DEF Good, Durable
  <2>2. CASE ~x.ok
        BY <1>3, <2>2
  <2> QED BY <2>1, <2>2
<1>5. acked' \subseteq Lines /\ config \in Configs
      BY DEF IInv, TypeOK
<1>6. /\ file' = x.file /\ synced' = x.synced /\ pending' = x.pending /\ poisoned' = ~x.ok
      BY DEF Commit
<1>7. x.ok \in BOOLEAN
      BY <1>2, IosFacts
<1>8. (open' /\ ~poisoned') = x.ok /\ open' \in BOOLEAN /\ poisoned' \in BOOLEAN
      BY <1>6, <1>7 DEF IInv, TypeOK
<1> QED BY <1>2, <1>4, <1>5, <1>6, <1>8, StateStep

-----------------------------------------------------------------------------
(* The appends. *)

\* A line written with a sync is durable.
LEMMA WroteHolds ==
    ASSUME NEW io \in Ios, NEW x \in Ios, NEW r, Wrote(io.file, x.file, r, x.ok), x.ok,
           x.synced = Len(x.file)
    PROVE  Holds(x.file, x.synced, r)
<1>1. Len(io.file) \in Nat /\ Len(x.file) \in Nat
      BY IosFacts
<1>2. Len(x.file) = Len(io.file) + 1 /\ x.file[Len(x.file)] = r
      BY DEF Wrote
<1>3. Len(x.file) \in 1 .. Len(x.file)
      BY <1>1, <1>2
<1> QED BY <1>2, <1>3 DEF Holds

\* The lines Append and AppendDurablePair make.
LEMMA NewLine ==
    ASSUME NEW n \in 1 .. MaxAppends, NEW t \in EventTypes, NEW r, r = [id |-> n, type |-> t]
    PROVE  r \in Lines /\ r.id = n /\ r.type = t /\ r.type # "place_send_attempt"
BY JournalConstants DEF Lines

LEMMA PairLines ==
    ASSUME NEW n \in 1 .. MaxAppends, NEW r, NEW t \in { "order_intent", "place_send_attempt" },
           r = [id |-> n, type |-> t]
    PROVE  r \in Lines /\ r.id = n /\ r.type = t /\ IsCriticalEventType(r.type)
BY DEF Lines, IsCriticalEventType, CriticalEventTypes

\* Where an append that syncs starts writing: at once past an asynchronous queue, or
\* after a flush.
Ready(y) ==
    /\ IoInv(y, next) /\ Follows(Io, y)
    /\ y.ok /\ Len(y.pending) > 0 => AsyncEnabled /\ ~CriticalFlushQueued
    /\ y.ok => Size(y) <= Size(Io)

LEMMA FlushedReady ==
    ASSUME IInv, open, ~poisoned,
           NEW y \in IF AsyncEnabled /\ ~CriticalFlushQueued THEN { Io } ELSE FlushPending(Io)
    PROVE  Ready(y)
<1>1. IoInv(Io, next) /\ Io.ok /\ Io \in Ios /\ next \in Nat \ {0}
      BY IoHolds
<1>2. CASE AsyncEnabled /\ ~CriticalFlushQueued
  <2>1. Size(Io) \in Nat
        BY <1>1, SizeNat
  <2>2. y = Io /\ Size(y) <= Size(Io)
        BY <1>2, <2>1
  <2> QED BY <1>1, <1>2, <2>2, FollowsRefl DEF Ready
<1>3. CASE ~(AsyncEnabled /\ ~CriticalFlushQueued)
  <2>1. y \in FlushPending(Io)
        BY <1>3
  <2>2. IoInv(y, next) /\ Follows(Io, y) /\ (y.ok => Len(y.pending) = 0)
        BY <1>1, <2>1, FlushKeeps
  <2>3. y.ok => Size(y) <= Size(Io)
        BY <1>1, <2>1, FlushSize
  <2>4. y.ok => ~(Len(y.pending) > 0)
        BY <2>2
  <2> QED BY <2>2, <2>3, <2>4 DEF Ready
<1> QED BY <1>2, <1>3

LEMMA CriticalOutcome ==
    ASSUME IInv, open, ~poisoned, next <= MaxAppends, NEW t \in EventTypes, SyncCritical,
           IsCriticalEventType(t), NEW r, r = [id |-> next, type |-> t], NEW x \in AppendCriticalSync(r)
    PROVE  Good(x, next + 1, { r })
<1>1. IoInv(Io, next) /\ Io.ok /\ Io \in Ios /\ next \in Nat \ {0}
      BY IoHolds
<1>2. r \in Lines /\ r.id = next /\ r.type = t /\ r.type # "place_send_attempt"
      BY <1>1, NewLine
<1>3. ASSUME NEW y, Ready(y), ~y.ok
      PROVE  Good(y, next + 1, { r })
  <2>1. IoInv(y, next + 1)
        BY <1>1, <1>3, LaterLine DEF Ready
  <2> QED BY <1>3, <2>1 DEF Good, Ready
<1>4. ASSUME NEW y, Ready(y), y.ok, NEW z \in WriteLineToPinnedFileLocked(y, r, TRUE)
      PROVE  Good(z, next + 1, { r })
  <2>1. IoInv(y, next) /\ Follows(Io, y) /\ MayWrite(y, r)
        BY <1>2, <1>4 DEF Ready, MayWrite
  <2>2. /\ IoInv(z, next + 1) /\ Follows(y, z) /\ Wrote(y.file, z.file, r, z.ok)
        /\ z.ok => z.synced = Len(z.file)
        BY <1>1, <1>2, <1>4, <2>1, WriteKeeps
  <2>3. y \in Ios /\ z \in Ios
        BY <2>1, <2>2 DEF IoInv
  <2>4. Follows(Io, z)
        BY <1>1, <2>1, <2>2, <2>3, FollowsTrans
  <2>5. z.ok => Holds(z.file, z.synced, r)
        BY <2>2, <2>3, WroteHolds
  <2> QED BY <2>2, <2>4, <2>5 DEF Good, Durable
<1>5. \A y \in IF AsyncEnabled /\ ~CriticalFlushQueued THEN { Io } ELSE FlushPending(Io) : Ready(y)
      BY FlushedReady
<1> QED BY <1>3, <1>4, <1>5 DEF AppendCriticalSync, Then, Continues

LEMMA BufferedOutcome ==
    ASSUME IInv, open, ~poisoned, next <= MaxAppends, NEW t \in EventTypes, CanQueue,
           ~(IsCriticalEventType(t) /\ SyncCritical), NEW r, r = [id |-> next, type |-> t],
           NEW flush, NEW x \in AppendBuffered(r, flush)
    PROVE  Good(x, next + 1, { r })
<1>1. /\ IoInv(Io, next) /\ Io.ok /\ Io \in Ios /\ next \in Nat \ {0} /\ Io.pending = pending
      BY IoHolds
<1>2. r \in Lines /\ r.id = next /\ r.type = t /\ r.type # "place_send_attempt"
      BY <1>1, NewLine
<1> DEFINE y == QueueLineLocked(Io, r)
<1>3. Len(Io.pending) < MaxPendingRecords
      BY <1>1 DEF CanQueue
<1>4. IoInv(y, next + 1) /\ Follows(Io, y) /\ y.ok
      BY <1>1, <1>2, <1>3, QueueKeeps
<1> HIDE DEF y
<1>5. Durable(x.file, x.synced, { r })
      BY <1>2 DEF Durable
<1>6. CASE x = y
      BY <1>4, <1>5, <1>6 DEF Good
<1>7. CASE x \in FlushPending(y)
  <2>1. IoInv(x, next + 1) /\ Follows(y, x)
        BY <1>1, <1>4, <1>7, FlushKeeps
  <2>2. Follows(Io, x)
        BY <1>1, <1>4, <2>1, FollowsTrans DEF IoInv
  <2> QED BY <1>5, <2>1, <2>2 DEF Good
<1> QED BY <1>6, <1>7 DEF AppendBuffered, y

\* The order intent and the send attempt that AppendDurablePair writes.
Intent  == [id |-> next, type |-> "order_intent"]
Attempt == [id |-> next + 1, type |-> "place_send_attempt"]

PairOutcomes ==
    LET Second(io) == WriteLineToPinnedFileLocked(io, Attempt, TRUE)
        First(io)  == Then(WriteLineToPinnedFileLocked(io, Intent, FALSE), Second)
    IN  Then(IF AsyncEnabled /\ ~CriticalFlushQueued THEN { Io } ELSE FlushPending(Io), First)

LEMMA PairOutcome ==
    ASSUME IInv, open, ~poisoned, next + 1 <= MaxAppends, NEW x \in PairOutcomes
    PROVE  Good(x, next + 2, { Intent, Attempt }) /\ (x.ok => Size(x) <= Size(Io) + 2)
<1>1. IoInv(Io, next) /\ Io.ok /\ Io \in Ios /\ next \in Nat \ {0} /\ Size(Io) \in Nat
      BY IoHolds, SizeNat
<1>2. next \in 1 .. MaxAppends /\ next + 1 \in 1 .. MaxAppends
      BY <1>1, JournalConstants
<1>3. /\ Intent \in Lines /\ Intent.id = next /\ Intent.type = "order_intent"
      /\ IsCriticalEventType(Intent.type)
      BY <1>2, PairLines DEF Intent
<1>4. /\ Attempt \in Lines /\ Attempt.id = next + 1 /\ Attempt.type = "place_send_attempt"
      /\ IsCriticalEventType(Attempt.type)
      BY <1>2, PairLines DEF Attempt
<1>5. ASSUME NEW y, Ready(y), ~y.ok
      PROVE  Good(y, next + 2, { Intent, Attempt })
  <2>1. IoInv(y, next + 2)
        BY <1>1, <1>5, LaterLine DEF Ready
  <2> QED BY <1>5, <2>1 DEF Good, Ready
<1>6. ASSUME NEW y, Ready(y), y.ok, NEW z \in WriteLineToPinnedFileLocked(y, Intent, FALSE)
      PROVE  /\ y \in Ios /\ IoInv(z, next + 1) /\ z \in Ios /\ Follows(Io, z)
             /\ Wrote(y.file, z.file, Intent, z.ok) /\ z.pending = y.pending
  <2>1. y \in Ios /\ IoInv(y, next) /\ Follows(Io, y) /\ MayWrite(y, Intent)
        BY <1>3, <1>6 DEF Ready, MayWrite, IoInv
  <2>2. /\ IoInv(z, next + 1) /\ Follows(y, z) /\ Wrote(y.file, z.file, Intent, z.ok)
        /\ z.pending = y.pending
        BY <1>1, <1>3, <1>6, <2>1, WriteKeeps
  <2>3. z \in Ios
        BY <2>2 DEF IoInv
  <2> QED BY <1>1, <2>1, <2>2, <2>3, FollowsTrans
<1>7. ASSUME NEW y, Ready(y), y.ok, NEW z \in WriteLineToPinnedFileLocked(y, Intent, FALSE), ~z.ok
      PROVE  Good(z, next + 2, { Intent, Attempt })
  <2>1. IoInv(z, next + 1) /\ Follows(Io, z)
        BY <1>6, <1>7
  <2>2. IoInv(z, next + 2)
        BY <1>1, <2>1, LaterLine
  <2> QED BY <1>7, <2>1, <2>2 DEF Good
<1>8. ASSUME NEW y, Ready(y), y.ok, NEW z \in WriteLineToPinnedFileLocked(y, Intent, FALSE), z.ok,
             NEW u \in WriteLineToPinnedFileLocked(z, Attempt, TRUE)
      PROVE  Good(u, next + 2, { Intent, Attempt }) /\ (u.ok => Size(u) <= Size(Io) + 2)
  <2>1. /\ y \in Ios /\ IoInv(z, next + 1) /\ z \in Ios /\ Follows(Io, z)
        /\ Wrote(y.file, z.file, Intent, z.ok) /\ z.pending = y.pending
        BY <1>6, <1>8
  <2> DEFINE a == Len(y.file)
             b == Len(z.file)
             c == Len(u.file)
  <2>2. a \in Nat /\ b \in Nat
        BY <2>1, IosFacts
  <2>3. b = a + 1 /\ z.file[Len(z.file)] = Intent
        BY <1>8, <2>1 DEF Wrote
  <2>4. Intent = [id |-> Attempt.id - 1, type |-> "order_intent"]
        BY <1>1, <1>4 DEF Intent
  <2>5. MayWrite(z, Attempt)
    <3>1. Len(z.file) > 0
          BY <2>2, <2>3
    <3>2. Len(z.pending) > 0 => AsyncEnabled /\ ~CriticalFlushQueued
          BY <1>8, <2>1 DEF Ready
    <3> QED BY <1>4, <2>3, <2>4, <3>1, <3>2 DEF MayWrite
  <2>6. /\ IoInv(u, (next + 1) + 1) /\ Follows(z, u) /\ Wrote(z.file, u.file, Attempt, u.ok)
        /\ u.pending = z.pending /\ (u.ok => u.synced = Len(u.file))
    <3>1. next + 1 \in Nat \ {0}
          BY <1>1
    <3> QED BY <1>4, <1>8, <2>1, <2>5, <3>1, WriteKeeps
  <2>7. u \in Ios /\ IoInv(u, next + 2)
        BY <1>1, <2>6 DEF IoInv
  <2>8. Follows(Io, u)
        BY <1>1, <2>1, <2>6, <2>7, FollowsTrans
  <2>9. ASSUME u.ok
        PROVE  Durable(u.file, u.synced, { Intent, Attempt }) /\ Size(u) <= Size(Io) + 2
    <3>1. Holds(u.file, u.synced, Attempt)
          BY <2>1, <2>6, <2>7, <2>9, WroteHolds
    <3>2. c \in Nat /\ c = b + 1 /\ u.synced = c /\ Grown(z.file, u.file)
          BY <2>6, <2>7, <2>9, IosFacts DEF Wrote
    <3>3. b \in 1 .. u.synced /\ b \in 1 .. Len(z.file)
          BY <2>2, <2>3, <3>2
    <3>4. u.file[Len(z.file)] = Intent
          BY <2>3, <3>2, <3>3 DEF Grown
    <3>5. Holds(u.file, u.synced, Intent)
          BY <3>3, <3>4 DEF Holds
    <3> DEFINE d == Len(y.pending)
    <3>6. Size(y) = a + d /\ d \in Nat
          BY <2>1, IosFacts DEF Size
    <3>7. Size(u) = c + d
          BY <2>1, <2>6 DEF Size
    <3>8. a \in Nat /\ c = (a + 1) + 1
          BY <2>2, <2>3, <3>2
    <3>9. Size(Io) \in Nat /\ Size(y) <= Size(Io)
          BY <1>1, <1>8 DEF Ready
    <3> HIDE DEF a, b, c, d
    <3>10. Size(u) <= Size(Io) + 2
          BY <3>6, <3>7, <3>8, <3>9
    <3> QED BY <3>1, <3>5, <3>10 DEF Durable
  <2> QED BY <2>7, <2>8, <2>9 DEF Good
<1>9. \A y \in IF AsyncEnabled /\ ~CriticalFlushQueued THEN { Io } ELSE FlushPending(Io) : Ready(y)
      BY FlushedReady
<1> DEFINE S == IF AsyncEnabled /\ ~CriticalFlushQueued THEN { Io } ELSE FlushPending(Io)
           W(y) == WriteLineToPinnedFileLocked(y, Intent, FALSE)
           V(z) == WriteLineToPinnedFileLocked(z, Attempt, TRUE)
<1>10. \/ \E y \in S : ~y.ok /\ x = y
       \/ \E y \in S : y.ok /\ \E z \in W(y) : ~z.ok /\ x = z
       \/ \E y \in S : y.ok /\ \E z \in W(y) : z.ok /\ x \in V(z)
  <2> HIDE DEF S, W, V
  <2>1. x \in Then(S, LAMBDA y : Then(W(y), V))
        BY DEF PairOutcomes, S, W, V
  <2> QED BY <2>1 DEF Then, Continues
<1> QED BY <1>5, <1>7, <1>8, <1>9, <1>10

-----------------------------------------------------------------------------
(* Crashes and reopenings. *)

\* g is what a crash leaves of f: its first lines, perhaps with a fragment of the next.
Cut(f, g) ==
    /\ Len(g) <= Len(f)
    /\ \A i \in 1 .. Len(g) : g[i] = f[i] \/ (g[i] = Torn /\ i = Len(g))

LEMMA CutKeeps ==
    ASSUME NEW n \in Nat \ {0}, NEW io, IoInv(io, n), NEW x \in Ios, Cut(io.file, x.file),
           Len(x.pending) = 0, \A i \in 1 .. Len(x.file) : x.ok => x.file[i] # Torn
    PROVE  IoInv(x, n)
<1> DEFINE f == io.file
           g == x.file
<1>1. io \in Ios
      BY DEF IoInv
<1>2. Len(f) \in Nat /\ Len(g) \in Nat
      BY <1>1, IosFacts
<1>3. \A i \in 1 .. Len(g) : i \in 1 .. Len(f) /\ (g[i] = f[i] \/ (g[i] = Torn /\ i = Len(g)))
      BY <1>2 DEF Cut
<1>4. \A i \in 1 .. Len(f) : f[i] = Torn => i = Len(f)
      BY DEF IoInv, TornInv
<1>5. Len(g) <= Len(f)
      BY DEF Cut
<1>6. TornInv(x)
  <2>1. \A i \in 1 .. Len(g) : g[i] = Torn => i = Len(g)
        BY <1>2, <1>3, <1>4, <1>5
  <2> QED BY <2>1 DEF TornInv
<1>7. PairInv(x)
  <2>1. ASSUME NEW i \in 1 .. Len(g), g[i].type = "place_send_attempt"
        PROVE  i > 1 /\ g[i - 1] = [id |-> g[i].id - 1, type |-> "order_intent"]
    <3>1. g[i] = f[i] /\ i \in 1 .. Len(f)
          BY <1>3, <2>1, TornFacts
    <3>2. i > 1 /\ f[i - 1] = [id |-> f[i].id - 1, type |-> "order_intent"]
          BY <2>1, <3>1 DEF IoInv, PairInv
    <3>3. i - 1 \in 1 .. Len(g) /\ i - 1 # Len(g)
          BY <1>2, <3>2
    <3> QED BY <1>3, <3>1, <3>2, <3>3
  <2> QED BY <2>1 DEF PairInv
<1>8. IdInv(x, n)
  <2>1. ASSUME NEW i \in 1 .. Len(g)
        PROVE  g[i].id < n
    <3>1. CASE g[i] = f[i]
          BY <1>3, <3>1 DEF IoInv, IdInv
    <3>2. CASE g[i] = Torn
          BY <3>2, TornFacts
    <3> QED BY <1>3, <3>1, <3>2
  <2> QED BY <2>1 DEF IdInv
<1>9. OrderInv(x)
  <2>1. ASSUME SyncCritical, NEW i \in 1 .. Len(g), NEW j \in 1 .. Len(g),
               i < j, g[i] # Torn, g[j] # Torn
        PROVE  InOrder(g[i], g[j])
    <3>1. g[i] = f[i] /\ g[j] = f[j] /\ i \in 1 .. Len(f) /\ j \in 1 .. Len(f)
          BY <1>3, <2>1
    <3>2. f[i] # Torn /\ f[j] # Torn
          BY <2>1, <3>1
    <3>3. InOrder(f[i], f[j])
          BY <2>1, <3>1, <3>2 DEF IoInv, OrderInv
    <3> QED BY <3>1, <3>3
  <2> QED BY <2>1 DEF OrderInv
<1>10. Len(x.pending) <= MaxPendingRecords
      BY JournalConstants
<1> QED BY <1>6, <1>7, <1>8, <1>9, <1>10 DEF IoInv

\* What was durable survives a cut beyond the synced lines.
LEMMA CutDurable ==
    ASSUME NEW f, NEW g, NEW k \in Nat, NEW m \in Nat, NEW A, Durable(f, k, A),
           k <= m, \A i \in 1 .. k : g[i] = f[i]
    PROVE  Durable(g, m, A)
<1>1. ASSUME NEW r, Holds(f, k, r)
      PROVE  Holds(g, m, r)
  <2>1. PICK i \in 1 .. k : f[i] = r
        BY <1>1 DEF Holds
  <2>2. i \in 1 .. m
        BY <2>1
  <2> QED BY <2>1, <2>2 DEF Holds
<1> QED BY <1>1 DEF Durable

\* The first k lines of f, and perhaps z.
CutAt(f, k, z, t, T, g) ==
    /\ g \in Seq(T) /\ Len(g) = k + Len(t) /\ Len(g) <= Len(f) /\ Len(t) \in Nat
    /\ \A i \in 1 .. k : g[i] = f[i]
    /\ \A i \in 1 .. Len(g) : g[i] = f[i] \/ (g[i] = z /\ i = Len(g))

LEMMA Truncation ==
    ASSUME NEW T, NEW f \in Seq(T), NEW k \in 0 .. Len(f), NEW z \in T, NEW tail,
           tail = <<>> \/ (tail = <<z>> /\ k < Len(f)), NEW g, g = SubSeq(f, 1, k) \o tail
    PROVE  CutAt(f, k, z, tail, T, g)
<1> DEFINE h == SubSeq(f, 1, k)
<1>1. h \in Seq(T) /\ Len(h) = k /\ \A i \in 1 .. k : h[i] = f[i]
      BY SubSeqProperties
<1> HIDE DEF h
<1>2. CASE tail = <<>>
  <2>1. g = h /\ Len(tail) = 0
        BY <1>1, <1>2 DEF h
  <2> QED BY <1>1, <2>1 DEF CutAt
<1>3. CASE tail = <<z>> /\ k < Len(f)
  <2>1. g = h \o <<z>> /\ Len(tail) = 1
        BY <1>3 DEF h
  <2>2. Len(g) = k + 1 /\ g \in Seq(T) /\ (\A i \in 1 .. k : g[i] = h[i]) /\ g[k + 1] = z
        BY <1>1, <2>1
  <2>3. \A i \in 1 .. k : g[i] = f[i]
        BY <1>1, <2>2
  <2>4. \A i \in 1 .. Len(g) : i \in 1 .. k \/ (i = Len(g) /\ i = k + 1)
        BY <2>2
  <2>5. \A i \in 1 .. Len(g) : g[i] = f[i] \/ (g[i] = z /\ i = Len(g))
        BY <2>2, <2>3, <2>4
  <2>6. Len(g) = k + Len(tail) /\ Len(g) <= Len(f) /\ Len(tail) \in Nat
        BY <1>3, <2>1, <2>2
  <2> QED BY <2>2, <2>3, <2>5, <2>6 DEF CutAt
<1> QED BY <1>2, <1>3

-----------------------------------------------------------------------------
(* The operations that write. *)

\* An operation of an open journal committed the outcome x and, if that succeeded,
\* acknowledged the lines R.
Writes(x, R) ==
    /\ open /\ ~poisoned /\ open' = open
    /\ Good(x, next', R) /\ Commit(x)
    /\ R \subseteq Lines /\ acked' = IF x.ok THEN acked \cup R ELSE acked
    /\ next' \in 1 .. MaxAppends + 1 /\ capacityKnown' \in BOOLEAN
    /\ x.ok /\ (\E r \in R : r.type = "place_send_attempt") => Size(x) <= ReplayMaxRecords

LEMMA AppendWrites ==
    ASSUME IInv, NEW t \in EventTypes, AppendLine(t)
    PROVE  \E x, R : Writes(x, R)
<1> DEFINE r == [id |-> next, type |-> t]
<1>1. /\ open /\ ~poisoned /\ next <= MaxAppends /\ next' = next + 1
      /\ open' = open /\ capacityKnown' = capacityKnown
      BY DEF AppendLine
<1>2. next \in Nat \ {0} /\ capacityKnown' \in BOOLEAN
      BY <1>1 DEF IInv, TypeOK
<1>3. next \in 1 .. MaxAppends /\ next' \in 1 .. MaxAppends + 1
      BY <1>1, <1>2, JournalConstants
<1>4. r \in Lines /\ r.type # "place_send_attempt"
      BY <1>3, NewLine
<1>5. PICK x : /\ Commit(x) /\ acked' = IF x.ok THEN acked \cup { r } ELSE acked
               /\ \/ IsCriticalEventType(t) /\ SyncCritical /\ x \in AppendCriticalSync(r)
                  \/ /\ ~(IsCriticalEventType(t) /\ SyncCritical) /\ CanQueue
                     /\ \E flush \in FlushDecisions(r) : x \in AppendBuffered(r, flush)
      BY DEF AppendLine
<1> HIDE DEF r
<1>6. Good(x, next + 1, { r })
  <2>1. CASE IsCriticalEventType(t) /\ SyncCritical /\ x \in AppendCriticalSync(r)
        BY <1>1, <2>1, CriticalOutcome DEF r
  <2>2. CASE /\ ~(IsCriticalEventType(t) /\ SyncCritical) /\ CanQueue
             /\ \E flush \in FlushDecisions(r) : x \in AppendBuffered(r, flush)
        BY <1>1, <2>2, BufferedOutcome DEF r
  <2> QED BY <1>5, <2>1, <2>2
<1>7. { r } \subseteq Lines /\ ~(\E q \in { r } : q.type = "place_send_attempt")
      BY <1>4
<1>8. Writes(x, { r })
      BY <1>1, <1>2, <1>3, <1>5, <1>6, <1>7 DEF Writes
<1> QED BY <1>8

\* The fifth held back leaves room for the pair.
LEMMA RoomForPair ==
    ASSUME NEW s \in Nat, s < ReplayMaxRecords - ReplayMaxRecords \div 5
    PROVE  s + 2 <= ReplayMaxRecords
BY JournalConstants

LEMMA PairWrites ==
    ASSUME IInv, AppendDurablePair
    PROVE  \E x, R : Writes(x, R)
<1>1. /\ open /\ ~poisoned /\ next + 1 <= MaxAppends /\ next' = next + 2
      /\ open' = open /\ capacityKnown' = capacityKnown /\ NewEntryCapacityOk
      BY DEF AppendDurablePair
<1>2. next \in Nat \ {0} /\ capacityKnown' \in BOOLEAN
      BY <1>1 DEF IInv, TypeOK
<1>3. next \in 1 .. MaxAppends /\ next + 1 \in 1 .. MaxAppends /\ next' \in 1 .. MaxAppends + 1
      BY <1>1, <1>2, JournalConstants
<1>4. Intent \in Lines /\ Attempt \in Lines
      BY <1>3, PairLines DEF Intent, Attempt
<1>5. PICK x \in PairOutcomes :
         Commit(x) /\ acked' = IF x.ok THEN acked \cup { Intent, Attempt } ELSE acked
      BY DEF AppendDurablePair, PairOutcomes, Intent, Attempt
<1>6. Good(x, next + 2, { Intent, Attempt }) /\ (x.ok => Size(x) <= Size(Io) + 2)
      BY <1>1, <1>5, PairOutcome
<1>7. x.ok => Size(x) <= ReplayMaxRecords
  <2>1. Io \in Ios /\ x \in Ios
        BY <1>1, <1>6, IoHolds DEF Good, IoInv
  <2>2. Size(Io) \in Nat /\ Size(x) \in Nat
        BY <2>1, SizeNat
  <2>3. Size(Io) = Len(file) + Len(pending)
        BY DEF Size, Io
  <2>4. Size(Io) < ReplayMaxRecords - ReplayMaxRecords \div 5
        BY <1>1, <2>3 DEF NewEntryCapacityOk
  <2>5. Size(Io) + 2 <= ReplayMaxRecords
        BY <2>2, <2>4, RoomForPair
  <2> QED BY <1>6, <2>2, <2>5, JournalConstants
<1>8. { Intent, Attempt } \subseteq Lines
      BY <1>4
<1>9. Writes(x, { Intent, Attempt })
      BY <1>1, <1>2, <1>3, <1>5, <1>6, <1>7, <1>8 DEF Writes
<1> QED BY <1>9

LEMMA WorkerWrites ==
    ASSUME IInv, WorkerLoop
    PROVE  \E x, R : Writes(x, R)
<1>1. /\ open /\ ~poisoned /\ next' = next /\ acked' = acked
      /\ open' = open /\ capacityKnown' = capacityKnown
      BY DEF WorkerLoop
<1>2. PICK x \in FlushPending(Io) : Commit(x)
      BY DEF WorkerLoop
<1>3. IoInv(Io, next) /\ Io.ok /\ next \in Nat \ {0}
      BY <1>1, IoHolds
<1>4. IoInv(x, next) /\ Follows(Io, x)
      BY <1>2, <1>3, FlushKeeps
<1>5. Good(x, next', {})
      BY <1>1, <1>4 DEF Good, Durable
<1>6. next' \in 1 .. MaxAppends + 1 /\ capacityKnown' \in BOOLEAN
      BY <1>1 DEF IInv, TypeOK
<1>7. Writes(x, {})
      BY <1>1, <1>2, <1>5, <1>6 DEF Writes
<1> QED BY <1>7

LEMMA ReplayWrites ==
    ASSUME IInv, Replay
    PROVE  \E x, R : Writes(x, R)
<1>1. /\ open /\ ~poisoned /\ next' = next /\ acked' = acked /\ open' = open
      BY DEF Replay
<1>2. PICK io \in FlushPending(Io) :
         /\ \/ Commit(io)
            \/ Commit([io EXCEPT !.synced = Len(io.file)])
            \/ Commit([io EXCEPT !.ok = FALSE])
         /\ \/ capacityKnown' = FALSE
            \/ capacityKnown' = (Len(io.file) <= ReplayMaxRecords)
      BY DEF Replay
<1>3. IoInv(Io, next) /\ Io.ok /\ next \in Nat \ {0} /\ Io \in Ios
      BY <1>1, IoHolds
<1>4. IoInv(io, next) /\ Follows(Io, io) /\ io \in Ios
  <2>1. IoInv(io, next) /\ Follows(Io, io)
        BY <1>2, <1>3, FlushKeeps
  <2> QED BY <2>1 DEF IoInv
<1>5. next' \in 1 .. MaxAppends + 1 /\ capacityKnown' \in BOOLEAN
  <2> DEFINE b == Len(io.file) <= ReplayMaxRecords
  <2>1. b \in BOOLEAN
        OBVIOUS
  <2>2. capacityKnown' = FALSE \/ capacityKnown' = b
        BY <1>2
  <2> HIDE DEF b
  <2>3. capacityKnown' \in BOOLEAN
        BY <2>1, <2>2
  <2> QED BY <1>1, <2>3 DEF IInv, TypeOK
<1>6. ASSUME NEW x, Commit(x), IoInv(x, next), Follows(io, x)
      PROVE  \E y, R : Writes(y, R)
  <2>1. Follows(Io, x)
        BY <1>3, <1>4, <1>6, FollowsTrans DEF IoInv
  <2>2. Good(x, next', {})
        BY <1>1, <1>6, <2>1 DEF Good, Durable
  <2>3. Writes(x, {})
        BY <1>1, <1>5, <1>6, <2>2 DEF Writes
  <2> QED BY <2>3
<1>7. CASE Commit(io)
      BY <1>4, <1>6, <1>7, FollowsRefl
<1>8. CASE Commit([io EXCEPT !.synced = Len(io.file)])
  <2> DEFINE x == [io EXCEPT !.synced = Len(io.file)]
  <2>1. IoInv(x, next) /\ Follows(io, x)
        BY <1>4, SyncKeeps
  <2> HIDE DEF x
  <2> QED BY <1>6, <1>8, <2>1 DEF x
<1>9. CASE Commit([io EXCEPT !.ok = FALSE])
  <2> DEFINE x == [io EXCEPT !.ok = FALSE]
  <2>1. IoInv(x, next) /\ Follows(io, x)
        BY <1>4, PoisonKeeps
  <2> HIDE DEF x
  <2> QED BY <1>6, <1>9, <2>1 DEF x
<1> QED BY <1>2, <1>7, <1>8, <1>9

-----------------------------------------------------------------------------
(* The steps that open and close the journal. *)

LEMMA OpenKeeps ==
    ASSUME IInv, config' = config, Init_Open
    PROVE  IInv'
<1> DEFINE x == [file |-> file, synced |-> Len(file), pending |-> <<>>, ok |-> TRUE]
<1>1. /\ open' = TRUE /\ poisoned' = FALSE /\ pending' = <<>> /\ synced' = Len(file)
      /\ file' = file /\ next' = next /\ acked' = acked
      BY DEF Init_Open
<1>2. capacityKnown' \in BOOLEAN
      BY DEF Init_Open
<1>3. /\ next \in Nat \ {0} /\ next \in 1 .. MaxAppends + 1 /\ config \in Configs
      /\ file \in Seq(Lines \cup { Torn }) /\ synced \in 0 .. Len(file) /\ acked \subseteq Lines
      BY DEF IInv, TypeOK
<1>4. IoInv(Current, next) /\ Durable(file, synced, acked) /\ Current.file = file
      BY DEF IInv, Current
<1>5. Len(file) \in Nat /\ synced \in Nat /\ synced <= Len(file)
      BY <1>3
<1>6. x \in Ios /\ Len(x.pending) = 0 /\ x.file = file
      BY <1>3, <1>5 DEF Ios
<1>7. Cut(file, file)
      BY <1>5 DEF Cut
<1>8. \A i \in 1 .. Len(file) : file[i] # Torn
  <2>1. \A i \in 1 .. Len(file) : file[i] = Torn => i = Len(file)
        BY <1>4 DEF IoInv, TornInv
  <2>2. ASSUME NEW i \in 1 .. Len(file), file[i] = Torn
        PROVE  FALSE
    <3>1. file # <<>> /\ file[Len(file)] = Torn
          BY <1>5, <2>1, <2>2
    <3> QED BY <3>1 DEF Init_Open
  <2> QED BY <2>2
<1>9. x.file = file /\ x.synced = Len(file) /\ x.pending = <<>> /\ x.ok = TRUE
      OBVIOUS
<1>10. Durable(file, Len(file), acked)
      BY <1>4, <1>5, CutDurable
<1> HIDE DEF x
<1>11. IoInv(x, next)
      BY <1>3, <1>4, <1>6, <1>7, <1>8, CutKeeps
<1> QED BY <1>1, <1>2, <1>3, <1>9, <1>10, <1>11, StateStep

\* A closed journal with the lines and the pending ones of the outcome x.
LEMMA ClosedStep ==
    ASSUME IInv, config' = config, open' = FALSE, next' = next, acked' = acked,
           capacityKnown' = capacityKnown, poisoned' \in BOOLEAN, NEW x, IoInv(x, next),
           x.ok = FALSE, file' = x.file, synced' = x.synced, pending' = x.pending,
           Durable(x.file, x.synced, acked)
    PROVE  IInv'
<1>1. /\ next \in 1 .. MaxAppends + 1 /\ config \in Configs
      /\ acked \subseteq Lines /\ capacityKnown' \in BOOLEAN
      BY DEF IInv, TypeOK
<1>2. (open' /\ ~poisoned') = x.ok /\ open' \in BOOLEAN
      OBVIOUS
<1> QED BY <1>1, <1>2, StateStep

LEMMA DestroyKeeps ==
    ASSUME IInv, config' = config, Destroy
    PROVE  IInv'
<1>1. /\ open /\ open' = FALSE /\ next' = next /\ acked' = acked
      /\ capacityKnown' = capacityKnown
      BY DEF Destroy
<1>2. Durable(file, synced, acked) /\ next \in Nat \ {0} /\ IoInv(Current, next)
      BY DEF IInv, TypeOK
<1>3. PICK io \in IF poisoned THEN { [Io EXCEPT !.ok = FALSE] } ELSE FlushPending(Io) :
         Commit([io EXCEPT !.synced = IF io.ok THEN Len(io.file) ELSE @])
      BY DEF Destroy
<1>4. IoInv(io, next) /\ Follows(Current, io) /\ io \in Ios /\ Current \in Ios
  <2>1. CASE poisoned
    <3>1. Current = io
          BY <1>1, <1>3, <2>1 DEF Current, Io
    <3> QED BY <1>2, <3>1, FollowsRefl DEF IoInv
  <2>2. CASE ~poisoned
    <3>1. Current = Io
          BY <1>1, <2>2 DEF Current, Io
    <3>2. Io.ok /\ io \in FlushPending(Io)
          BY <1>3, <2>2 DEF Io
    <3>3. IoInv(io, next) /\ Follows(Io, io)
          BY <1>2, <3>1, <3>2, FlushKeeps
    <3> QED BY <1>2, <3>1, <3>3 DEF IoInv
  <2> QED BY <2>1, <2>2
<1> DEFINE s == [io EXCEPT !.synced = IF io.ok THEN Len(io.file) ELSE @]
           x == [s EXCEPT !.ok = FALSE]
<1>5. IoInv(s, next) /\ Follows(io, s) /\ s \in Ios
  <2>1. CASE io.ok
    <3>1. s = [io EXCEPT !.synced = Len(io.file)]
          BY <2>1
    <3>2. IoInv(s, next) /\ Follows(io, s)
          BY <1>4, <3>1, SyncKeeps
    <3> QED BY <3>2 DEF IoInv
  <2>2. CASE ~io.ok
    <3>1. s = io
          BY <1>4, <2>2 DEF Ios
    <3> HIDE DEF s
    <3> QED BY <1>4, <3>1, FollowsRefl
  <2> QED BY <2>1, <2>2
<1>6. Commit(s)
      BY <1>3
<1> HIDE DEF s
<1>7. /\ IoInv(x, next) /\ x.ok = FALSE /\ x.file = s.file /\ x.pending = s.pending
      /\ x.synced = s.synced
      BY <1>5, PoisonKeeps
<1> HIDE DEF x
<1>8. Follows(Current, s)
      BY <1>4, <1>5, FollowsTrans
<1>9. Durable(s.file, s.synced, acked)
  <2>1. Current.file = file /\ Current.synced = synced
        BY DEF Current
  <2>2. Durable(Current.file, Current.synced, acked)
        BY <1>2, <2>1
  <2> QED BY <1>4, <1>5, <1>8, <2>2, DurableStays
<1>10. file' = x.file /\ synced' = x.synced /\ pending' = x.pending
      BY <1>6, <1>7 DEF Commit
<1>11. poisoned' \in BOOLEAN
  <2>1. s.ok \in BOOLEAN
        BY <1>5, IosFacts
  <2> QED BY <1>6, <2>1 DEF Commit
<1>12. Durable(x.file, x.synced, acked)
      BY <1>7, <1>9
<1> QED BY <1>1, <1>7, <1>10, <1>11, <1>12, ClosedStep

\* A crash leaves the lines of the file g, of which m are synced.
LEMMA CrashStep ==
    ASSUME IInv, config' = config, open' = FALSE, pending' = <<>>, poisoned' = poisoned,
           capacityKnown' = capacityKnown, next' = next, acked' = acked,
           NEW g \in Seq(Lines \cup { Torn }), NEW m \in 0 .. Len(g), file' = g, synced' = m,
           Cut(file, g), Durable(g, m, acked)
    PROVE  IInv'
<1> DEFINE x == [file |-> g, synced |-> m, pending |-> <<>>, ok |-> FALSE]
<1>1. next \in Nat \ {0} /\ IoInv(Current, next) /\ Current.file = file /\ poisoned' \in BOOLEAN
      BY DEF IInv, TypeOK, Current
<1>2. x \in Ios /\ Len(x.pending) = 0
  <2> DEFINE p == <<>>
  <2>1. p \in Seq(Lines) /\ Len(p) = 0
        OBVIOUS
  <2>2. m \in Nat /\ m <= Len(g)
        OBVIOUS
  <2> HIDE DEF p
  <2> DEFINE y == [file |-> g, synced |-> m, pending |-> p, ok |-> FALSE]
  <2>3. /\ y \in [file : Seq(Lines \cup { Torn }), synced : Nat, pending : Seq(Lines), ok : BOOLEAN]
        /\ y.file = g /\ y.synced = m /\ y.pending = p
        BY <2>1, <2>2
  <2>4. x = y
        BY Zenon DEF p
  <2> HIDE DEF x, y
  <2>5. x.synced <= Len(x.file) /\ Len(x.pending) = 0
        BY <2>1, <2>2, <2>3, <2>4
  <2> QED BY <2>3, <2>4, <2>5, Zenon DEF Ios
<1>3. x.file = g /\ x.synced = m /\ x.pending = <<>> /\ x.ok = FALSE
      OBVIOUS
<1> HIDE DEF x
<1>4. IoInv(x, next)
      BY <1>1, <1>2, <1>3, CutKeeps
<1> QED BY <1>1, <1>3, <1>4, ClosedStep

LEMMA ProcessCrashKeeps ==
    ASSUME IInv, config' = config, ProcessCrash
    PROVE  IInv'
<1>1. /\ open' = FALSE /\ pending' = <<>> /\ poisoned' = poisoned /\ file' = file
      /\ synced' = synced /\ capacityKnown' = capacityKnown /\ next' = next /\ acked' = acked
      BY DEF ProcessCrash
<1>2. /\ file \in Seq(Lines \cup { Torn }) /\ synced \in 0 .. Len(file)
      /\ Durable(file, synced, acked)
      BY DEF IInv, TypeOK
<1>3. Cut(file, file)
      BY <1>2 DEF Cut
<1> QED BY <1>1, <1>2, <1>3, CrashStep

LEMMA MachineCrashKeeps ==
    ASSUME IInv, config' = config, MachineCrash
    PROVE  IInv'
<1>1. /\ open' = FALSE /\ pending' = <<>> /\ poisoned' = poisoned
      /\ capacityKnown' = capacityKnown /\ next' = next /\ acked' = acked
      BY DEF MachineCrash
<1>2. /\ file \in Seq(Lines \cup { Torn }) /\ synced \in 0 .. Len(file)
      /\ Durable(file, synced, acked)
      BY DEF IInv, TypeOK
<1>3. PICK k \in synced .. Len(file) :
         \E tail \in IF k < Len(file) THEN { <<>>, <<Torn>> } ELSE { <<>> } :
            file' = SubSeq(file, 1, k) \o tail /\ synced' = k + Len(tail)
      BY DEF MachineCrash
<1>4. k \in 0 .. Len(file) /\ k \in Nat /\ synced \in Nat /\ synced <= k
      BY <1>2, <1>3
<1>5. PICK tail :
         /\ tail = <<>> \/ (tail = <<Torn>> /\ k < Len(file))
         /\ file' = SubSeq(file, 1, k) \o tail /\ synced' = k + Len(tail)
      BY <1>3
<1> DEFINE g == SubSeq(file, 1, k) \o tail
           m == k + Len(tail)
<1>6. /\ g \in Seq(Lines \cup { Torn }) /\ Len(g) = m /\ Len(g) <= Len(file)
      /\ Len(tail) \in Nat /\ (\A i \in 1 .. k : g[i] = file[i])
      /\ \A i \in 1 .. Len(g) : g[i] = file[i] \/ (g[i] = Torn /\ i = Len(g))
  <2>1. Torn \in Lines \cup { Torn }
        OBVIOUS
  <2>2. g = SubSeq(file, 1, k) \o tail
        OBVIOUS
  <2> HIDE DEF g
  <2>3. CutAt(file, k, Torn, tail, Lines \cup { Torn }, g)
        BY <1>2, <1>4, <1>5, <2>1, <2>2, Truncation
  <2> QED BY <2>3 DEF CutAt
<1>7. file' = g /\ synced' = m
      BY <1>5
<1>8. m \in Nat /\ synced <= m
      BY <1>4, <1>6
<1> HIDE DEF g, m
<1>9. Cut(file, g)
      BY <1>6 DEF Cut
<1>10. \A i \in 1 .. synced : g[i] = file[i]
      BY <1>4, <1>6
<1>11. Durable(g, m, acked)
      BY <1>2, <1>4, <1>8, <1>10, CutDurable
<1>12. m \in 0 .. Len(g)
      BY <1>6, <1>8
<1> QED BY <1>1, <1>6, <1>7, <1>9, <1>11, <1>12, CrashStep

-----------------------------------------------------------------------------
(* The invariant, and what follows from it. *)

LEMMA InitIInv ==
    ASSUME Init
    PROVE  IInv
<1> DEFINE x == [file |-> <<>>, synced |-> 0, pending |-> <<>>, ok |-> FALSE]
<1>1. Current = x
      BY DEF Init, Current
<1>2. x \in Ios /\ Len(x.file) = 0 /\ Len(x.pending) = 0 /\ x.ok = FALSE
      BY DEF Ios
<1> HIDE DEF x
<1>3. IoInv(x, next)
      BY <1>2, JournalConstants DEF IoInv, TornInv, PairInv, IdInv, OrderInv
<1>4. TypeOK
  <2>1. 1 \in 1 .. MaxAppends + 1
        BY JournalConstants
  <2>2. <<>> \in Seq(Lines) /\ <<>> \in Seq(Lines \cup { Torn }) /\ 0 \in 0 .. Len(<<>>)
        OBVIOUS
  <2>3. file \in Seq(Lines \cup { Torn }) /\ synced \in 0 .. Len(file) /\ pending \in Seq(Lines)
        BY <2>2 DEF Init
  <2>4. next \in 1 .. MaxAppends + 1 /\ acked \subseteq Lines /\ config \in Configs
        BY <2>1 DEF Init
  <2>5. open \in BOOLEAN /\ poisoned \in BOOLEAN /\ capacityKnown \in BOOLEAN
        BY DEF Init
  <2> QED BY <2>3, <2>4, <2>5 DEF TypeOK
<1>5. Durable(file, synced, acked)
      BY DEF Init, Durable
<1> QED BY <1>1, <1>3, <1>4, <1>5 DEF IInv

\* The operations of an open journal.
WritingStep ==
    (\E t \in EventTypes : AppendLine(t)) \/ AppendDurablePair \/ WorkerLoop \/ Replay

LEMMA WritingSteps ==
    ASSUME IInv, WritingStep
    PROVE  \E x, R : Writes(x, R)
BY AppendWrites, PairWrites, WorkerWrites, ReplayWrites DEF WritingStep

LEMMA NextIInv ==
    ASSUME IInv, [Next]_vars
    PROVE  IInv'
<1>1. CASE UNCHANGED vars
  <2>1. Current' = Current /\ next' = next /\ config' = config
        BY <1>1 DEF vars, Current
  <2>2. IoInv(Current, next)'
        BY <2>1, IoInvPrime DEF IInv
  <2>3. TypeOK' /\ Durable(file, synced, acked)'
        BY <1>1 DEF vars, IInv, TypeOK, Durable, SyncCritical, Holds
  <2> QED BY <2>2, <2>3 DEF IInv
<1>2. CASE Next
  <2>1. config' = config
        BY <1>2 DEF Next
  <2>2. CASE WritingStep
    <3>1. PICK x, R : Writes(x, R)
          BY <2>2, WritingSteps
    <3> QED BY <2>1, <3>1, GoodStep DEF Writes
  <2>3. CASE Init_Open
        BY <2>1, <2>3, OpenKeeps
  <2>4. CASE Destroy
        BY <2>1, <2>4, DestroyKeeps
  <2>5. CASE ProcessCrash
        BY <2>1, <2>5, ProcessCrashKeeps
  <2>6. CASE MachineCrash
        BY <2>1, <2>6, MachineCrashKeeps
  <2> QED BY <1>2, <2>2, <2>3, <2>4, <2>5, <2>6 DEF Next, WritingStep
<1> QED BY <1>1, <1>2

\* The inductive invariant holds of every behaviour of the journal.
THEOREM JournalInvariant == Spec => []IInv
BY InitIInv, NextIInv, PTL DEF Spec

\* The journal's members keep their types.
THEOREM JournalTypes == Spec => []TypeOK
<1>1. IInv => TypeOK
      BY DEF IInv
<1> QED BY <1>1, JournalInvariant, PTL

LEMMA PrefixFacts ==
    ASSUME NEW T, NEW f \in Seq(T), NEW k \in 0 .. Len(f), NEW h, h = SubSeq(f, 1, k)
    PROVE  h \in Seq(T) /\ Len(h) = k /\ \A i \in 1 .. k : h[i] = f[i]
BY SubSeqProperties

\* "A successful return must not precede the durable state it claims", for every
\* setting, any number of lines and every order of faults, crashes and reopenings: the
\* acknowledged critical lines are among the synced ones.
THEOREM AckedCriticalIsDurable == Spec => []AckedCriticalDurable
<1>1. ASSUME IInv
      PROVE  AckedCriticalDurable
  <2> DEFINE h == SubSeq(file, 1, synced)
  <2>1. h = SubSeq(file, 1, synced)
        OBVIOUS
  <2> HIDE DEF h
  <2>2. file \in Seq(Lines \cup { Torn }) /\ synced \in 0 .. Len(file)
        BY <1>1 DEF IInv, TypeOK
  <2>3. Len(h) = synced /\ \A i \in 1 .. synced : h[i] = file[i]
        BY <2>1, <2>2, PrefixFacts
  <2>4. ASSUME NEW r, Holds(file, synced, r)
        PROVE  r \in RangeOf(h)
    <3>1. PICK i \in 1 .. synced : file[i] = r
          BY <2>4 DEF Holds
    <3>2. i \in 1 .. Len(h) /\ h[i] = r
          BY <2>3, <3>1
    <3> QED BY <3>2 DEF RangeOf
  <2>5. Durable(file, synced, acked)
        BY <1>1 DEF IInv
  <2> QED BY <2>1, <2>4, <2>5 DEF AckedCriticalDurable, Durable
<1> QED BY <1>1, JournalInvariant, PTL

\* What replay relies on holds of every file the journal leaves: no attempt without its
\* intent, a fragment only at the end, every line once and in its order, and no more
\* pending lines than QueueLineLocked's budget.
THEOREM JournalIsWellFormed == Spec => []JournalWellFormed
<1>1. ASSUME IInv
      PROVE  JournalWellFormed
  <2>1. Current.file = file /\ Current.pending = pending
        BY DEF Current
  <2>2. /\ TornInv(Current) /\ PairInv(Current) /\ OrderInv(Current)
        /\ Len(Current.pending) <= MaxPendingRecords
        BY <1>1 DEF IInv, IoInv
  <2>3. PairPrefix
        BY <2>1, <2>2 DEF PairInv, PairPrefix
  <2>4. TornOnlyAtTail
        BY <2>1, <2>2 DEF TornInv, TornOnlyAtTail
  <2>5. FileOrder
        BY <2>1, <2>2 DEF OrderInv, InOrder, FileOrder
  <2>6. PendingBounded
        BY <2>1, <2>2 DEF PendingBounded
  <2> QED BY <2>3, <2>4, <2>5, <2>6 DEF JournalWellFormed
<1> QED BY <1>1, JournalInvariant, PTL

LEMMA OpenSteps ==
    ASSUME IInv, Next, open, open'
    PROVE  WritingStep
BY DEF Next, WritingStep, Init_Open, Destroy, ProcessCrash, MachineCrash

\* A poisoned write, a full queue, a failed flush or a replay drops no line that the
\* journal accepted while it is open.
THEOREM JournalDropsNothing == Spec => NothingDropped
<1> DEFINE A == (open /\ open') =>
        /\ Len(file) <= Len(file') /\ SubSeq(file', 1, Len(file)) = file
        /\ RangeOf(pending) \subseteq RangeOf(file') \cup RangeOf(pending')
<1>1. ASSUME IInv, Next, open, open'
      PROVE  /\ Len(file) <= Len(file') /\ SubSeq(file', 1, Len(file)) = file
             /\ RangeOf(pending) \subseteq RangeOf(file') \cup RangeOf(pending')
  <2>1. PICK x, R : Writes(x, R)
        BY <1>1, OpenSteps, WritingSteps
  <2>2. IoInv(x, next') /\ Follows(Io, x) /\ file' = x.file /\ pending' = x.pending
        BY <2>1 DEF Writes, Good, Commit
  <2>3. x \in Ios /\ Io \in Ios /\ Io.file = file /\ Io.pending = pending
        BY <1>1, <2>1, <2>2, IoHolds DEF Writes, IoInv
  <2>4. Grown(file, x.file) /\ Kept(pending, x.file, x.pending)
        BY <2>2, <2>3 DEF Follows
  <2>5. /\ file \in Seq(Lines \cup { Torn }) /\ x.file \in Seq(Lines \cup { Torn })
        BY <2>3, IosFacts
  <2>6. SubSeq(x.file, 1, Len(file)) = file
    <3> DEFINE h == SubSeq(x.file, 1, Len(file))
    <3>1. Len(file) \in 0 .. Len(x.file)
          BY <2>4, <2>5 DEF Grown
    <3>2. h \in Seq(Lines \cup { Torn }) /\ Len(h) = Len(file) /\ \A i \in 1 .. Len(file) : h[i] = x.file[i]
          BY <2>5, <3>1, PrefixFacts
    <3> HIDE DEF h
    <3>3. \A i \in 1 .. Len(h) : h[i] = file[i]
          BY <2>4, <3>2 DEF Grown
    <3>4. h = file
          BY <2>5, <3>2, <3>3, SeqEqual
    <3> QED BY <3>4 DEF h
  <2>7. RangeOf(pending) \subseteq RangeOf(x.file) \cup RangeOf(x.pending)
        BY <2>4 DEF Kept, Has, RangeOf
  <2>8. Len(file) <= Len(x.file)
        BY <2>4 DEF Grown
  <2> QED BY <2>2, <2>6, <2>7, <2>8
<1>2. IInv /\ [Next]_vars => [A]_vars
      BY <1>1
<1> QED BY <1>2, JournalInvariant, PTL DEF Spec, NothingDropped

\* An admitted new entry never makes the ledger longer than a restart can replay, for
\* every limit of five records or more.
THEOREM AdmissionStaysReplayable == Spec => AdmissionReplayable
<1> DEFINE A == (\E r \in acked' \ acked : r.type = "place_send_attempt") =>
                    Len(file') + Len(pending') <= ReplayMaxRecords
<1>1. ASSUME IInv, Next, NEW r \in acked' \ acked, r.type = "place_send_attempt"
      PROVE  Len(file') + Len(pending') <= ReplayMaxRecords
  <2>1. acked' # acked
        BY <1>1
  <2>2. WritingStep
        BY <1>1, <2>1 DEF Next, WritingStep, Init_Open, Destroy, ProcessCrash, MachineCrash
  <2>3. PICK x, R : Writes(x, R)
        BY <1>1, <2>2, WritingSteps
  <2>4. x.ok /\ r \in R
        BY <1>1, <2>3 DEF Writes
  <2>5. Size(x) <= ReplayMaxRecords
        BY <1>1, <2>3, <2>4 DEF Writes
  <2>6. file' = x.file /\ pending' = x.pending
        BY <2>3 DEF Writes, Commit
  <2> QED BY <2>5, <2>6 DEF Size
<1>2. IInv /\ [Next]_vars => [A]_vars
      BY <1>1
<1> QED BY <1>2, JournalInvariant, PTL DEF Spec, AdmissionReplayable

=============================================================================
