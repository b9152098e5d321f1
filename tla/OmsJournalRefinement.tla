------------------------ MODULE OmsJournalRefinement ------------------------
(***************************************************************************)
(* The journal that writes every line at once implements the durable       *)
(* ledger: each of its steps, with the faults, fragments and crashes, is a *)
(* step of LedgerService or leaves the ledger as it is.                    *)
(***************************************************************************)
EXTENDS OmsJournalProofs

-----------------------------------------------------------------------------
(* The ledger that a file stands for. *)

Whole(f) == IF f # <<>> /\ f[Len(f)] = Torn THEN SubSeq(f, 1, Len(f) - 1) ELSE f

Image(f, k, failed) ==
    [log |-> Whole(f), durable |-> IF k <= Len(Whole(f)) THEN k ELSE Len(Whole(f)),
     failed |-> failed]

Clean(f) == f \in Seq(Lines \cup { Torn }) /\ \A i \in 1 .. Len(f) : f[i] # Torn

LEMMA CleanImage ==
    ASSUME NEW f, Clean(f), NEW k \in 0 .. Len(f), NEW b
    PROVE  Image(f, k, b) = [log |-> f, durable |-> k, failed |-> b]
<1>1. Whole(f) = f
  <2>1. CASE f = <<>>
        BY <2>1 DEF Whole
  <2>2. CASE f # <<>>
    <3>1. Len(f) \in 1 .. Len(f)
          BY <2>2 DEF Clean
    <3> QED BY <3>1 DEF Whole, Clean
  <2> QED BY <2>1, <2>2
<1>2. k <= Len(f)
      BY DEF Clean
<1> QED BY <1>1, <1>2 DEF Image

LEMMA TornWhole ==
    ASSUME NEW f, Clean(f), NEW g, g = f \o <<Torn>>
    PROVE  Whole(g) = f
<1>1. /\ g \in Seq(Lines \cup { Torn }) /\ Len(g) = Len(f) + 1 /\ g[Len(g)] = Torn
      /\ Len(f) \in Nat /\ f \in Seq(Lines \cup { Torn })
      /\ \A i \in 1 .. Len(f) : g[i] = f[i]
      BY DEF Clean
<1> DEFINE h == SubSeq(g, 1, Len(f))
<1>2. h \in Seq(Lines \cup { Torn }) /\ Len(h) = Len(f) /\ \A i \in 1 .. Len(f) : h[i] = g[i]
  <2>1. Len(f) \in 0 .. Len(g)
        BY <1>1
  <2> QED BY <1>1, <2>1, PrefixFacts
<1> HIDE DEF h
<1>3. h = f
  <2>1. \A i \in 1 .. Len(h) : h[i] = f[i]
        BY <1>1, <1>2
  <2> QED BY <1>1, <1>2, <2>1, SeqEqual
<1>4. g # <<>> /\ Len(g) - 1 = Len(f)
      BY <1>1
<1> QED BY <1>1, <1>3, <1>4 DEF Whole, h

LEMMA TornImage ==
    ASSUME NEW f, Clean(f), NEW k \in 0 .. Len(f), NEW b, NEW g, g = f \o <<Torn>>
    PROVE  Image(g, k, b) = [log |-> f, durable |-> k, failed |-> b]
<1>1. Whole(g) = f
      BY TornWhole
<1>2. k <= Len(f)
      BY DEF Clean
<1> QED BY <1>1, <1>2 DEF Image

LEMMA CleanAppend ==
    ASSUME NEW f, Clean(f), NEW r \in Lines, NEW g, g = f \o <<r>>
    PROVE  Clean(g) /\ Len(g) = Len(f) + 1 /\ Len(f) \in Nat
<1>1. r # Torn /\ f \in Seq(Lines \cup { Torn })
      BY LineFacts DEF Clean
<1>2. /\ g \in Seq(Lines \cup { Torn }) /\ Len(g) = Len(f) + 1 /\ Len(f) \in Nat
      /\ (\A i \in 1 .. Len(f) : g[i] = f[i]) /\ g[Len(f) + 1] = r
      BY <1>1
<1>3. ASSUME NEW i \in 1 .. Len(g)
      PROVE  g[i] # Torn
  <2>1. i \in 1 .. Len(f) \/ i = Len(f) + 1
        BY <1>2
  <2> QED BY <1>1, <1>2, <2>1 DEF Clean
<1> QED BY <1>2, <1>3 DEF Clean

LedgerOf(f, k, failed) == [log |-> f, durable |-> k, failed |-> failed]

\* What writing line r leaves.
WroteLedger(f, k, r, durable, x) ==
    \/ /\ x.ok = TRUE /\ x.file = f \o <<r>>
       /\ x.synced = IF durable THEN Len(f) + 1 ELSE k
    \/ /\ x.ok = FALSE
       /\ \/ Image(x.file, x.synced, TRUE) = LedgerOf(f, k, TRUE)
          \/ Image(x.file, x.synced, TRUE) = LedgerOf(f \o <<r>>, k, TRUE)

LEMMA FailedImage ==
    ASSUME NEW f, Clean(f), NEW k \in 0 .. Len(f), NEW r \in Lines, NEW tail \in FailedTails(r),
           NEW g, g = f \o tail
    PROVE  \/ Image(g, k, TRUE) = LedgerOf(f, k, TRUE)
           \/ Image(g, k, TRUE) = LedgerOf(f \o <<r>>, k, TRUE)
<1>1. CASE tail = <<>>
  <2>1. g = f
        BY <1>1 DEF Clean
  <2> QED BY <2>1, CleanImage DEF LedgerOf
<1>2. CASE tail = <<Torn>>
      BY <1>2, TornImage DEF LedgerOf
<1>3. CASE tail = <<r>>
  <2>1. g = f \o <<r>>
        BY <1>3
  <2>2. Clean(g) /\ Len(g) = Len(f) + 1 /\ Len(f) \in Nat
        BY <2>1, CleanAppend
  <2>3. k \in 0 .. Len(g)
        BY <2>2
  <2>4. Image(g, k, TRUE) = LedgerOf(g, k, TRUE)
        BY <2>2, <2>3, CleanImage DEF LedgerOf
  <2> QED BY <2>1, <2>4
<1> QED BY <1>1, <1>2, <1>3 DEF FailedTails

LEMMA WriteLedger ==
    ASSUME NEW io \in Ios, io.ok = TRUE, Clean(io.file), NEW r \in Lines, NEW durable \in BOOLEAN,
           NEW x \in WriteLineToPinnedFileLocked(io, r, durable)
    PROVE  WroteLedger(io.file, io.synced, r, durable, x) /\ x.pending = io.pending
<1>1. io.synced \in 0 .. Len(io.file) /\ io.file \in Seq(Lines \cup { Torn })
      BY IosFacts
<1>2. CASE x = [io EXCEPT !.file = Append(@, r),
                          !.synced = IF durable THEN Len(io.file) + 1 ELSE @]
  <2>1. /\ x.file = Append(io.file, r) /\ x.ok = TRUE /\ x.pending = io.pending
        /\ x.synced = IF durable THEN Len(io.file) + 1 ELSE io.synced
        BY <1>2 DEF Ios
  <2>2. Append(io.file, r) = io.file \o <<r>>
        BY <1>1
  <2> QED BY <2>1, <2>2 DEF WroteLedger
<1>3. ASSUME NEW tail \in FailedTails(r), x = [io EXCEPT !.file = @ \o tail, !.ok = FALSE]
      PROVE  WroteLedger(io.file, io.synced, r, durable, x) /\ x.pending = io.pending
  <2>1. /\ x.file = io.file \o tail /\ x.synced = io.synced /\ x.ok = FALSE
        /\ x.pending = io.pending
        BY <1>3 DEF Ios
  <2>2. \/ Image(x.file, io.synced, TRUE) = LedgerOf(io.file, io.synced, TRUE)
        \/ Image(x.file, io.synced, TRUE) = LedgerOf(io.file \o <<r>>, io.synced, TRUE)
        BY <1>1, <2>1, FailedImage
  <2> QED BY <2>1, <2>2 DEF WroteLedger
<1> QED BY <1>2, <1>3 DEF WriteLineToPinnedFileLocked

\* With nothing pending a flush does nothing; with one line it writes that line.
LEMMA FlushNothing ==
    ASSUME NEW io \in Ios, io.pending = <<>>, NEW x \in FlushPending(io)
    PROVE  x = io
<1>1. io.file \in Seq(Lines \cup { Torn }) /\ Len(io.pending) = 0
      BY IosFacts
<1>2. io.file \o io.pending = io.file
      BY <1>1
<1>3. x = [io EXCEPT !.file = @ \o io.pending, !.pending = <<>>]
      BY <1>1 DEF FlushPending
<1> QED BY <1>2, <1>3 DEF Ios

LEMMA FlushCases ==
    ASSUME NEW io, NEW x \in FlushPending(io)
    PROVE  \/ x = [io EXCEPT !.file = @ \o io.pending, !.pending = <<>>]
           \/ \E k \in 1 .. Len(io.pending) : \E tail \in FailedTails(io.pending[k]) :
                  x = [io EXCEPT !.file = @ \o SubSeq(io.pending, 1, k - 1) \o tail,
                                 !.pending = SubSeq(@, k, Len(@)), !.ok = FALSE]
<1> DEFINE All == [io EXCEPT !.file = @ \o io.pending, !.pending = <<>>]
           Upto(k, tail) == [io EXCEPT !.file = @ \o SubSeq(io.pending, 1, k - 1) \o tail,
                                       !.pending = SubSeq(@, k, Len(@)), !.ok = FALSE]
           K == 1 .. Len(io.pending)
           T(k) == FailedTails(io.pending[k])
<1>1. x \in { All } \cup UNION { { Upto(k, tail) : tail \in T(k) } : k \in K }
      BY Zenon DEF FlushPending
<1> HIDE DEF All, Upto, K, T
<1>2. x = All \/ \E k \in K : \E tail \in T(k) : x = Upto(k, tail)
      BY <1>1
<1> QED BY <1>2, Zenon DEF All, Upto, K, T

LEMMA FlushOne ==
    ASSUME NEW io \in Ios, io.ok = TRUE, Clean(io.file), NEW r \in Lines,
           Len(io.pending) = 1, io.pending[1] = r, NEW x \in FlushPending(io)
    PROVE  WroteLedger(io.file, io.synced, r, FALSE, x) /\ (x.ok => x.pending = <<>>)
<1>1. /\ io.synced \in 0 .. Len(io.file) /\ io.file \in Seq(Lines \cup { Torn })
      BY IosFacts
<1>2. CASE x = [io EXCEPT !.file = @ \o io.pending, !.pending = <<>>]
  <2>1. io.pending = <<r>>
        BY IosFacts
  <2>2. x.file = io.file \o io.pending /\ x.ok = TRUE /\ x.pending = <<>> /\ x.synced = io.synced
        BY <1>2 DEF Ios
  <2> QED BY <2>1, <2>2 DEF WroteLedger
<1>3. ASSUME NEW k \in 1 .. Len(io.pending), NEW tail \in FailedTails(io.pending[k]),
             x = [io EXCEPT !.file = @ \o SubSeq(io.pending, 1, k - 1) \o tail,
                            !.pending = SubSeq(@, k, Len(@)), !.ok = FALSE]
      PROVE  WroteLedger(io.file, io.synced, r, FALSE, x) /\ (x.ok => x.pending = <<>>)
  <2>1. k = 1 /\ k - 1 = 0 /\ tail \in FailedTails(r)
        BY <1>3
  <2>2. /\ x.file = io.file \o SubSeq(io.pending, 1, k - 1) \o tail
        /\ x.synced = io.synced /\ x.ok = FALSE
        BY <1>3 DEF Ios
  <2>3. SubSeq(io.pending, 1, 0) = <<>>
    <3> DEFINE h == SubSeq(io.pending, 1, 0)
    <3>1. io.pending \in Seq(Lines) /\ 0 \in 0 .. Len(io.pending)
          BY <1>1, IosFacts
    <3>2. h \in Seq(Lines) /\ Len(h) = 0
          BY <3>1, PrefixFacts
    <3> HIDE DEF h
    <3>3. h = <<>>
          BY <3>2
    <3> QED BY <3>3 DEF h
  <2>4. io.file \o SubSeq(io.pending, 1, k - 1) = io.file
        BY <1>1, <2>1, <2>3
  <2>5. x.file = io.file \o tail
        BY <2>2, <2>4
  <2>6. \/ Image(x.file, io.synced, TRUE) = LedgerOf(io.file, io.synced, TRUE)
        \/ Image(x.file, io.synced, TRUE) = LedgerOf(io.file \o <<r>>, io.synced, TRUE)
        BY <1>1, <2>1, <2>5, FailedImage
  <2> QED BY <2>2, <2>6 DEF WroteLedger
<1>4. \/ x = [io EXCEPT !.file = @ \o io.pending, !.pending = <<>>]
      \/ \E k \in 1 .. Len(io.pending) : \E tail \in FailedTails(io.pending[k]) :
             x = [io EXCEPT !.file = @ \o SubSeq(io.pending, 1, k - 1) \o tail,
                            !.pending = SubSeq(@, k, Len(@)), !.ok = FALSE]
      BY FlushCases
<1> QED BY <1>2, <1>3, <1>4, Zenon

-----------------------------------------------------------------------------
(* The ledger's operations, as the journal's outcomes meet them. *)

LedgerNow == [log |-> WholeLines, durable |-> DurableLines, failed |-> poisoned]

LEMMA NowImage ==
    /\ LedgerNow = Image(file, synced, poisoned)
    /\ LedgerNow' = Image(file', synced', poisoned')
BY DEF LedgerNow, Image, Whole, WholeLines, DurableLines

LEMMA AppendMaps ==
    ASSUME open, open' = open, NEW e \in LineOffers, LedgerNow' \in Abstract!Appended(LedgerNow, e)
    PROVE  Abstract!LedgerNext
<1>1. Abstract!AppendRecord
      BY DEF Abstract!AppendRecord, LedgerNow
<1> QED BY <1>1 DEF Abstract!LedgerNext

LEMMA PairMaps ==
    ASSUME open, open' = open, NEW e1 \in LineOffers, NEW e2 \in LineOffers,
           LedgerNow' \in Abstract!AppendedPair(LedgerNow, e1, e2)
    PROVE  Abstract!LedgerNext
<1>1. Abstract!AppendPair
      BY DEF Abstract!AppendPair, LedgerNow
<1> QED BY <1>1 DEF Abstract!LedgerNext

\* The outcome of one written line is one of an append's.
LEMMA WroteAppended ==
    ASSUME NEW f, Clean(f), NEW k \in 0 .. Len(f), NEW r \in Lines, NEW x,
           WroteLedger(f, k, r, IsCriticalEventType(r.type), x)
    PROVE  Image(x.file, x.synced, ~x.ok) \in Abstract!Appended(LedgerOf(f, k, FALSE), r)
<1> DEFINE L == LedgerOf(f, k, FALSE)
           g == f \o <<r>>
           c == IsCriticalEventType(r.type)
<1>1. Clean(g) /\ Len(g) = Len(f) + 1 /\ Len(f) \in Nat /\ f \o <<>> = f
  <2>1. f \o <<>> = f
        BY DEF Clean
  <2> QED BY <2>1, CleanAppend
<1>2. /\ Abstract!Failed(L, <<>>) = LedgerOf(f, k, TRUE)
      /\ Abstract!Failed(L, <<r>>) = LedgerOf(g, k, TRUE)
      /\ Abstract!Written(L, <<r>>) = LedgerOf(g, k, FALSE)
      /\ Abstract!Synced(L, <<r>>) = LedgerOf(g, Len(g), FALSE)
      BY <1>1 DEF Abstract!Failed, Abstract!Written, Abstract!Synced, Abstract!Ledger, LedgerOf
<1>3. Abstract!Appended(L, r) =
         { IF c THEN LedgerOf(g, Len(g), FALSE) ELSE LedgerOf(g, k, FALSE) }
         \cup { LedgerOf(f, k, TRUE), LedgerOf(g, k, TRUE) }
  <2>1. ~L.failed
        BY DEF LedgerOf
  <2>2. Abstract!IsCriticalEventType(r.type) = c
        BY DEF Abstract!IsCriticalEventType, IsCriticalEventType, Abstract!CriticalEventTypes,
               CriticalEventTypes
  <2> HIDE DEF L, g, c
  <2> QED BY <1>2, <2>1, <2>2 DEF Abstract!Appended
<1>4. CASE x.ok = TRUE /\ x.file = g /\ x.synced = IF c THEN Len(f) + 1 ELSE k
  <2>1. x.synced \in 0 .. Len(g)
        BY <1>1, <1>4
  <2>2. Image(g, x.synced, FALSE) = LedgerOf(g, x.synced, FALSE)
    <3> HIDE DEF g
    <3> QED BY <1>1, <2>1, CleanImage DEF LedgerOf
  <2>3. Image(x.file, x.synced, ~x.ok) = LedgerOf(g, x.synced, FALSE)
        BY <1>4, <2>2
  <2>4. LedgerOf(g, x.synced, FALSE) = IF c THEN LedgerOf(g, Len(g), FALSE) ELSE LedgerOf(g, k, FALSE)
        BY <1>1, <1>4
  <2> HIDE DEF g, c
  <2> QED BY <1>3, <2>3, <2>4
<1>5. CASE x.ok = FALSE /\ (\/ Image(x.file, x.synced, TRUE) = LedgerOf(f, k, TRUE)
                            \/ Image(x.file, x.synced, TRUE) = LedgerOf(g, k, TRUE))
  <2>1. Image(x.file, x.synced, ~x.ok) = Image(x.file, x.synced, TRUE)
        BY <1>5
  <2> HIDE DEF g, c
  <2> QED BY <1>3, <1>5, <2>1
<1> QED BY <1>4, <1>5 DEF WroteLedger

\* And the outcomes of two are those of a pair.
LEMMA WrotePair ==
    ASSUME NEW f, Clean(f), NEW k \in 0 .. Len(f), NEW r \in Lines, NEW q \in Lines, NEW x,
           \/ WroteLedger(f, k, r, FALSE, x) /\ x.ok = FALSE
           \/ WroteLedger(f \o <<r>>, k, q, TRUE, x)
    PROVE  Image(x.file, x.synced, ~x.ok) \in Abstract!AppendedPair(LedgerOf(f, k, FALSE), r, q)
<1> DEFINE L == LedgerOf(f, k, FALSE)
           g == f \o <<r>>
           h == g \o <<q>>
<1>1. Clean(g) /\ Len(g) = Len(f) + 1 /\ Len(f) \in Nat /\ f \o <<>> = f
  <2>1. f \o <<>> = f
        BY DEF Clean
  <2> QED BY <2>1, CleanAppend
<1>2. Clean(h) /\ Len(h) = Len(g) + 1
      BY <1>1, CleanAppend
<1>3. f \o <<r, q>> = h
  <2>1. f \in Seq(Lines \cup { Torn }) /\ <<r>> \in Seq(Lines) /\ <<q>> \in Seq(Lines)
        BY DEF Clean
  <2>2. <<r>> \o <<q>> = <<r, q>>
    <3> DEFINE a == <<r>> \o <<q>>
               b == <<r, q>>
    <3>1. a \in Seq(Lines) /\ Len(a) = 2 /\ a[1] = r /\ a[2] = q
          OBVIOUS
    <3>2. b \in Seq(Lines) /\ Len(b) = 2 /\ b[1] = r /\ b[2] = q
          OBVIOUS
    <3> HIDE DEF a, b
    <3>3. \A i \in 1 .. Len(a) : a[i] = b[i]
      <4>1. \A i \in 1 .. 2 : i = 1 \/ i = 2
            OBVIOUS
      <4> QED BY <3>1, <3>2, <4>1
    <3>4. a = b
          BY <3>1, <3>2, <3>3, SeqEqual
    <3> QED BY <3>4 DEF a, b
  <2>3. f \o (<<r>> \o <<q>>) = (f \o <<r>>) \o <<q>>
        BY <2>1, ConcatAssociative
  <2> QED BY <2>2, <2>3
<1>4. /\ Abstract!Failed(L, <<>>) = LedgerOf(f, k, TRUE)
      /\ Abstract!Failed(L, <<r>>) = LedgerOf(g, k, TRUE)
      /\ Abstract!Failed(L, <<r, q>>) = LedgerOf(h, k, TRUE)
      /\ Abstract!Synced(L, <<r, q>>) = LedgerOf(h, Len(h), FALSE)
      BY <1>1, <1>3 DEF Abstract!Failed, Abstract!Synced, Abstract!Ledger, LedgerOf
<1>5. Abstract!AppendedPair(L, r, q) =
         { LedgerOf(h, Len(h), FALSE) }
         \cup { LedgerOf(f, k, TRUE), LedgerOf(g, k, TRUE), LedgerOf(h, k, TRUE) }
  <2>1. ~L.failed
        BY DEF LedgerOf
  <2> HIDE DEF L, g, h
  <2> QED BY <1>4, <2>1 DEF Abstract!AppendedPair
<1>6. CASE x.ok = TRUE /\ x.file = h /\ x.synced = Len(g) + 1
  <2>1. x.synced \in 0 .. Len(h) /\ x.synced = Len(h)
        BY <1>1, <1>2, <1>6
  <2>2. Image(h, x.synced, FALSE) = LedgerOf(h, Len(h), FALSE)
    <3> HIDE DEF h
    <3> QED BY <1>2, <2>1, CleanImage DEF LedgerOf
  <2>3. Image(x.file, x.synced, ~x.ok) = LedgerOf(h, Len(h), FALSE)
        BY <1>6, <2>2
  <2> HIDE DEF g, h
  <2> QED BY <1>5, <2>3
<1>7. CASE x.ok = FALSE /\ (\/ Image(x.file, x.synced, TRUE) = LedgerOf(f, k, TRUE)
                            \/ Image(x.file, x.synced, TRUE) = LedgerOf(g, k, TRUE)
                            \/ Image(x.file, x.synced, TRUE) = LedgerOf(h, k, TRUE))
  <2>1. Image(x.file, x.synced, ~x.ok) = Image(x.file, x.synced, TRUE)
        BY <1>7
  <2> HIDE DEF g, h
  <2> QED BY <1>5, <1>7, <2>1
<1> QED BY <1>6, <1>7 DEF WroteLedger

-----------------------------------------------------------------------------
(* The steps. *)

\* Nothing is pending while the journal that writes at once is usable.
Direct == Unbuffered /\ open /\ ~poisoned => pending = <<>>

Implemented ==
    /\ Abstract!LedgerNext \/ UNCHANGED Abstract!ledgerVars
    /\ open' /\ ~poisoned' => pending' = <<>>

LEMMA Usable ==
    ASSUME IInv, Direct, Unbuffered, open, ~poisoned
    PROVE  /\ Io \in Ios /\ Io.ok = TRUE /\ Io.file = file /\ Io.synced = synced
           /\ Io.pending = <<>> /\ Clean(file) /\ synced \in 0 .. Len(file)
           /\ LedgerNow = LedgerOf(file, synced, FALSE)
<1>1. /\ Io \in Ios /\ Io.ok = TRUE /\ Io.file = file /\ Io.synced = synced /\ Io.pending = <<>>
      BY IoHolds DEF Io, Direct
<1>2. Clean(file)
  <2>1. TornInv(Io) /\ Io.ok
        BY IoHolds DEF IoInv
  <2> QED BY <1>1, <2>1, IosFacts DEF TornInv, Clean
<1>3. synced \in 0 .. Len(file)
      BY DEF IInv, TypeOK
<1>4. LedgerNow = Image(file, synced, FALSE)
  <2>1. poisoned = FALSE
        BY DEF IInv, TypeOK
  <2> QED BY <2>1, NowImage
<1>5. Image(file, synced, FALSE) = LedgerOf(file, synced, FALSE)
      BY <1>2, <1>3, CleanImage DEF LedgerOf
<1> QED BY <1>1, <1>2, <1>3, <1>4, <1>5

LEMMA CommitImage ==
    ASSUME NEW x, Commit(x)
    PROVE  LedgerNow' = Image(x.file, x.synced, ~x.ok)
BY NowImage DEF Commit

LEMMA AppendImplements ==
    ASSUME IInv, Direct, Unbuffered, NEW t \in EventTypes, AppendLine(t)
    PROVE  Implemented
<1> DEFINE r == [id |-> next, type |-> t]
<1>1. open /\ ~poisoned /\ next <= MaxAppends /\ open' = open
      BY DEF AppendLine
<1>2. /\ Io \in Ios /\ Io.ok = TRUE /\ Io.file = file /\ Io.synced = synced
      /\ Io.pending = <<>> /\ Clean(file) /\ synced \in 0 .. Len(file)
      /\ LedgerNow = LedgerOf(file, synced, FALSE)
      BY <1>1, Usable
<1>3. next \in 1 .. MaxAppends
      BY <1>1, JournalConstants DEF IInv, TypeOK
<1>4. r \in Lines /\ r \in LineOffers /\ r.type = t
      BY <1>3 DEF Lines, LineOffers
<1>5. PICK x : /\ Commit(x)
               /\ \/ IsCriticalEventType(t) /\ x \in AppendCriticalSync(r)
                  \/ /\ ~IsCriticalEventType(t)
                     /\ \E flush \in FlushDecisions(r) : x \in AppendBuffered(r, flush)
      BY DEF AppendLine, Unbuffered
<1> HIDE DEF r
<1>6. WroteLedger(file, synced, r, IsCriticalEventType(t), x) /\ (x.ok => x.pending = <<>>)
  <2>1. CASE IsCriticalEventType(t) /\ x \in AppendCriticalSync(r)
    <3>1. \A y \in FlushPending(Io) : y = Io
          BY <1>2, FlushNothing
    <3>2. x \in WriteLineToPinnedFileLocked(Io, r, TRUE)
          BY <1>2, <2>1, <3>1 DEF AppendCriticalSync, Then, Continues, Unbuffered
    <3>3. WroteLedger(file, synced, r, TRUE, x) /\ x.pending = <<>>
          BY <1>2, <1>4, <3>2, WriteLedger
    <3>4. IsCriticalEventType(t) = TRUE
          BY <2>1 DEF IsCriticalEventType
    <3> QED BY <3>3, <3>4
  <2>2. CASE /\ ~IsCriticalEventType(t)
             /\ \E flush \in FlushDecisions(r) : x \in AppendBuffered(r, flush)
    <3>1. FlushDecisions(r) = { TRUE }
      <4>1. FlushIntervalZero \/ BatchSize = 1
            BY DEF Unbuffered
      <4>2. Len(pending) = 0
            BY <1>1 DEF Direct
      <4>3. BatchSize = 1 => Len(pending) + 1 >= BatchSize
            BY <4>2
      <4> QED BY <4>1, <4>3 DEF FlushDecisions
    <3> DEFINE y == QueueLineLocked(Io, r)
    <3>2. x \in FlushPending(y)
          BY <2>2, <3>1 DEF AppendBuffered, Unbuffered
    <3>3. /\ y \in Ios /\ y.ok = TRUE /\ y.file = file /\ y.synced = synced
          /\ Len(y.pending) = 1 /\ y.pending[1] = r
      <4>1. /\ y.file = Io.file /\ y.synced = Io.synced /\ y.ok = Io.ok
            /\ y.pending = Append(Io.pending, r)
            BY <1>2 DEF QueueLineLocked, Ios
      <4> DEFINE p == Append(Io.pending, r)
      <4>2. p \in Seq(Lines) /\ Len(p) = 1 /\ p[1] = r
            BY <1>2, <1>4
      <4> HIDE DEF p
      <4>3. y = [Io EXCEPT !.pending = p]
            BY DEF QueueLineLocked, p
      <4>4. y \in Ios
            BY <1>2, <4>2, <4>3 DEF Ios
      <4> QED BY <1>2, <4>1, <4>2, <4>4 DEF p
    <3> HIDE DEF y
    <3>4. WroteLedger(y.file, y.synced, r, FALSE, x) /\ (x.ok => x.pending = <<>>)
          BY <1>2, <1>4, <3>2, <3>3, FlushOne
    <3>5. IsCriticalEventType(t) = FALSE
          BY <2>2 DEF IsCriticalEventType
    <3> QED BY <3>3, <3>4, <3>5
  <2> QED BY <1>5, <2>1, <2>2
<1>7. LedgerNow' \in Abstract!Appended(LedgerNow, r)
  <2>1. Image(x.file, x.synced, ~x.ok) \in Abstract!Appended(LedgerOf(file, synced, FALSE), r)
        BY <1>2, <1>4, <1>6, WroteAppended
  <2>2. LedgerNow' = Image(x.file, x.synced, ~x.ok)
        BY <1>5, CommitImage
  <2> QED BY <1>2, <2>1, <2>2
<1>8. Abstract!LedgerNext
      BY <1>1, <1>4, <1>7, AppendMaps
<1>9. ~poisoned' => pending' = <<>>
      BY <1>5, <1>6 DEF Commit
<1> QED BY <1>8, <1>9 DEF Implemented

LEMMA PairImplements ==
    ASSUME IInv, Direct, Unbuffered, AppendDurablePair
    PROVE  Implemented
<1>1. open /\ ~poisoned /\ next + 1 <= MaxAppends /\ open' = open
      BY DEF AppendDurablePair
<1>2. /\ Io \in Ios /\ Io.ok = TRUE /\ Io.file = file /\ Io.synced = synced
      /\ Io.pending = <<>> /\ Clean(file) /\ synced \in 0 .. Len(file)
      /\ LedgerNow = LedgerOf(file, synced, FALSE)
      BY <1>1, Usable
<1>3. next \in 1 .. MaxAppends /\ next + 1 \in 1 .. MaxAppends
      BY <1>1, JournalConstants DEF IInv, TypeOK
<1>4. Intent \in Lines /\ Attempt \in Lines /\ Intent \in LineOffers /\ Attempt \in LineOffers
  <2>1. Intent \in Lines /\ Attempt \in Lines
        BY <1>3, PairLines DEF Intent, Attempt
  <2> QED BY <1>3, <2>1 DEF Intent, Attempt, LineOffers
<1>5. PICK x \in PairOutcomes : Commit(x)
      BY DEF AppendDurablePair, PairOutcomes, Intent, Attempt
<1> DEFINE W == WriteLineToPinnedFileLocked(Io, Intent, FALSE)
           V(z) == WriteLineToPinnedFileLocked(z, Attempt, TRUE)
<1>6. \/ x \in W /\ ~x.ok
      \/ \E z \in W : z.ok /\ x \in V(z)
  <2>1. \A y \in FlushPending(Io) : y = Io
        BY <1>2, FlushNothing
  <2>2. ~AsyncEnabled
        BY DEF Unbuffered
  <2>3. \A y \in IF AsyncEnabled /\ ~CriticalFlushQueued THEN { Io } ELSE FlushPending(Io) : y = Io
        BY <2>1
  <2> DEFINE U(y) == WriteLineToPinnedFileLocked(y, Intent, FALSE)
             S == IF AsyncEnabled /\ ~CriticalFlushQueued THEN { Io } ELSE FlushPending(Io)
  <2>4. /\ x \in Then(S, LAMBDA y : Then(U(y), V))
        /\ \A y \in S : y = Io
        BY <2>3 DEF PairOutcomes
  <2>5. W = U(Io)
        OBVIOUS
  <2> HIDE DEF S, W, U, V
  <2> QED BY <1>2, <2>4, <2>5 DEF Then, Continues
<1>7. ASSUME NEW z \in W
      PROVE  WroteLedger(file, synced, Intent, FALSE, z) /\ z.pending = <<>> /\ z \in Ios
  <2>1. WroteLedger(file, synced, Intent, FALSE, z) /\ z.pending = <<>>
        BY <1>2, <1>4, <1>7, WriteLedger
  <2>2. z \in Ios
        BY <1>2, <1>4, <1>7, WriteOutcome
  <2> QED BY <2>1, <2>2
<1> HIDE DEF W
<1>8. \/ WroteLedger(file, synced, Intent, FALSE, x) /\ x.ok = FALSE
      \/ WroteLedger(file \o <<Intent>>, synced, Attempt, TRUE, x) /\ x.pending = <<>>
  <2>1. CASE x \in W /\ ~x.ok
        BY <1>7, <2>1 DEF WroteLedger
  <2>2. ASSUME NEW z \in W, z.ok, x \in V(z)
        PROVE  WroteLedger(file \o <<Intent>>, synced, Attempt, TRUE, x) /\ x.pending = <<>>
    <3>1. z.ok = TRUE /\ z.file = file \o <<Intent>> /\ z.synced = synced
          BY <1>7, <2>2 DEF WroteLedger
    <3>2. Clean(z.file)
          BY <1>2, <1>4, <3>1, CleanAppend
    <3>3. WroteLedger(z.file, z.synced, Attempt, TRUE, x) /\ x.pending = z.pending
          BY <1>4, <1>7, <2>2, <3>1, <3>2, WriteLedger
    <3> QED BY <1>7, <3>1, <3>3
  <2> QED BY <1>6, <2>1, <2>2
<1>9. LedgerNow' \in Abstract!AppendedPair(LedgerNow, Intent, Attempt)
  <2>1. Image(x.file, x.synced, ~x.ok)
            \in Abstract!AppendedPair(LedgerOf(file, synced, FALSE), Intent, Attempt)
        BY <1>2, <1>4, <1>8, WrotePair
  <2>2. LedgerNow' = Image(x.file, x.synced, ~x.ok)
        BY <1>5, CommitImage
  <2> QED BY <1>2, <2>1, <2>2
<1>10. Abstract!LedgerNext
      BY <1>1, <1>4, <1>9, PairMaps
<1>11. ~poisoned' => pending' = <<>>
      BY <1>5, <1>8 DEF Commit
<1> QED BY <1>10, <1>11 DEF Implemented

LEMMA ReplayImplements ==
    ASSUME IInv, Direct, Unbuffered, Replay
    PROVE  Implemented
<1>1. open /\ ~poisoned /\ open' = open
      BY DEF Replay
<1>2. /\ Io \in Ios /\ Io.ok = TRUE /\ Io.file = file /\ Io.synced = synced
      /\ Io.pending = <<>> /\ Clean(file) /\ synced \in 0 .. Len(file)
      /\ LedgerNow = LedgerOf(file, synced, FALSE)
      BY <1>1, Usable
<1>3. PICK io \in FlushPending(Io) :
         \/ ~io.ok
         \/ Commit([io EXCEPT !.synced = Len(io.file)])
         \/ Commit([io EXCEPT !.ok = FALSE])
      BY DEF Replay
<1>4. io = Io
      BY <1>2, FlushNothing
<1>5. PICK x : /\ Commit(x) /\ x.file = file /\ x.pending = <<>>
               /\ \/ x.ok = TRUE /\ x.synced = Len(file)
                  \/ x.ok = FALSE /\ x.synced = synced
  <2>1. CASE Commit([io EXCEPT !.synced = Len(io.file)])
    <3> DEFINE x == [io EXCEPT !.synced = Len(io.file)]
    <3>1. x.file = file /\ x.pending = <<>> /\ x.ok = TRUE /\ x.synced = Len(file)
          BY <1>2, <1>4 DEF Ios
    <3> HIDE DEF x
    <3> QED BY <2>1, <3>1 DEF x
  <2>2. CASE Commit([io EXCEPT !.ok = FALSE])
    <3> DEFINE x == [io EXCEPT !.ok = FALSE]
    <3>1. x.file = file /\ x.pending = <<>> /\ x.ok = FALSE /\ x.synced = synced
          BY <1>2, <1>4 DEF Ios
    <3> HIDE DEF x
    <3> QED BY <2>2, <3>1 DEF x
  <2> QED BY <1>2, <1>3, <1>4, <2>1, <2>2
<1>6. LedgerNow' = Image(file, x.synced, ~x.ok)
      BY <1>5, CommitImage
<1>7. x.synced \in 0 .. Len(file)
      BY <1>2, <1>5 DEF Clean
<1>8. LedgerNow' = LedgerOf(file, x.synced, ~x.ok)
      BY <1>2, <1>6, <1>7, CleanImage DEF LedgerOf
<1> DEFINE L == LedgerOf(file, synced, FALSE)
<1>9. /\ Abstract!Flushed(L) = LedgerOf(file, Len(file), FALSE)
      /\ Abstract!Failed(L, <<>>) = LedgerOf(file, synced, TRUE)
      /\ L.failed = FALSE
  <2>1. file \o <<>> = file
        BY <1>2 DEF Clean
  <2> QED BY <2>1 DEF Abstract!Flushed, Abstract!Failed, Abstract!Ledger, LedgerOf
<1>10. LedgerNow' \in { Abstract!Flushed(LedgerNow), Abstract!Failed(LedgerNow, <<>>) }
      BY <1>2, <1>5, <1>8, <1>9
<1>11. Abstract!ReplayAll
  <2>1. ~LedgerNow.failed
        BY <1>2, <1>9
  <2> QED BY <1>1, <1>10, <2>1 DEF Abstract!ReplayAll, LedgerNow
<1>12. pending' = <<>>
      BY <1>5 DEF Commit
<1> QED BY <1>11, <1>12 DEF Implemented, Abstract!LedgerNext

LEMMA OpenImplements ==
    ASSUME IInv, Init_Open
    PROVE  Implemented
<1>1. /\ ~open /\ open' = TRUE /\ poisoned' = FALSE /\ pending' = <<>> /\ synced' = Len(file)
      /\ file' = file /\ (file # <<>> => file[Len(file)] # Torn)
      BY DEF Init_Open
<1>2. file \in Seq(Lines \cup { Torn }) /\ Whole(file) = file
      BY <1>1 DEF IInv, TypeOK, Whole
<1>3. Image(file, synced, poisoned).log = file
      BY <1>2 DEF Image
<1>4. Image(file, Len(file), FALSE) = LedgerOf(file, Len(file), FALSE)
      BY <1>2 DEF Image, LedgerOf
<1>5. LedgerNow' = Image(file, Len(file), FALSE) /\ LedgerNow = Image(file, synced, poisoned)
      BY <1>1, NowImage
<1>6. LedgerNow' = Abstract!Opened(LedgerNow)
      BY <1>3, <1>4, <1>5 DEF Abstract!Opened, Abstract!Ledger, LedgerOf
<1>7. Abstract!Open
      BY <1>1, <1>6 DEF Abstract!Open, LedgerNow
<1> QED BY <1>1, <1>7 DEF Implemented, Abstract!LedgerNext

LEMMA CloseMaps ==
    ASSUME open, open' = FALSE, LedgerNow' \in { LedgerNow, Abstract!Flushed(LedgerNow) }
    PROVE  Implemented
<1>1. Abstract!Close
      BY DEF Abstract!Close, LedgerNow
<1> QED BY <1>1 DEF Implemented, Abstract!LedgerNext

LEMMA DestroyImplements ==
    ASSUME IInv, Direct, Unbuffered, Destroy
    PROVE  Implemented
<1>1. open /\ open' = FALSE
      BY DEF Destroy
<1>2. PICK io \in IF poisoned THEN { [Io EXCEPT !.ok = FALSE] } ELSE FlushPending(Io) :
         Commit([io EXCEPT !.synced = IF io.ok THEN Len(io.file) ELSE @])
      BY DEF Destroy
<1> DEFINE s == [io EXCEPT !.synced = IF io.ok THEN Len(io.file) ELSE @]
<1>3. LedgerNow' = Image(s.file, s.synced, ~s.ok)
      BY <1>2, CommitImage
<1>4. CASE poisoned
  <2>1. io = [file |-> file, synced |-> synced, pending |-> pending, ok |-> FALSE]
        BY <1>2, <1>4 DEF Io
  <2>2. s.file = file /\ s.synced = synced /\ s.ok = FALSE
        BY <2>1
  <2>3. poisoned = TRUE
        BY <1>4 DEF IInv, TypeOK
  <2> HIDE DEF s
  <2>4. LedgerNow' = LedgerNow
        BY <1>3, <2>2, <2>3, NowImage
  <2> QED BY <1>1, <2>4, CloseMaps
<1>5. CASE ~poisoned
  <2>1. /\ Io \in Ios /\ Io.ok = TRUE /\ Io.file = file /\ Io.synced = synced
        /\ Io.pending = <<>> /\ Clean(file) /\ synced \in 0 .. Len(file)
        /\ LedgerNow = LedgerOf(file, synced, FALSE)
        BY <1>1, <1>5, Usable
  <2>2. io = Io
        BY <1>2, <1>5, <2>1, FlushNothing
  <2>3. s.file = file /\ s.synced = Len(file) /\ s.ok = TRUE
        BY <2>1, <2>2 DEF Ios
  <2> HIDE DEF s
  <2>4. Len(file) \in 0 .. Len(file)
        BY <2>1
  <2>5. LedgerNow' = LedgerOf(file, Len(file), FALSE)
    <3>1. LedgerNow' = Image(file, Len(file), FALSE)
          BY <1>3, <2>3
    <3>2. Image(file, Len(file), FALSE) = LedgerOf(file, Len(file), FALSE)
          BY <2>1, <2>4, CleanImage DEF LedgerOf
    <3> QED BY <3>1, <3>2
  <2>6. Abstract!Flushed(LedgerOf(file, synced, FALSE)) = LedgerOf(file, Len(file), FALSE)
        BY DEF Abstract!Flushed, Abstract!Ledger, LedgerOf
  <2>7. LedgerNow' = Abstract!Flushed(LedgerNow)
        BY <2>1, <2>5, <2>6
  <2> QED BY <1>1, <2>7, CloseMaps
<1> QED BY <1>4, <1>5

LEMMA ProcessCrashImplements ==
    ASSUME ProcessCrash
    PROVE  Implemented
<1>1. open /\ open' = FALSE /\ file' = file /\ synced' = synced /\ poisoned' = poisoned
      BY DEF ProcessCrash
<1>2. LedgerNow' = LedgerNow
      BY <1>1, NowImage
<1> QED BY <1>1, <1>2, CloseMaps

\* Whole lines: all of the file's, or all but the last.
LEMMA WholeFacts ==
    ASSUME NEW f \in Seq(Lines \cup { Torn })
    PROVE  /\ Whole(f) \in Seq(Lines \cup { Torn }) /\ Len(f) \in Nat /\ Len(Whole(f)) \in Nat
           /\ Len(Whole(f)) <= Len(f) /\ Len(f) <= Len(Whole(f)) + 1
           /\ \A i \in 1 .. Len(Whole(f)) : Whole(f)[i] = f[i]
<1>1. CASE f # <<>> /\ f[Len(f)] = Torn
  <2> DEFINE n == Len(f) - 1
             h == SubSeq(f, 1, n)
  <2>1. n \in 0 .. Len(f) /\ Len(f) \in Nat /\ n = Len(f) - 1
        BY <1>1
  <2>2. Whole(f) = h
        BY <1>1 DEF Whole
  <2> HIDE DEF n
  <2>3. h \in Seq(Lines \cup { Torn }) /\ Len(h) = n /\ \A i \in 1 .. n : h[i] = f[i]
        BY <2>1, PrefixFacts
  <2> HIDE DEF h
  <2> QED BY <2>1, <2>2, <2>3
<1>2. CASE ~(f # <<>> /\ f[Len(f)] = Torn)
  <2>1. Whole(f) = f
        BY <1>2 DEF Whole
  <2> QED BY <2>1
<1> QED BY <1>1, <1>2

\* A prefix of the whole lines that holds the durable ones survives a machine crash.
LEMMA TruncatedImage ==
    ASSUME NEW f \in Seq(Lines \cup { Torn }), \A i \in 1 .. Len(f) : f[i] = Torn => i = Len(f),
           NEW s \in 0 .. Len(f), NEW k \in s .. Len(f), NEW b,
           NEW tail, tail = <<>> \/ (tail = <<Torn>> /\ k < Len(f)),
           NEW g, g = SubSeq(f, 1, k) \o tail
    PROVE  Image(g, k + Len(tail), b) \in Abstract!Truncated(Image(f, s, b))
<1> DEFINE w == Whole(f)
           d == IF s <= Len(w) THEN s ELSE Len(w)
           h == SubSeq(f, 1, k)
<1>1. /\ w \in Seq(Lines \cup { Torn }) /\ Len(f) \in Nat /\ Len(w) \in Nat
      /\ Len(w) <= Len(f) /\ Len(f) <= Len(w) + 1 /\ \A i \in 1 .. Len(w) : w[i] = f[i]
      BY WholeFacts
<1>2. k \in 0 .. Len(f) /\ k \in Nat /\ s \in Nat /\ s <= k
      BY <1>1
<1>3. h \in Seq(Lines \cup { Torn }) /\ Len(h) = k /\ \A i \in 1 .. k : h[i] = f[i]
      BY <1>2, PrefixFacts
<1>4. Image(f, s, b) = LedgerOf(w, d, b)
      BY DEF Image, LedgerOf
<1>5. ASSUME NEW m \in d .. Len(w), Image(g, k + Len(tail), b) = LedgerOf(SubSeq(w, 1, m), m, b)
      PROVE  Image(g, k + Len(tail), b) \in Abstract!Truncated(Image(f, s, b))
  <2> HIDE DEF w, d, h
  <2> QED BY <1>4, <1>5 DEF Abstract!Truncated, Abstract!Ledger, LedgerOf
<1>6. d \in Nat /\ d <= Len(w) /\ d <= s
      BY <1>1, <1>2
<1> HIDE DEF w, d, h
<1>7. CASE k = Len(f)
  <2>1. tail = <<>>
        BY <1>1, <1>7
  <2>2. h = f
        BY <1>3, <1>7, SeqEqual
  <2>3. g = f /\ k + Len(tail) = Len(f)
        BY <1>1, <1>7, <2>1, <2>2 DEF h
  <2>4. SubSeq(w, 1, Len(w)) = w
    <3> DEFINE v == SubSeq(w, 1, Len(w))
    <3>1. Len(w) \in 0 .. Len(w)
          BY <1>1
    <3>2. v \in Seq(Lines \cup { Torn }) /\ Len(v) = Len(w) /\ \A i \in 1 .. Len(w) : v[i] = w[i]
          BY <1>1, <3>1, PrefixFacts
    <3> HIDE DEF v
    <3>3. v = w
          BY <1>1, <3>2, SeqEqual
    <3> QED BY <3>3 DEF v
  <2>5. (IF Len(f) <= Len(w) THEN Len(f) ELSE Len(w)) = Len(w)
        BY <1>1
  <2>6. Image(f, Len(f), b) = LedgerOf(w, Len(w), b)
        BY <2>5 DEF Image, LedgerOf, w
  <2>7. Len(w) \in d .. Len(w)
        BY <1>1, <1>6
  <2>8. Image(g, k + Len(tail), b) = LedgerOf(SubSeq(w, 1, Len(w)), Len(w), b)
        BY <2>3, <2>4, <2>6
  <2> QED BY <1>5, <2>7, <2>8
<1>8. CASE k < Len(f)
  <2>1. Clean(h)
    <3>1. \A i \in 1 .. k : i \in 1 .. Len(f) /\ i # Len(f)
          BY <1>1, <1>2, <1>8
    <3>2. \A i \in 1 .. Len(h) : h[i] # Torn
          BY <1>3, <3>1
    <3> QED BY <1>3, <3>2 DEF Clean
  <2>2. k <= Len(w) /\ k \in d .. Len(w) /\ k \in 0 .. Len(w)
        BY <1>1, <1>2, <1>6, <1>8
  <2>3. SubSeq(w, 1, k) = h
    <3> DEFINE v == SubSeq(w, 1, k)
    <3>1. v \in Seq(Lines \cup { Torn }) /\ Len(v) = k /\ \A i \in 1 .. k : v[i] = w[i]
          BY <1>1, <2>2, PrefixFacts
    <3> HIDE DEF v
    <3>2. \A i \in 1 .. k : i \in 1 .. Len(w)
          BY <1>1, <1>2, <2>2
    <3>3. \A i \in 1 .. Len(v) : v[i] = h[i]
          BY <1>1, <1>3, <3>1, <3>2
    <3>4. v = h
          BY <1>3, <3>1, <3>3, SeqEqual
    <3> QED BY <3>4 DEF v
  <2>4. CASE tail = <<>>
    <3>1. g = h /\ k + Len(tail) = k
          BY <1>2, <1>3, <2>4 DEF h
    <3>2. k \in 0 .. Len(h)
          BY <1>2, <1>3
    <3>3. Image(h, k, b) = LedgerOf(h, k, b)
          BY <2>1, <3>2, CleanImage DEF LedgerOf
    <3>4. Image(g, k + Len(tail), b) = LedgerOf(SubSeq(w, 1, k), k, b)
          BY <2>3, <3>1, <3>3
    <3> QED BY <1>5, <2>2, <3>4
  <2>5. CASE tail = <<Torn>>
    <3>1. g = h \o <<Torn>> /\ k + Len(tail) = k + 1
          BY <2>5 DEF h
    <3>2. Whole(g) = h
          BY <2>1, <3>1, TornWhole
    <3>3. ~(k + 1 <= Len(h)) /\ Len(h) = k
          BY <1>2, <1>3
    <3>4. Image(g, k + 1, b) = LedgerOf(h, k, b)
          BY <3>2, <3>3 DEF Image, LedgerOf
    <3>5. Image(g, k + Len(tail), b) = LedgerOf(SubSeq(w, 1, k), k, b)
          BY <2>3, <3>1, <3>4
    <3> QED BY <1>5, <2>2, <3>5
  <2> QED BY <2>4, <2>5
<1> QED BY <1>1, <1>2, <1>7, <1>8

LEMMA MachineCrashImplements ==
    ASSUME IInv, MachineCrash
    PROVE  Implemented
<1>1. open' = FALSE /\ poisoned' = poisoned
      BY DEF MachineCrash
<1>2. /\ file \in Seq(Lines \cup { Torn }) /\ synced \in 0 .. Len(file)
      /\ \A i \in 1 .. Len(file) : file[i] = Torn => i = Len(file)
  <2>1. TornInv(Current) /\ Current.file = file
        BY DEF IInv, IoInv, Current
  <2> QED BY <2>1 DEF IInv, TypeOK, TornInv
<1>3. PICK k \in synced .. Len(file) :
         \E tail \in IF k < Len(file) THEN { <<>>, <<Torn>> } ELSE { <<>> } :
            file' = SubSeq(file, 1, k) \o tail /\ synced' = k + Len(tail)
      BY DEF MachineCrash
<1>4. PICK tail :
         /\ tail = <<>> \/ (tail = <<Torn>> /\ k < Len(file))
         /\ file' = SubSeq(file, 1, k) \o tail /\ synced' = k + Len(tail)
      BY <1>3
<1> DEFINE g == SubSeq(file, 1, k) \o tail
<1>5. g = SubSeq(file, 1, k) \o tail /\ LedgerNow' = Image(g, k + Len(tail), poisoned)
      BY <1>1, <1>4, NowImage
<1> HIDE DEF g
<1>6. Image(g, k + Len(tail), poisoned) \in Abstract!Truncated(Image(file, synced, poisoned))
      BY <1>2, <1>3, <1>4, <1>5, TruncatedImage
<1>7. LedgerNow' \in Abstract!Truncated(LedgerNow)
      BY <1>5, <1>6, NowImage
<1>8. Abstract!Crash
      BY <1>1, <1>7 DEF Abstract!Crash, LedgerNow
<1> QED BY <1>1, <1>8 DEF Implemented, Abstract!LedgerNext

LEMMA StepImplements ==
    ASSUME IInv, Direct, Unbuffered, Next
    PROVE  Implemented
<1>1. ~WorkerLoop
      BY DEF WorkerLoop, Unbuffered
<1>2. CASE \E t \in EventTypes : AppendLine(t)
      BY <1>2, AppendImplements
<1>3. CASE AppendDurablePair
      BY <1>3, PairImplements
<1>4. CASE Replay
      BY <1>4, ReplayImplements
<1>5. CASE Init_Open
      BY <1>5, OpenImplements
<1>6. CASE Destroy
      BY <1>6, DestroyImplements
<1>7. CASE ProcessCrash
      BY <1>7, ProcessCrashImplements
<1>8. CASE MachineCrash
      BY <1>8, MachineCrashImplements
<1> QED BY <1>1, <1>2, <1>3, <1>4, <1>5, <1>6, <1>7, <1>8 DEF Next

LEMMA NextDirect ==
    ASSUME IInv, Direct, [Next]_vars
    PROVE  Direct'
<1>1. CASE Next
  <2>1. Unbuffered' = Unbuffered
        BY <1>1 DEF Next, Unbuffered, SyncCritical, AsyncEnabled, FlushIntervalZero, BatchSize
  <2>2. Unbuffered => Implemented
        BY <1>1, StepImplements
  <2> QED BY <2>1, <2>2 DEF Direct, Implemented
<1>2. CASE UNCHANGED vars
      BY <1>2 DEF vars, Direct, Unbuffered, SyncCritical, AsyncEnabled, FlushIntervalZero, BatchSize
<1> QED BY <1>1, <1>2

LEMMA InitImplements ==
    ASSUME Init
    PROVE  Abstract!LedgerInit
<1>1. Whole(file) = <<>> /\ Len(<<>>) = 0
      BY DEF Init, Whole
<1>2. WholeLines = <<>> /\ DurableLines = 0
      BY <1>1 DEF WholeLines, DurableLines, Init, Whole
<1> QED BY <1>2 DEF Abstract!LedgerInit, Abstract!EmptyLedger, Abstract!Ledger, Init

\* The journal that writes every line at once (critical sync on, no worker, a flush at
\* every append) is an implementation of the durable ledger on which the execution
\* coordinator's model is built: every append, pair, replay, reopening, write fault,
\* fragment and crash of it is a step that LedgerService allows.
THEOREM JournalImplementsLedger == Spec => ImplementsLedger
<1> DEFINE A == Unbuffered => Abstract!LedgerNext \/ UNCHANGED Abstract!ledgerVars
<1>1. Init => Direct /\ (Unbuffered => Abstract!LedgerInit)
  <2>1. Init => Direct
        BY DEF Init, Direct
  <2> QED BY <2>1, InitImplements
<1>2. IInv /\ Direct /\ [Next]_vars => Direct'
      BY NextDirect
<1>3. IInv /\ Direct /\ [Next]_vars => [A]_vars
  <2>1. IInv /\ Direct /\ Next => A
        BY StepImplements DEF Implemented
  <2> QED BY <2>1
<1>4. Spec => []Direct
      BY <1>1, <1>2, JournalInvariant, PTL DEF Spec
<1> QED BY <1>1, <1>3, <1>4, JournalInvariant, PTL DEF Spec, ImplementsLedger

=============================================================================
