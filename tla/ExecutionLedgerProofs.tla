----------------------- MODULE ExecutionLedgerProofs ------------------------
(***************************************************************************)
(* The inductive invariant of the execution coordinator, and the facts     *)
(* about ledgers and replay that its proof rests on.                       *)
(***************************************************************************)
EXTENDS ExecutionCoordinator, WellFoundedInduction, TLAPS

-----------------------------------------------------------------------------
(* Ledgers. *)

Ledgers ==
    { L \in [log : Seq(Lines), durable : Nat, failed : BOOLEAN] : L.durable <= Len(L.log) }

\* M extends L by lines of E, and is L if L had failed.
Grows(L, M, E) ==
    /\ M \in Ledgers
    /\ Len(L.log) <= Len(M.log) /\ L.durable <= M.durable
    /\ \A i \in 1 .. Len(L.log) : M.log[i] = L.log[i]
    /\ \A i \in (Len(L.log) + 1) .. Len(M.log) : M.log[i] \in E
    /\ L.failed => M = L

\* Whether line i of a log is a line of command c that records its intent, or
\* its send attempt.
IntentAt(log, c, i)  == c \in log[i].cmds /\ IsIntent(log[i])
AttemptAt(log, c, i) == c \in log[i].cmds /\ IsSendAttempt(log[i])

\* The intent and the send attempt of c are durable.
DurableSend(L, c) ==
    \E i, j \in 1 .. L.durable : IntentAt(L.log, c, i) /\ AttemptAt(L.log, c, j)

\* No projection failure is recorded after the terminal fence.
HaltedLast(log) ==
    \A i, j \in DOMAIN log :
        log[i].type = "paper_terminal_fence" /\ log[j].type = "execution_projection_failed"
            => j < i

-----------------------------------------------------------------------------
(* The inductive invariant. *)

\* A failed append blocks, a coordinator without its projection has no handler
\* outside the mutex, and nothing survives the process.
BlockInv ==
    /\ FailedBlocks
    /\ block = REPLAY => \A c \in Commands : flight[c] = "idle"
    /\ ~up => block = NONE /\ ~terminal /\ \A c \in Commands : flight[c] = "idle"

\* The memory knows every command with an intent in a healthy ledger, a call is
\* made or about to be made only for a durable command, and only once.
SendInv ==
    \A c \in Commands :
        /\ up /\ ~ledger.failed /\ block # REPLAY /\ rec[c] = NoRecord
              => \A i \in DOMAIN ledger.log : ~IntentAt(ledger.log, c, i)
        /\ sends[c] > 0 \/ flight[c] = "calling" => DurableSend(ledger, c)
        /\ flight[c] = "calling" => sends[c] = 0
        /\ sends[c] <= 1

\* The terminal fence holds the block, in memory and in what replay rebuilds.
QuietInv ==
    /\ QuietFences
    /\ terminal => block \in {HALTED, WRITE, REPLAY, INGRESS}
    /\ up /\ ~ledger.failed /\ block # REPLAY => terminal = ReplayTerminal(ledger.log)
    /\ HaltedLast(ledger.log)

IInv == TypeOK /\ BlockInv /\ SendInv /\ QuietInv

-----------------------------------------------------------------------------
(* Lemmas about ledgers. *)

\* A ledger extends itself.
LEMMA GrowsRefl ==
    ASSUME NEW L \in Ledgers, NEW E
    PROVE  Grows(L, L, E)
BY DEF Grows, Ledgers

\* Extensions compose.
LEMMA GrowsTrans ==
    ASSUME NEW L \in Ledgers, NEW M, NEW N, NEW E, Grows(L, M, E), Grows(M, N, E)
    PROVE  Grows(L, N, E)
<1> USE DEF Ledgers
<1>1. /\ N \in Ledgers /\ Len(L.log) \in Nat /\ Len(M.log) \in Nat /\ Len(N.log) \in Nat
      /\ Len(L.log) <= Len(M.log) /\ Len(M.log) <= Len(N.log)
      /\ L.durable <= N.durable
      BY DEF Grows
<1>2. \A i \in 1 .. Len(L.log) : N.log[i] = L.log[i]
      BY <1>1 DEF Grows
<1>3. \A i \in (Len(L.log) + 1) .. Len(N.log) : N.log[i] \in E
  <2> SUFFICES ASSUME NEW i \in (Len(L.log) + 1) .. Len(N.log)
               PROVE  N.log[i] \in E
      OBVIOUS
  <2>1. CASE i <= Len(M.log)
        BY <1>1, <2>1 DEF Grows
  <2>2. CASE i > Len(M.log)
        BY <1>1, <2>2 DEF Grows
  <2> QED BY <1>1, <2>1, <2>2
<1>4. L.failed => N = L
      BY DEF Grows
<1> QED BY <1>1, <1>2, <1>3, <1>4 DEF Grows

\* Lines of E written and synced extend a healthy ledger.
LEMMA SyncedGrows ==
    ASSUME NEW L \in Ledgers, ~L.failed, NEW E, NEW es \in Seq(Lines),
           \A i \in 1 .. Len(es) : es[i] \in E
    PROVE  /\ Grows(L, Synced(L, es), E)
           /\ ~Synced(L, es).failed
           /\ Len(Synced(L, es).log) = Len(L.log) + Len(es)
           /\ \A i \in 1 .. Len(es) : Synced(L, es).log[Len(L.log) + i] = es[i]
           /\ Synced(L, es).durable = Len(L.log) + Len(es)
<1> DEFINE both == L.log \o es
<1>1. /\ L.log \in Seq(Lines) /\ Len(L.log) \in Nat /\ Len(es) \in Nat
      /\ L.durable \in Nat /\ L.durable <= Len(L.log)
      BY DEF Ledgers
<1>2. /\ both \in Seq(Lines) /\ Len(both) = Len(L.log) + Len(es)
      /\ \A i \in 1 .. Len(L.log) : both[i] = L.log[i]
      /\ \A i \in 1 .. Len(es) : both[Len(L.log) + i] = es[i]
      BY <1>1
<1>3. \A i \in (Len(L.log) + 1) .. Len(both) : both[i] \in E
  <2> SUFFICES ASSUME NEW i \in (Len(L.log) + 1) .. Len(both)
               PROVE  both[i] \in E
      OBVIOUS
  <2>1. /\ i - Len(L.log) \in 1 .. Len(es)
        /\ Len(L.log) + (i - Len(L.log)) = i
        BY <1>1, <1>2
  <2> QED BY <1>2, <2>1
<1> HIDE DEF both
<1>4. /\ Synced(L, es) \in Ledgers
      /\ Synced(L, es).log = both
      /\ Synced(L, es).durable = Len(both)
      /\ Synced(L, es).failed = FALSE
      BY <1>1, <1>2 DEF Synced, Ledger, Ledgers, both
<1> QED BY <1>1, <1>2, <1>3, <1>4 DEF Grows

\* or only written,
LEMMA WrittenGrows ==
    ASSUME NEW L \in Ledgers, ~L.failed, NEW E, NEW es \in Seq(Lines),
           \A i \in 1 .. Len(es) : es[i] \in E
    PROVE  /\ Grows(L, Written(L, es), E)
           /\ ~Written(L, es).failed
           /\ Len(Written(L, es).log) = Len(L.log) + Len(es)
           /\ \A i \in 1 .. Len(es) : Written(L, es).log[Len(L.log) + i] = es[i]
<1> DEFINE both == L.log \o es
<1>1. /\ L.log \in Seq(Lines) /\ Len(L.log) \in Nat /\ Len(es) \in Nat
      /\ L.durable \in Nat /\ L.durable <= Len(L.log)
      BY DEF Ledgers
<1>2. /\ both \in Seq(Lines) /\ Len(both) = Len(L.log) + Len(es)
      /\ \A i \in 1 .. Len(L.log) : both[i] = L.log[i]
      /\ \A i \in 1 .. Len(es) : both[Len(L.log) + i] = es[i]
      BY <1>1
<1>3. \A i \in (Len(L.log) + 1) .. Len(both) : both[i] \in E
  <2> SUFFICES ASSUME NEW i \in (Len(L.log) + 1) .. Len(both)
               PROVE  both[i] \in E
      OBVIOUS
  <2>1. /\ i - Len(L.log) \in 1 .. Len(es)
        /\ Len(L.log) + (i - Len(L.log)) = i
        BY <1>1, <1>2
  <2> QED BY <1>2, <2>1
<1> HIDE DEF both
<1>4. /\ Written(L, es) \in Ledgers
      /\ Written(L, es).log = both
      /\ Written(L, es).durable = L.durable
      /\ Written(L, es).failed = FALSE
      BY <1>1, <1>2 DEF Written, Ledger, Ledgers, both
<1> QED BY <1>1, <1>2, <1>3, <1>4 DEF Grows

\* and when it fails.
LEMMA FailedGrows ==
    ASSUME NEW L \in Ledgers, ~L.failed, NEW E, NEW es \in Seq(Lines),
           \A i \in 1 .. Len(es) : es[i] \in E
    PROVE  Grows(L, Failed(L, es), E) /\ Failed(L, es).failed
<1> DEFINE both == L.log \o es
<1>1. /\ L.log \in Seq(Lines) /\ Len(L.log) \in Nat /\ Len(es) \in Nat
      /\ L.durable \in Nat /\ L.durable <= Len(L.log)
      BY DEF Ledgers
<1>2. /\ both \in Seq(Lines) /\ Len(both) = Len(L.log) + Len(es)
      /\ \A i \in 1 .. Len(L.log) : both[i] = L.log[i]
      /\ \A i \in 1 .. Len(es) : both[Len(L.log) + i] = es[i]
      BY <1>1
<1>3. \A i \in (Len(L.log) + 1) .. Len(both) : both[i] \in E
  <2> SUFFICES ASSUME NEW i \in (Len(L.log) + 1) .. Len(both)
               PROVE  both[i] \in E
      OBVIOUS
  <2>1. /\ i - Len(L.log) \in 1 .. Len(es)
        /\ Len(L.log) + (i - Len(L.log)) = i
        BY <1>1, <1>2
  <2> QED BY <1>2, <2>1
<1> HIDE DEF both
<1>4. /\ Failed(L, es) \in Ledgers
      /\ Failed(L, es).log = both
      /\ Failed(L, es).durable = L.durable
      /\ Failed(L, es).failed = TRUE
      BY <1>1, <1>2 DEF Failed, Ledger, Ledgers, both
<1> QED BY <1>1, <1>2, <1>3, <1>4 DEF Grows

\* What one append leaves, and that a successful one of a critical line makes
\* everything durable.
LEMMA AppendedGrows ==
    ASSUME NEW L \in Ledgers, NEW e \in Lines, NEW E, e \in E, NEW M \in Appended(L, e)
    PROVE  /\ Grows(L, M, E)
           /\ M \in Ledgers
           /\ ~M.failed => /\ ~L.failed
                           /\ Len(M.log) = Len(L.log) + 1
                           /\ M.log[Len(L.log) + 1] = e
                           /\ e.type \in CriticalEventTypes => M.durable = Len(M.log)
<1>1. CASE L.failed
      BY <1>1, GrowsRefl DEF Appended
<1>2. CASE ~L.failed
  <2> DEFINE none == <<>>
             one  == <<e>>
  <2>1. /\ none \in Seq(Lines) /\ Len(none) = 0
        /\ one \in Seq(Lines) /\ Len(one) = 1 /\ one[1] = e
        OBVIOUS
  <2>0. M \in { IF e.type \in CriticalEventTypes THEN Synced(L, one) ELSE Written(L, one),
                Failed(L, none), Failed(L, one) }
        BY <1>2 DEF Appended, IsCriticalEventType
  <2> HIDE DEF none, one
  <2>2. /\ \A i \in 1 .. Len(none) : none[i] \in E
        /\ \A i \in 1 .. Len(one) : one[i] \in E
        BY <2>1
  <2>3. CASE M = IF e.type \in CriticalEventTypes THEN Synced(L, one) ELSE Written(L, one)
    <3>1. /\ Grows(L, M, E)
          /\ Len(M.log) = Len(L.log) + Len(one)
          /\ \A i \in 1 .. Len(one) : M.log[Len(L.log) + i] = one[i]
          /\ e.type \in CriticalEventTypes => M.durable = Len(L.log) + Len(one)
          BY <1>2, <2>1, <2>2, <2>3, SyncedGrows, WrittenGrows, ZenonT(40)
    <3>2. M \in Ledgers /\ M.log[Len(L.log) + 1] = e
          BY <2>1, <3>1 DEF Grows
    <3> QED BY <1>2, <2>1, <3>1, <3>2
  <2>4. CASE M = Failed(L, none)
    <3>1. Grows(L, M, E) /\ M.failed
          BY <1>2, <2>1, <2>2, <2>4, FailedGrows, Zenon
    <3> QED BY <3>1 DEF Grows
  <2>5. CASE M = Failed(L, one)
    <3>1. Grows(L, M, E) /\ M.failed
          BY <1>2, <2>1, <2>2, <2>5, FailedGrows, Zenon
    <3> QED BY <3>1 DEF Grows
  <2> QED BY <2>0, <2>3, <2>4, <2>5
<1> QED BY <1>1, <1>2

\* The same for a durable pair.
LEMMA AppendedPairGrows ==
    ASSUME NEW L \in Ledgers, NEW e1 \in Lines, NEW e2 \in Lines,
           NEW E, e1 \in E, e2 \in E, NEW M \in AppendedPair(L, e1, e2)
    PROVE  /\ Grows(L, M, E)
           /\ M \in Ledgers
           /\ ~M.failed => /\ ~L.failed
                           /\ Len(M.log) = Len(L.log) + 2
                           /\ M.log[Len(L.log) + 1] = e1
                           /\ M.log[Len(L.log) + 2] = e2
                           /\ M.durable = Len(M.log)
<1>1. CASE L.failed
      BY <1>1, GrowsRefl DEF AppendedPair
<1>2. CASE ~L.failed
  <2> DEFINE none == <<>>
             one  == <<e1>>
             two  == <<e1, e2>>
  <2>1. /\ none \in Seq(Lines) /\ Len(none) = 0
        /\ one \in Seq(Lines) /\ Len(one) = 1 /\ one[1] = e1
        /\ two \in Seq(Lines) /\ Len(two) = 2 /\ two[1] = e1 /\ two[2] = e2
        OBVIOUS
  <2>0. M \in { Synced(L, two), Failed(L, none), Failed(L, one), Failed(L, two) }
        BY <1>2 DEF AppendedPair
  <2> HIDE DEF none, one, two
  <2>2. /\ \A i \in 1 .. Len(none) : none[i] \in E
        /\ \A i \in 1 .. Len(one) : one[i] \in E
        /\ \A i \in 1 .. Len(two) : two[i] \in E
        BY <2>1
  <2>3. CASE M = Synced(L, two)
    <3>1. /\ Grows(L, M, E)
          /\ Len(M.log) = Len(L.log) + Len(two)
          /\ \A i \in 1 .. Len(two) : M.log[Len(L.log) + i] = two[i]
          /\ M.durable = Len(L.log) + Len(two)
          BY <1>2, <2>1, <2>2, <2>3, SyncedGrows, Zenon
    <3>2. /\ M \in Ledgers
          /\ M.log[Len(L.log) + 1] = e1 /\ M.log[Len(L.log) + 2] = e2
          BY <2>1, <3>1 DEF Grows
    <3> QED BY <1>2, <2>1, <3>1, <3>2
  <2>4. CASE M = Failed(L, none)
    <3>1. Grows(L, M, E) /\ M.failed
          BY <1>2, <2>1, <2>2, <2>4, FailedGrows, Zenon
    <3> QED BY <3>1 DEF Grows
  <2>5. CASE M = Failed(L, one)
    <3>1. Grows(L, M, E) /\ M.failed
          BY <1>2, <2>1, <2>2, <2>5, FailedGrows, Zenon
    <3> QED BY <3>1 DEF Grows
  <2>6. CASE M = Failed(L, two)
    <3>1. Grows(L, M, E) /\ M.failed
          BY <1>2, <2>1, <2>2, <2>6, FailedGrows, Zenon
    <3> QED BY <3>1 DEF Grows
  <2> QED BY <2>0, <2>3, <2>4, <2>5, <2>6
<1> QED BY <1>1, <1>2

\* A nonempty set of line numbers has a latest one.
LEMMA LatestIn ==
    ASSUME NEW n \in Nat, NEW I \in SUBSET (1 .. n)
    PROVE  /\ Latest(I) \in Nat
           /\ I # {} => Latest(I) \in I
           /\ \A i \in I : i <= Latest(I)
<1>1. CASE I = {}
      BY <1>1 DEF Latest
<1>2. CASE I # {}
  <2> DEFINE T == { n - i : i \in I }
             Less == { ss \in Nat \X Nat : ss[1] < ss[2] }
  <2>1. T \subseteq Nat /\ T # {}
    <3>1. \A i \in I : i \in 1 .. n /\ n - i \in Nat
          OBVIOUS
    <3> QED BY <1>2, <3>1, Zenon
  <2>2. IsWellFoundedOn(Less, Nat)
        BY NatLessThanWellFounded DEF OpToRel
  <2> HIDE DEF T, Less
  <2>3. \E x \in T : \A y \in T : ~(<<y, x>> \in Less)
        BY <2>1, <2>2, WFMin, Zenon
  <2>4. PICK x \in T : \A y \in T : ~(y < x)
        BY <2>1, <2>3, Zenon DEF Less
  <2>5. PICK i \in I : x = n - i
        BY DEF T
  <2>6. \A j \in I : ~(n - j < n - i)
        BY <2>4, <2>5, Zenon DEF T
  <2>7. \A j \in I : j <= i
        BY <2>6
  <2>8. Latest(I) = CHOOSE k \in I : \A j \in I : j <= k
        BY <1>2 DEF Latest
  <2>9. Latest(I) \in I /\ \A j \in I : j <= Latest(I)
        BY <2>7, <2>8, Zenon
  <2>10. \A j \in I : j \in Nat
         OBVIOUS
  <2> QED BY <2>9, <2>10, Zenon
<1> QED BY <1>1, <1>2

\* The ledgers that writing nothing or one line of E can leave.
LEMMA WriteOne ==
    ASSUME NEW L \in Ledgers, ~L.failed, NEW E, NEW e \in Lines, e \in E
    PROVE  /\ Grows(L, Synced(L, <<e>>), E) /\ Synced(L, <<e>>).failed = FALSE
           /\ Grows(L, Failed(L, <<>>), E)
           /\ Grows(L, Failed(L, <<e>>), E)
<1> DEFINE none == <<>>
           one  == <<e>>
<1>1. /\ none \in Seq(Lines) /\ Len(none) = 0
      /\ one \in Seq(Lines) /\ Len(one) = 1 /\ one[1] = e
      OBVIOUS
<1> HIDE DEF none, one
<1>2. /\ \A i \in 1 .. Len(none) : none[i] \in E
      /\ \A i \in 1 .. Len(one) : one[i] \in E
      BY <1>1
<1>3. Grows(L, Synced(L, one), E) /\ Synced(L, one).failed = FALSE
  <2>1. Grows(L, Synced(L, one), E)
        BY <1>1, <1>2, SyncedGrows, Zenon
  <2>2. Synced(L, one).failed = FALSE
        BY DEF Synced, Ledger
  <2> QED BY <2>1, <2>2
<1>4. Grows(L, Failed(L, none), E) /\ Grows(L, Failed(L, one), E)
      BY <1>1, <1>2, FailedGrows, Zenon
<1> QED BY <1>3, <1>4 DEF none, one

\* A loop of appends extends the ledger by its own lines, and a complete one did
\* not fail.
LEMMA BatchGrows ==
    ASSUME NEW L \in Ledgers, NEW e \in Lines, NEW T \in SUBSET Commands, NEW E,
           \A S \in SUBSET T : BatchLine(e, S) \in E,
           NEW b \in Batch(L, T, e)
    PROVE  /\ Grows(L, b.ledger, E)
           /\ b.done \subseteq T
           /\ IF b.done = T THEN b.ledger.failed = L.failed ELSE b.ledger.failed = TRUE
<1>1. CASE T = {} \/ L.failed
  <2>1. b.ledger = L /\ b.done = {}
        BY <1>1 DEF Batch
  <2>2. L.failed \in BOOLEAN
        BY DEF Ledgers
  <2> QED BY <1>1, <2>1, <2>2, GrowsRefl
<1>2. CASE ~(T = {} \/ L.failed)
  <2>0. L.failed = FALSE
        BY <1>2 DEF Ledgers
  <2>1. ASSUME NEW S \in SUBSET T
        PROVE  BatchLine(e, S) \in Lines
    <3>1. /\ e.type \in LineTypes /\ e.status \in LineStatuses /\ e.acc \in SUBSET Commands
          /\ e.who \in Owners \cup Accounts \cup {NONE} /\ e.n \in Nat
          BY DEF Lines
    <3>2. e.acc \cap S \in SUBSET Commands /\ S \in SUBSET Commands
          BY <3>1
    <3> QED BY <3>1, <3>2 DEF BatchLine, Event, Lines
  <2>2. ASSUME NEW S \in SUBSET T
        PROVE  Grows(L, BatchDone(L, e, S), E) /\ BatchDone(L, e, S).failed = FALSE
    <3>1. CASE S = {}
          BY <2>0, <3>1, GrowsRefl DEF BatchDone
    <3>2. CASE S # {}
          BY <2>0, <2>1, <3>2, WriteOne, Zenon DEF BatchDone
    <3> QED BY <3>1, <3>2, Zenon
  <2>3. CASE b = [ledger |-> BatchDone(L, e, T), done |-> T]
    <3>1. b.ledger = BatchDone(L, e, T) /\ b.done = T
          BY <2>3
    <3> QED BY <2>0, <2>2, <3>1, Zenon
  <2>4. CASE \E S \in (SUBSET T) \ { T } :
                \E M \in BatchStopped(L, T, e, S) : b = [ledger |-> M, done |-> S]
    <3>1. PICK S \in (SUBSET T) \ { T } :
                \E M \in BatchStopped(L, T, e, S) : b = [ledger |-> M, done |-> S]
          BY <2>4
    <3>2. PICK M \in BatchStopped(L, T, e, S) : b = [ledger |-> M, done |-> S]
          BY <3>1
    <3>a. b.ledger = M /\ b.done = S
          BY <3>2
    <3>b. S # T /\ S \subseteq T
          OBVIOUS
    <3> DEFINE D == BatchDone(L, e, S)
    <3>3. Grows(L, D, E) /\ D.failed = FALSE /\ D \in Ledgers
          BY <2>2, Zenon DEF Grows
    <3>4. M = Failed(D, <<>>) \/ \E d \in T \ S : M = Failed(D, <<BatchLine(e, { d })>>)
          BY Zenon DEF BatchStopped
    <3> HIDE DEF D
    <3>5. CASE M = Failed(D, <<>>)
      <4>1. BatchLine(e, {}) \in Lines /\ BatchLine(e, {}) \in E
            BY <2>1
      <4>2. Grows(D, M, E) /\ M.failed = TRUE
            BY <3>3, <3>5, <4>1, WriteOne, Zenon DEF Failed, Ledger
      <4>3. Grows(L, M, E)
            BY <3>3, <4>2, GrowsTrans
      <4> QED BY <3>a, <3>b, <4>2, <4>3
    <3>6. CASE \E d \in T \ S : M = Failed(D, <<BatchLine(e, { d })>>)
      <4>1. PICK d \in T \ S : M = Failed(D, <<BatchLine(e, { d })>>)
            BY <3>6, Zenon
      <4>2. BatchLine(e, { d }) \in Lines /\ BatchLine(e, { d }) \in E
            BY <2>1
      <4>3. Grows(D, M, E) /\ M.failed = TRUE
            BY <3>3, <4>1, <4>2, WriteOne, Zenon DEF Failed, Ledger
      <4>4. Grows(L, M, E)
            BY <3>3, <4>3, GrowsTrans
      <4> QED BY <3>a, <3>b, <4>3, <4>4
    <3> QED BY <3>4, <3>5, <3>6, Zenon
  <2> QED BY <1>2, <2>3, <2>4, Zenon DEF Batch
<1> QED BY <1>1, <1>2, Zenon

-----------------------------------------------------------------------------
(* Facts about the log that survive an extension. *)

\* A durable send stays durable.
LEMMA DurableSendGrows ==
    ASSUME NEW L \in Ledgers, NEW M, NEW E, Grows(L, M, E), NEW c, DurableSend(L, c)
    PROVE  DurableSend(M, c)
<1>1. /\ L.durable \in Nat /\ M.durable \in Nat /\ Len(L.log) \in Nat
      /\ L.durable <= Len(L.log) /\ L.durable <= M.durable
      /\ \A i \in 1 .. Len(L.log) : M.log[i] = L.log[i]
      BY DEF Grows, Ledgers
<1>2. PICK i \in 1 .. L.durable, j \in 1 .. L.durable :
          IntentAt(L.log, c, i) /\ AttemptAt(L.log, c, j)
      BY DEF DurableSend
<1>3. /\ i \in 1 .. M.durable /\ j \in 1 .. M.durable
      /\ M.log[i] = L.log[i] /\ M.log[j] = L.log[j]
      BY <1>1
<1>4. IntentAt(M.log, c, i) /\ AttemptAt(M.log, c, j)
      BY <1>2, <1>3 DEF IntentAt, AttemptAt
<1> QED BY <1>3, <1>4 DEF DurableSend

\* Lines that are not intents of c leave a log without intents of c without.
LEMMA IntentGrows ==
    ASSUME NEW L \in Ledgers, NEW M, NEW E, Grows(L, M, E), NEW c,
           \A l \in E : ~(c \in l.cmds /\ IsIntent(l)),
           \A i \in DOMAIN L.log : ~IntentAt(L.log, c, i)
    PROVE  \A i \in DOMAIN M.log : ~IntentAt(M.log, c, i)
<1>1. /\ DOMAIN L.log = 1 .. Len(L.log) /\ DOMAIN M.log = 1 .. Len(M.log)
      /\ Len(L.log) \in Nat /\ Len(M.log) \in Nat
      BY DEF Grows, Ledgers
<1> SUFFICES ASSUME NEW i \in 1 .. Len(M.log) PROVE ~IntentAt(M.log, c, i)
    BY <1>1
<1>2. CASE i <= Len(L.log)
  <2>1. i \in 1 .. Len(L.log) /\ M.log[i] = L.log[i]
        BY <1>1, <1>2 DEF Grows
  <2>2. ~IntentAt(L.log, c, i)
        BY <1>1, <2>1
  <2> QED BY <2>1, <2>2 DEF IntentAt
<1>3. CASE ~(i <= Len(L.log))
  <2>1. M.log[i] \in E
        BY <1>1, <1>3 DEF Grows
  <2> QED BY <2>1 DEF IntentAt
<1> QED BY <1>2, <1>3

\* The terminal fence is in the extension iff it was in the log, and stays after
\* every projection failure, unless new lines say otherwise.
LEMMA TerminalGrows ==
    ASSUME NEW L \in Ledgers, NEW M, NEW E, Grows(L, M, E),
           \A l \in E : l.type # "paper_terminal_fence"
    PROVE  /\ ReplayTerminal(M.log) = ReplayTerminal(L.log)
           /\ /\ HaltedLast(L.log)
              /\ ~ReplayTerminal(L.log) \/ \A l \in E : l.type # "execution_projection_failed"
              => HaltedLast(M.log)
<1>1. /\ DOMAIN L.log = 1 .. Len(L.log) /\ DOMAIN M.log = 1 .. Len(M.log)
      /\ Len(L.log) \in Nat /\ Len(M.log) \in Nat /\ Len(L.log) <= Len(M.log)
      BY DEF Grows, Ledgers
<1>2. \A i \in 1 .. Len(M.log) : \/ i \in 1 .. Len(L.log) /\ M.log[i] = L.log[i]
                                 \/ i > Len(L.log) /\ M.log[i] \in E
      BY <1>1 DEF Grows
<1>3. \A i \in 1 .. Len(L.log) : i \in 1 .. Len(M.log) /\ M.log[i] = L.log[i]
      BY <1>1 DEF Grows
<1>4. ReplayTerminal(M.log) <=> ReplayTerminal(L.log)
  <2>1. ASSUME NEW i \in 1 .. Len(M.log), M.log[i].type = "paper_terminal_fence"
        PROVE  \E j \in 1 .. Len(L.log) : L.log[j].type = "paper_terminal_fence"
        BY <1>2, <2>1, Zenon
  <2>2. ASSUME NEW i \in 1 .. Len(L.log), L.log[i].type = "paper_terminal_fence"
        PROVE  \E j \in 1 .. Len(M.log) : M.log[j].type = "paper_terminal_fence"
        BY <1>3, <2>2, Zenon
  <2> QED BY <1>1, <2>1, <2>2, Zenon DEF ReplayTerminal
<1>5. ASSUME HaltedLast(L.log),
             ~ReplayTerminal(L.log) \/ \A l \in E : l.type # "execution_projection_failed"
      PROVE  HaltedLast(M.log)
  <2> SUFFICES ASSUME NEW i \in 1 .. Len(M.log), NEW j \in 1 .. Len(M.log),
                      M.log[i].type = "paper_terminal_fence",
                      M.log[j].type = "execution_projection_failed"
               PROVE  j < i
      BY <1>1 DEF HaltedLast
  <2>1. i \in 1 .. Len(L.log) /\ L.log[i].type = "paper_terminal_fence"
        BY <1>2
  <2>2. ReplayTerminal(L.log)
        BY <1>1, <2>1 DEF ReplayTerminal
  <2>3. j \in 1 .. Len(L.log) /\ L.log[j].type = "execution_projection_failed"
        BY <1>2, <1>5, <2>2
  <2> QED BY <1>1, <1>5, <2>1, <2>3 DEF HaltedLast
<1>6. ReplayTerminal(M.log) \in BOOLEAN /\ ReplayTerminal(L.log) \in BOOLEAN
      BY DEF ReplayTerminal
<1> QED BY <1>4, <1>5, <1>6

-----------------------------------------------------------------------------
(* What replay rebuilds. *)

Records == [status : {"none", "Uncertain", "Accepted", "Rejected"}, reason : Reasons]

\* A ledger reopened or flushed has the same lines, at least as durable.
LEMMA ReopenedLedger ==
    ASSUME NEW L \in Ledgers
    PROVE  /\ Opened(L) \in Ledgers /\ Opened(L).log = L.log /\ L.durable <= Opened(L).durable
           /\ Flushed(L) \in Ledgers /\ Flushed(L).log = L.log /\ L.durable <= Flushed(L).durable
           /\ Flushed(L).failed = L.failed
           /\ Failed(L, <<>>) \in Ledgers /\ Failed(L, <<>>).log = L.log
           /\ Failed(L, <<>>).durable = L.durable
<1>1. L.log \in Seq(Lines) /\ Len(L.log) \in Nat /\ L.log \o <<>> = L.log
      BY DEF Ledgers
<1> QED BY <1>1 DEF Ledgers, Ledger, Opened, Flushed, Failed

\* The record that replay rebuilds: none exactly for a command without a line
\* that decides its status.
LEMMA ReplayRecordType ==
    ASSUME NEW log \in Seq(Lines), NEW c \in Commands
    PROVE  /\ ReplayRecord(log, c) \in Records
           /\ ReplayRecord(log, c) = NoRecord => StatusLines(log, c) = {}
<1>1. \A s \in {"Uncertain", "Accepted", "Rejected"}, r \in Reasons :
          Record(s, r) \in Records /\ Record(s, r) # NoRecord
      BY DEF Record, Records, NoRecord, Reasons
<1>2. NoRecord \in Records /\ {NONE, OUTCOME, PROJECTION, DEFERRED, RECOVERY} \subseteq Reasons
      BY DEF Record, Records, NoRecord, Reasons
<1>3. \A e : \E s \in {"Uncertain", "Accepted", "Rejected"}, r \in Reasons :
                RecoveredRecord(e, c) = Record(s, r)
      BY <1>2 DEF RecoveredRecord
<1> QED BY <1>1, <1>2, <1>3 DEF ReplayRecord

\* The line of an intent decides a status.
LEMMA IntentDecides ==
    ASSUME NEW log \in Seq(Lines), NEW c \in Commands, StatusLines(log, c) = {}
    PROVE  \A i \in DOMAIN log : ~IntentAt(log, c, i)
BY DEF StatusLines, DecidesStatus, IntentAt, IsIntent

\* The block that replay rebuilds, and that it holds after a terminal fence.
LEMMA ReplayBlockType ==
    ASSUME NEW log \in Seq(Lines)
    PROVE  /\ ReplayBlock(log) \in Reasons
           /\ ReplayBlock(log) \notin {WRITE, REPLAY, RECONNECT}
           /\ HaltedLast(log) /\ ReplayTerminal(log) => ReplayBlock(log) \in {HALTED, INGRESS}
<1> DEFINE F == TypeLines(log, "execution_projection_failed")
           H == TypeLines(log, "paper_terminal_fence")
           S == StaleIngress(log)
<1>1. ReplayBlock(log) \in {HALTED, INGRESS, PROJECTION, RECOVERY, NONE}
      BY DEF ReplayBlock
<1>2. /\ {HALTED, INGRESS, PROJECTION, RECOVERY, NONE} \subseteq Reasons
      /\ {HALTED, INGRESS, PROJECTION, RECOVERY, NONE} \cap {WRITE, REPLAY, RECONNECT} = {}
      BY DEF Reasons, HALTED, INGRESS, PROJECTION, RECOVERY, NONE, WRITE, REPLAY, RECONNECT
<1>3. ASSUME HaltedLast(log), ReplayTerminal(log)
      PROVE  ReplayBlock(log) \in {HALTED, INGRESS}
  <2>1. Len(log) \in Nat /\ DOMAIN log = 1 .. Len(log)
        OBVIOUS
  <2>2. /\ F \in SUBSET (1 .. Len(log)) /\ H \in SUBSET (1 .. Len(log))
        /\ S \in SUBSET (1 .. Len(log)) /\ H # {} /\ H \cap S = {}
        BY <1>3, <2>1 DEF TypeLines, StaleIngress, ReplayTerminal
  <2>3. \A i \in H, j \in F : j < i
        BY <1>3 DEF TypeLines, HaltedLast
  <2> HIDE DEF F, H, S
  <2>4. \A I \in {F, H, S} : /\ Latest(I) \in Nat
                             /\ I = {} => Latest(I) = 0
                             /\ I # {} => Latest(I) \in I
    <3>1. \A I \in {F, H, S} : I = {} => Latest(I) = 0
          BY DEF Latest
    <3>2. \A I \in {F, H, S} : Latest(I) \in Nat /\ (I # {} => Latest(I) \in I)
          BY <2>1, <2>2, LatestIn, Zenon
    <3> QED BY <3>1, <3>2
  <2>5. Latest(H) > Latest(F) /\ Latest(H) # Latest(S)
    <3>1. Latest(H) \in H /\ Latest(H) > 0
          BY <2>1, <2>2, <2>4
    <3> QED BY <2>2, <2>3, <2>4, <3>1
  <2>6. \/ Latest(H) > Latest(F) /\ Latest(H) > Latest(S)
        \/ Latest(S) > Latest(F) /\ Latest(S) > Latest(H)
        BY <2>4, <2>5
  <2>7. CASE Latest(H) > Latest(F) /\ Latest(H) > Latest(S)
    <3>1. ~(Latest(S) > Latest(F) /\ Latest(S) > Latest(H)) /\ ~(Latest(F) > Latest(H))
          BY <2>4, <2>7
    <3> QED BY <2>7, <3>1 DEF ReplayBlock, F, H, S
  <2>8. CASE Latest(S) > Latest(F) /\ Latest(S) > Latest(H)
    <3>1. ~(Latest(H) > Latest(F) /\ Latest(H) > Latest(S)) /\ ~(Latest(F) > Latest(S))
          BY <2>4, <2>8
    <3> QED BY <2>8, <3>1 DEF ReplayBlock, F, H, S
  <2> QED BY <2>6, <2>7, <2>8
<1> QED BY <1>1, <1>2, <1>3, Zenon

\* The recovery ingress fences that replay rebuilds are numbers.
LEMMA ReplayIngressType ==
    ASSUME NEW log \in Seq(Lines), NEW o \in Owners
    PROVE  ReplayRecOnly(log, o) \in Nat /\ ReplayResumed(log, o) \in Nat
<1> DEFINE I == OwnerLines(log, "session_owner_recovery_only", o) \ StaleIngress(log)
           R == Resumes(log, o)
<1>1. Len(log) \in Nat /\ DOMAIN log = 1 .. Len(log) /\ \A i \in 1 .. Len(log) : log[i].n \in Nat
  <2>1. \A i \in 1 .. Len(log) : log[i] \in Lines
        OBVIOUS
  <2> QED BY <2>1 DEF Lines
<1>2. I \in SUBSET (1 .. Len(log)) /\ R \in SUBSET (1 .. Len(log))
      BY <1>1 DEF OwnerLines, TypeLines, Resumes
<1> HIDE DEF I, R
<1>3. /\ Latest(I) \in Nat /\ (I # {} => Latest(I) \in I)
      /\ Latest(R) \in Nat /\ (R # {} => Latest(R) \in R)
      BY <1>1, <1>2, LatestIn, Zenon
<1>4. I = {} => Latest(I) = 0
      BY DEF Latest
<1>5. ReplayRecOnly(log, o) = IF Latest(I) <= Latest(R) THEN 0 ELSE log[Latest(I)].n
      BY DEF ReplayRecOnly, I, R
<1>6. ReplayResumed(log, o) = IF R = {} THEN 0 ELSE log[Latest(R)].n
      BY DEF ReplayResumed, R
<1>7. ~(Latest(I) <= Latest(R)) => I # {}
      BY <1>3, <1>4
<1> QED BY <1>1, <1>2, <1>3, <1>5, <1>6, <1>7

=============================================================================
