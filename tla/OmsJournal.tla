----------------------------- MODULE OmsJournal -----------------------------
(***************************************************************************)
(* The OMS journal (HeptaTrade/oms_journal.cpp): the append-only ledger    *)
(* that the execution coordinator writes before every external effect.     *)
(*                                                                         *)
(* A line is a record [id, type]; ids number the lines in the order of the *)
(* calls.  `file' is what the pinned inode holds, the first `synced' lines *)
(* of it are on the device, `pending' holds the lines accepted but not yet *)
(* written: m_bufferedLines followed by m_asyncQueue, which every flush    *)
(* drains as one sequence under the journal mutex.  A write that stops     *)
(* half-way leaves the fragment Torn at the end of the file.               *)
(*                                                                         *)
(* Two crashes are distinguished: one of the process (the page cache       *)
(* survives, buffers do not) and one of the machine (only the synced       *)
(* prefix is sure to survive).                                             *)
(***************************************************************************)
EXTENDS Integers, Sequences, OmsEvents

CONSTANTS
    Configs,             \* the settings a journal may be constructed with
    MaxPendingRecords,   \* m_maxPendingRecords
    ReplayMaxRecords,    \* m_replayMaxRecords
    EventTypes,          \* the event types given to Append
    MaxAppends           \* bound: how many lines the model ever offers

ASSUME JournalConstants ==
    /\ Configs \subseteq [async : BOOLEAN, syncCritical : BOOLEAN, flushQueued : BOOLEAN,
                          batch : Nat \ {0}, intervalZero : BOOLEAN]
    /\ MaxPendingRecords \in Nat \ {0}
    /\ ReplayMaxRecords \in Nat /\ ReplayMaxRecords >= 5
    /\ EventTypes \subseteq STRING
    /\ "place_send_attempt" \notin EventTypes   \* only AppendDurablePair writes it
    /\ MaxAppends \in Nat

VARIABLES
    config,        \* the settings, read once from the environment
    open,          \* m_fd >= 0
    file,          \* the lines of the pinned inode
    synced,        \* how many of them are on the device
    pending,       \* m_bufferedLines \o m_asyncQueue
    poisoned,      \* m_writePoisoned
    capacityKnown, \* m_capacityKnown
    next,          \* id of the next line
    acked          \* history: the lines whose append returned success

vars == <<config, open, file, synced, pending, poisoned, capacityKnown, next, acked>>

AsyncEnabled        == config.async          \* HEPTA_OMS_ASYNC_FLUSH
SyncCritical        == config.syncCritical   \* HEPTA_OMS_SYNC_CRITICAL
CriticalFlushQueued == config.flushQueued
BatchSize           == config.batch
FlushIntervalZero   == config.intervalZero   \* m_flushIntervalMs = 0

Lines == [id : 1 .. MaxAppends, type : EventTypes \cup CriticalEventTypes]
Torn  == [id |-> 0, type |-> "torn"]

-----------------------------------------------------------------------------
(* Writing.  An outcome is [file, synced, pending, ok]; ok = FALSE poisons. *)

\* What a write of line r that fails can leave behind: nothing, a fragment,
\* or the whole line (the sync or the pinned-path check after it failed).
FailedTails(r) == { <<>>, <<Torn>>, <<r>> }

\* Fault: the line counts as synced before it is written.
SyncedBeforeWrite(io, r, durable) ==
    { [io EXCEPT !.file = @ \o tail, !.synced = Len(io.file) + 1, !.ok = (tail = <<r>>)]
      : tail \in FailedTails(r) }

\* Fault: no data sync.
NeverSynced(io, r, durable) ==
    { [io EXCEPT !.file = Append(@, r)] }
    \cup { [io EXCEPT !.file = @ \o tail, !.ok = FALSE] : tail \in FailedTails(r) }

WriteLineToPinnedFileLocked(io, r, durable) ==
    { [io EXCEPT !.file = Append(@, r),
                 !.synced = IF durable THEN Len(io.file) + 1 ELSE @] }
    \cup { [io EXCEPT !.file = @ \o tail, !.ok = FALSE] : tail \in FailedTails(r) }

\* Fault: a failed flush forgets what it did not write.
FlushDropsRest(io) ==
    { [io EXCEPT !.file = @ \o io.pending, !.pending = <<>>],
      [io EXCEPT !.pending = <<>>, !.ok = (io.pending = <<>>)] }

\* Fault: written lines stay pending.
FlushKeepsWritten(io) == { [io EXCEPT !.file = @ \o io.pending] }

\* FlushBufferedLocked, and FlushQueuedNoLock which feeds it batch by batch:
\* every pending line is written in order, without a sync; a failure keeps
\* the lines from the failed one on.
FlushPending(io) ==
    { [io EXCEPT !.file = @ \o io.pending, !.pending = <<>>] }
    \cup UNION { { [io EXCEPT !.file = @ \o SubSeq(io.pending, 1, k - 1) \o tail,
                              !.pending = SubSeq(@, k, Len(@)),
                              !.ok = FALSE] : tail \in FailedTails(io.pending[k]) } :
                 k \in 1 .. Len(io.pending) }

Io == [file |-> file, synced |-> synced, pending |-> pending, ok |-> TRUE]

\* Fault: the next write is made although the one before it failed.
ContinuesAfterFailure(io) == TRUE

\* Only a write that succeeded is followed by the next one.
Continues(io) == io.ok

\* Continue with step F from the outcomes of S that allow it.
Then(S, F(_)) ==
    { io \in S : ~Continues(io) } \cup UNION { F(io) : io \in { x \in S : Continues(x) } }

Commit(io) ==
    /\ file' = io.file
    /\ synced' = io.synced
    /\ pending' = io.pending
    /\ poisoned' = ~io.ok

\* Fault: off by one.
CanQueueOneMore == Len(pending) <= MaxPendingRecords

CanQueue == Len(pending) < MaxPendingRecords

QueueLineLocked(io, r) == [io EXCEPT !.pending = Append(@, r)]

-----------------------------------------------------------------------------
(* The operations. *)

\* Fault: the critical line overtakes the buffered ones.
CriticalOvertakes(r) == WriteLineToPinnedFileLocked(Io, r, TRUE)

\* A critical line under the critical-sync policy: earlier pending lines
\* first (unless the asynchronous queue is left to its worker), then the line
\* with a data sync.
AppendCriticalSync(r) ==
    LET flushed == IF AsyncEnabled /\ ~CriticalFlushQueued THEN { Io } ELSE FlushPending(Io)
    IN  Then(flushed, LAMBDA io : WriteLineToPinnedFileLocked(io, r, TRUE))

\* A line that only has to be accepted: queued for the worker, or buffered
\* and flushed when `flush' says so.
AppendBuffered(r, flush) ==
    IF AsyncEnabled \/ ~flush
    THEN { QueueLineLocked(Io, r) }
    ELSE FlushPending(QueueLineLocked(Io, r))

\* The choices of "flush now" that batch size and elapsed time allow.
FlushDecisions(r) ==
    IF IsCriticalEventType(r.type) \/ FlushIntervalZero \/ Len(pending) + 1 >= BatchSize
    THEN { TRUE } ELSE BOOLEAN

\* OmsJournal::Append.
AppendLine(t) ==
    /\ open /\ ~poisoned /\ next <= MaxAppends
    /\ LET r == [id |-> next, type |-> t] IN
       \/ /\ IsCriticalEventType(t) /\ SyncCritical
          /\ \E io \in AppendCriticalSync(r) :
                Commit(io) /\ acked' = IF io.ok THEN acked \cup { r } ELSE acked
       \/ /\ ~(IsCriticalEventType(t) /\ SyncCritical)
          /\ CanQueue
          /\ \E flush \in FlushDecisions(r) : \E io \in AppendBuffered(r, flush) :
                Commit(io) /\ acked' = IF io.ok THEN acked \cup { r } ELSE acked
    /\ next' = next + 1
    /\ UNCHANGED <<open, capacityKnown>>

\* Fault: nothing is held back.
CapacityToTheLimit == capacityKnown /\ Len(file) + Len(pending) < ReplayMaxRecords

\* NewEntryCapacityReason: new entries stop at four fifths of the number of
\* records a restart can replay.
NewEntryCapacityOk ==
    capacityKnown /\ Len(file) + Len(pending) < ReplayMaxRecords - ReplayMaxRecords \div 5

\* AppendDurablePair behind the capacity gate of PlaceOrderLocked: the order
\* intent without a sync, the send attempt with one.
AppendDurablePair ==
    /\ open /\ ~poisoned /\ next + 1 <= MaxAppends
    /\ NewEntryCapacityOk
    /\ LET first  == [id |-> next, type |-> "order_intent"]
           second == [id |-> next + 1, type |-> "place_send_attempt"]
           flushed == IF AsyncEnabled /\ ~CriticalFlushQueued THEN { Io } ELSE FlushPending(Io)
           Second(io) == WriteLineToPinnedFileLocked(io, second, TRUE)
           First(io)  == Then(WriteLineToPinnedFileLocked(io, first, FALSE), Second)
       IN \E io \in Then(flushed, First) :
             Commit(io) /\ acked' = IF io.ok THEN acked \cup { first, second } ELSE acked
    /\ next' = next + 2
    /\ UNCHANGED <<open, capacityKnown>>

\* Fault: the worker waits for a full batch.
WorkerWaits ==
    /\ AsyncEnabled /\ open /\ ~poisoned /\ Len(pending) >= BatchSize
    /\ \E io \in FlushPending(Io) : Commit(io)
    /\ UNCHANGED <<open, capacityKnown, next, acked>>

\* One pass of the asynchronous writer.
WorkerLoop ==
    /\ AsyncEnabled /\ open /\ ~poisoned /\ pending # <<>>
    /\ \E io \in FlushPending(Io) : Commit(io)
    /\ UNCHANGED <<open, capacityKnown, next, acked>>

\* OmsJournal::Replay: flush, sync, and deliver all records or none.
Replay ==
    /\ open /\ ~poisoned
    /\ \E io \in FlushPending(Io) :
          \/ ~io.ok /\ Commit(io) /\ capacityKnown' = FALSE
          \/ /\ io.ok
             /\ \/ /\ Commit([io EXCEPT !.synced = Len(io.file)])
                   /\ capacityKnown' = (Len(io.file) <= ReplayMaxRecords)
                \/ Commit([io EXCEPT !.ok = FALSE]) /\ capacityKnown' = FALSE
    /\ UNCHANGED <<open, next, acked>>

\* Fault: the last byte is not looked at.
Open_Unchecked ==
    /\ ~open
    /\ open' = TRUE /\ poisoned' = FALSE /\ pending' = <<>>
    /\ synced' = Len(file)
    /\ capacityKnown' = (file = <<>>)
    /\ UNCHANGED <<file, next, acked>>

\* OmsJournal::Init and OpenPinnedFileLocked: a file whose last byte is not a
\* newline is refused; its content is synced before the journal is usable.
Init_Open ==
    /\ ~open
    /\ file # <<>> => file[Len(file)] # Torn
    /\ open' = TRUE /\ poisoned' = FALSE /\ pending' = <<>>
    /\ synced' = Len(file)
    /\ capacityKnown' = (file = <<>>)
    /\ UNCHANGED <<file, next, acked>>

\* ~OmsJournal: stop the worker, flush, sync unless poisoned, close.
Destroy ==
    /\ open
    /\ \E io \in IF poisoned THEN { [Io EXCEPT !.ok = FALSE] } ELSE FlushPending(Io) :
          Commit([io EXCEPT !.synced = IF io.ok THEN Len(io.file) ELSE @])
    /\ open' = FALSE
    /\ UNCHANGED <<capacityKnown, next, acked>>

ProcessCrash ==
    /\ open
    /\ open' = FALSE /\ pending' = <<>>
    /\ UNCHANGED <<file, synced, poisoned, capacityKnown, next, acked>>

\* Any prefix that contains the synced one survives, perhaps with a fragment
\* of the line after it.
MachineCrash ==
    /\ open' = FALSE /\ pending' = <<>>
    /\ \E k \in synced .. Len(file) :
          \E tail \in IF k < Len(file) THEN { <<>>, <<Torn>> } ELSE { <<>> } :
             /\ file' = SubSeq(file, 1, k) \o tail
             /\ synced' = k + Len(tail)
    /\ UNCHANGED <<poisoned, capacityKnown, next, acked>>

Init ==
    /\ config \in Configs
    /\ open = FALSE /\ file = <<>> /\ synced = 0 /\ pending = <<>>
    /\ poisoned = FALSE /\ capacityKnown = FALSE
    /\ next = 1 /\ acked = {}

Next ==
    /\ \/ \E t \in EventTypes : AppendLine(t)
       \/ AppendDurablePair
       \/ WorkerLoop
       \/ Replay
       \/ Init_Open
       \/ Destroy
       \/ ProcessCrash
       \/ MachineCrash
    /\ UNCHANGED config

Spec == Init /\ [][Next]_vars

\* The worker thread wakes at least once per flush interval.
Fairness == WF_vars(WorkerLoop /\ UNCHANGED config)
-----------------------------------------------------------------------------
(* Properties. *)

RangeOf(s) == { s[i] : i \in 1 .. Len(s) }

\* Types of the journal's members.
TypeOK ==
    /\ config \in Configs
    /\ open \in BOOLEAN
    /\ file \in Seq(Lines \cup { Torn })
    /\ synced \in 0 .. Len(file)
    /\ pending \in Seq(Lines)
    /\ poisoned \in BOOLEAN
    /\ capacityKnown \in BOOLEAN
    /\ next \in 1 .. MaxAppends + 1
    /\ acked \subseteq Lines

\* "A successful return must not precede the durable state it claims": under
\* the critical-sync policy a critical line whose append returned success is
\* on the device, across process and machine crashes, reopenings, write
\* faults and lines that overtake one another.
AckedCriticalDurable ==
    SyncCritical =>
        \A r \in acked : IsCriticalEventType(r.type) => r \in RangeOf(SubSeq(file, 1, synced))

\* A send attempt is never in the ledger, whatever a failed call or a crash
\* left of the pair, without the order intent of the same call right before
\* it: replay never meets an attempt whose command it does not know.
PairPrefix ==
    \A i \in 1 .. Len(file) :
        file[i].type = "place_send_attempt" =>
            i > 1 /\ file[i - 1] = [id |-> file[i].id - 1, type |-> "order_intent"]

\* A fragment is only ever the last thing in the file: a poisoned writer
\* never glues a later line to it, and a torn file is never reopened.
TornOnlyAtTail ==
    \A i \in 1 .. Len(file) : file[i] = Torn => i = Len(file)

\* No line is written twice (a flush that fails half-way drops exactly what
\* it wrote) and lines keep the order of their calls; only the asynchronous
\* queue may be overtaken, and then only by critical lines.
FileOrder ==
    SyncCritical =>
        \A i, j \in 1 .. Len(file) :
            (i < j /\ file[i] # Torn /\ file[j] # Torn) =>
                \/ file[i].id < file[j].id
                \/ /\ AsyncEnabled /\ ~CriticalFlushQueued
                   /\ IsCriticalEventType(file[i].type)
                   /\ ~IsCriticalEventType(file[j].type)
                   /\ file[i].id # file[j].id

\* QueueLineLocked's budget holds at its exact boundary.
PendingBounded == Len(pending) <= MaxPendingRecords

\* What replay relies on when it reads the file back (no attempt without its
\* intent, a fragment only at the end, every line once and in its order), and
\* the bound of what it cannot read back yet.
JournalWellFormed == PairPrefix /\ TornOnlyAtTail /\ FileOrder /\ PendingBounded

\* While the journal stays open no accepted line is dropped: what is written
\* stays, and what is pending is written or still pending.
NothingDropped ==
    [][ (open /\ open') =>
        /\ Len(file) <= Len(file') /\ SubSeq(file', 1, Len(file)) = file
        /\ RangeOf(pending) \subseteq RangeOf(file') \cup RangeOf(pending') ]_vars

\* An admitted new entry never makes the ledger longer than a restart can
\* replay: the fifth held back by NewEntryCapacityReason covers its pair.
AdmissionReplayable ==
    [][ (\E r \in acked' \ acked : r.type = "place_send_attempt") =>
        Len(file') + Len(pending') <= ReplayMaxRecords ]_vars

\* The asynchronous queue is written out again and again: every line accepted
\* into it is eventually in the file, unless the writer is poisoned or the
\* journal goes down.
QueuedEventuallyWritten ==
    []<>(AsyncEnabled => ~open \/ poisoned \/ pending = <<>>)

\* docs/OMS-EVENT-SCHEMA.md: "Critical mutation, owner-fence, projection, and
\* broker-evidence events are synchronously durable when the configured
\* critical-sync policy is active."  Every fence record the coordinator
\* appends, on the device once its append returned success.
FenceEventTypes ==
    { "account_new_entry_fenced", "session_owner_fenced",
      "session_owner_fence_release", "session_owner_recovery_only",
      "paper_terminal_fence" }

AckedFenceDurable ==
    SyncCritical =>
        \A r \in acked : r.type \in FenceEventTypes => r \in RangeOf(SubSeq(file, 1, synced))

-----------------------------------------------------------------------------
(* The ledger that the journal implements when it writes every line at once:  *)
(* whole lines, the synced ones durable.                                      *)

Unbuffered == SyncCritical /\ ~AsyncEnabled /\ (FlushIntervalZero \/ BatchSize = 1)

WholeLines ==
    IF file # <<>> /\ file[Len(file)] = Torn THEN SubSeq(file, 1, Len(file) - 1) ELSE file

DurableLines == IF synced <= Len(WholeLines) THEN synced ELSE Len(WholeLines)

LineOffers ==
    [id : 1 .. MaxAppends, type : EventTypes \cup {"order_intent", "place_send_attempt"}]

Abstract ==
    INSTANCE LedgerService
    WITH up <- open, Offered <- LineOffers,
         ledger <- [log |-> WholeLines, durable |-> DurableLines, failed |-> poisoned]

\* The journal's steps, write faults, fragments, crashes and reopenings are
\* those of the durable ledger on which the coordinator's model is built.
ImplementsLedger ==
    /\ Unbuffered => Abstract!LedgerInit
    /\ [][Unbuffered => Abstract!LedgerNext \/ UNCHANGED Abstract!ledgerVars]_vars
=============================================================================
