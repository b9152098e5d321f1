---------------------------- MODULE DurableLedger ----------------------------
(***************************************************************************)
(* What the OMS journal promises to the execution coordinator under the    *)
(* critical-sync policy, with no buffers, batches or file descriptors: a   *)
(* log of records whose first `durable' ones survive a machine crash.  A   *)
(* successful append of a critical record makes the whole log durable; a   *)
(* failed one leaves any prefix of what it was writing and closes the log  *)
(* to later appends until the process is restarted.                        *)
(*                                                                         *)
(* ExecutionCoordinator is built on these operators, and LedgerService, of *)
(* which OmsJournal is shown to be an implementation, takes its steps with *)
(* them.                                                                   *)
(***************************************************************************)
EXTENDS Integers, Sequences, OmsEvents

VARIABLES
    up,      \* the process is running and its journal is open
    ledger   \* [log, durable, failed]

Ledger(log, durable, failed) == [log |-> log, durable |-> durable, failed |-> failed]

EmptyLedger == Ledger(<<>>, 0, FALSE)

\* Fault: a failed append counts its lines as durable.
ClaimsUnwritten(L, es) == Ledger(L.log, Len(L.log \o es), TRUE)

Synced(L, es)  == Ledger(L.log \o es, Len(L.log \o es), FALSE)
Written(L, es) == Ledger(L.log \o es, L.durable, FALSE)
Failed(L, es)  == Ledger(L.log \o es, L.durable, TRUE)

\* The ledgers that one append of record e can leave.
Appended(L, e) ==
    IF L.failed THEN { L }
    ELSE { IF IsCriticalEventType(e.type) THEN Synced(L, <<e>>) ELSE Written(L, <<e>>) }
         \cup { Failed(L, <<>>), Failed(L, <<e>>) }

\* Fault: the pair is written without a sync.
PairUnsynced(L, e1, e2) ==
    IF L.failed THEN { L } ELSE { Written(L, <<e1, e2>>), Failed(L, <<>>) }

\* The same for AppendDurablePair.
AppendedPair(L, e1, e2) ==
    IF L.failed THEN { L }
    ELSE { Synced(L, <<e1, e2>>) }
         \cup { Failed(L, <<>>), Failed(L, <<e1>>), Failed(L, <<e1, e2>>) }

Opened(L)  == Ledger(L.log, Len(L.log), FALSE)
Flushed(L) == Ledger(L.log, Len(L.log), L.failed)

\* What a crash of the machine can leave.
Truncated(L) ==
    { Ledger(SubSeq(L.log, 1, k), k, L.failed) : k \in L.durable .. Len(L.log) }


LedgerInit == up = FALSE /\ ledger = EmptyLedger
=============================================================================
