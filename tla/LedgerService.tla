---------------------------- MODULE LedgerService ----------------------------
(***************************************************************************)
(* The durable ledger by itself, offered any record: the specification     *)
(* that the OMS journal implements.                                        *)
(***************************************************************************)
EXTENDS DurableLedger

CONSTANT Offered   \* the records that may be appended

AppendRecord == up /\ UNCHANGED up /\ \E e \in Offered : ledger' \in Appended(ledger, e)

AppendPair ==
    /\ up /\ UNCHANGED up
    /\ \E e1, e2 \in Offered : ledger' \in AppendedPair(ledger, e1, e2)

\* A replay makes the log durable, or fails.
ReplayAll ==
    /\ up /\ UNCHANGED up /\ ~ledger.failed
    /\ ledger' \in { Flushed(ledger), Failed(ledger, <<>>) }

Open  == ~up /\ up' = TRUE /\ ledger' = Opened(ledger)
Close == up /\ up' = FALSE /\ ledger' \in { ledger, Flushed(ledger) }
Crash == up' = FALSE /\ ledger' \in Truncated(ledger)

LedgerNext == AppendRecord \/ AppendPair \/ ReplayAll \/ Open \/ Close \/ Crash

ledgerVars == <<up, ledger>>

LedgerSpec == LedgerInit /\ [][LedgerNext]_ledgerVars
=============================================================================
