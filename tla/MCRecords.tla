---------------------------- MODULE MCRecords -----------------------------
(***************************************************************************)
(* The shadow market's history, campaign and evaluation, the quote archive *)
(* and the reports.  Which of them is modelled is chosen at the start      *)
(* (part); they share no state.                                            *)
(***************************************************************************)
EXTENDS Integers, Sequences

VARIABLES disk, proc, world, part

History  == INSTANCE ShadowHistory WITH MaxTime <- 5, MaxGeneration <- 3, MaxGap <- 2

\* Two runners race for one slot; one runner goes through two.
Campaign == INSTANCE ShadowCampaign WITH Runners <- {"r1", "r2"}, MaxVersion <- 2, MaxIteration <- 1
Slots    == INSTANCE ShadowCampaign WITH Runners <- {"r1"}, MaxVersion <- 2, MaxIteration <- 2

Evidence == INSTANCE OfficialEvidence WITH Day <- 12, LookAhead <- 14, LookBehind <- 6, MaxTime <- 60

Evaluated == INSTANCE ReplayEvaluation
             WITH Prices <- {2, 4}, MaxMarks <- 5,
                  Intents <- { [side |-> s, observed |-> o, expires |-> o + x, limit |-> 4, stop |-> 4, holding |-> h] :
                               s \in {"BUY", "SELL"}, o \in {0, 3}, x \in {0, 1, 2}, h \in {2, 3} }

\* A command of an earlier period and one of this period with two fills.
Ledger == INSTANCE StrategyLedger
          WITH Commands <- <<"o", "b">>, Old <- {"o"},
               Direction <- [c \in {"o", "b"} |-> 1],
               Size <- [c \in {"o", "b"} |-> IF c = "b" THEN 2 ELSE 1],
               Price <- [c \in {"o", "b"} |-> IF c = "o" THEN <<12>> ELSE <<24, 36>>],
               Opening <- [quantity |-> -1, mark |-> 12], MaxEpoch <- 2, MaxCallbacks <- 3

Pnl      == INSTANCE PnlReport WITH MaxTime <- 2, MaxLines <- 2, MaxVersion <- 2, Validity <- 2
Progress == INSTANCE ProgressReport
            WITH Lanes <- {"paper"}, MaxAge <- 0, MaxTime <- 1, MaxStarts <- 2, MaxIterations <- 2, MaxIds <- 2

\* The older collector adds a quote of the past that contradicts a sealed one.
Quote(t, p, k) == [t |-> t, p |-> p, k |-> k]
Archive  == INSTANCE SourceArchive
            WITH Readers <- {"cache", "recent", "range", "paged", "copy"},
                 Feeds <- { <<Quote(1, 1, 1), Quote(2, 1, 2), Quote(3, 1, 3)>> },
                 Lives <- { <<Quote(3, 1, 3), Quote(1, 2, 3)>> },
                 PageSize <- 1, Unsealed <- 3, Span <- 0, From <- 2, To <- 2, MaxSegments <- 2,
                 MaxPasses <- 2, MaxAlter <- 1, MaxTime <- 3

Init ==
    \/ part = "history" /\ History!Init
    \/ part = "campaign" /\ Campaign!Init
    \/ part = "slots" /\ Slots!Init
    \/ part = "evidence" /\ Evidence!Init
    \/ part = "evaluated" /\ Evaluated!Init
    \/ part = "ledger" /\ Ledger!Init
    \/ part = "pnl" /\ Pnl!Init
    \/ part = "archive" /\ Archive!Init
    \/ part = "progress" /\ Progress!Init

Next ==
    /\ \/ part = "history" /\ History!Next
       \/ part = "campaign" /\ Campaign!Next
       \/ part = "slots" /\ Slots!Next
       \/ part = "evidence" /\ Evidence!Next
       \/ part = "evaluated" /\ Evaluated!Next
       \/ part = "ledger" /\ Ledger!Next
       \/ part = "pnl" /\ Pnl!Next
       \/ part = "archive" /\ Archive!Next
       \/ part = "progress" /\ Progress!Next
    /\ UNCHANGED part

Spec == Init /\ [][Next]_<<disk, proc, world, part>>

\* The history's records are one chain of snapshots exported together with their
\* lease, and a published bar has a record of every capture in it, whatever a crash
\* during publishing leaves (hepta_shadow_market_history.py).
HistoryIsSampled == part = "history" => History!OneChain /\ History!BarsSampled

\* A campaign's receipt was computed from inputs that were on disk together, and its
\* state counts exactly the durable receipts (run_shadow_iteration).
CampaignReceipts ==
    /\ part = "campaign" => Campaign!ReceiptFromOneInstant /\ Campaign!StateMatchesReceipts
    /\ part = "slots" => Slots!ReceiptFromOneInstant /\ Slots!StateMatchesReceipts

\* No TRADE is decided inside the exclusion of an official release or meeting day
\* (_all_day_events, _calendar).
NoTradeInEvent == part = "evidence" => Evidence!NoTradeInEvent

\* A result reported as evidence complete is not changed by any later mark
\* (evaluate_replay).
ResultFinal == [][part = "evaluated" => Evaluated!ResultFinal]_<<disk, proc, world, part>>

\* The strategy ledger has the executions the broker made (StrategyLedger), a shown
\* report is the replay of the journal on disk (PnlReport), and what a progress report
\* presents as current belongs to one subject (hepta_progress.py).
ReportsAgree ==
    /\ part = "ledger" => Ledger!LedgerIsExecutions
    /\ part = "pnl" => Pnl!ShownIsReplay
    /\ part = "progress" => Progress!ReportOfOneSubject

\* A reader of the quote archive answers with the quotes of the complete merge and
\* never from a sealed segment whose bytes had changed (source_archive.py,
\* verified_sealed_readiness_cache.py, paged_crosshost_custody.py).
ViewFaithful == part = "archive" => Archive!ViewFaithful
===========================================================================
