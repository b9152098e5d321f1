--------------------------- MODULE MCOmsJournal ---------------------------
(***************************************************************************)
(* OmsJournal for TLC, with the three settings that tell its paths apart.  *)
(* One critical and one ordinary event type besides the order-intent and   *)
(* send-attempt pair are enough.                                           *)
(***************************************************************************)
EXTENDS OmsJournal

MCEventTypes == { "cancel", "session_owner_recovery_only" }

Batched == [async |-> FALSE, syncCritical |-> TRUE, flushQueued |-> FALSE, batch |-> 2,
            intervalZero |-> FALSE]
Queued  == [Batched EXCEPT !.async = TRUE]
Direct  == [Batched EXCEPT !.batch = 1, !.intervalZero = TRUE]

AllConfigs == { Batched, Queued, Direct }
OnlyDirect == { Direct }

\* The last line is only offered to a journal with batches and as the second of
\* a pair, which meets the replay limit exactly.
MCNext ==
    /\ Next
    /\ next' > MaxAppends => config = Batched /\ next' # next + 1

MCSpec == Init /\ [][MCNext]_vars /\ Fairness
===========================================================================
