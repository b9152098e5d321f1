----------------------- MODULE MCExecutionCoordinator -----------------------
(***************************************************************************)
(* ExecutionCoordinator on small command sets.                             *)
(***************************************************************************)
EXTENDS OmsProjection

CONSTANT MaxLog   \* bound: lines of the ledger

MCNext == Next /\ Len(ledger'.log) <= MaxLog
MCSpec == Init /\ [][MCNext]_vars

\* Without the fences a longer ledger is in reach.
UnfencedNext ==
    /\ \/ \E c \in Commands : CommandNext(c)
       \/ ReconcileNext
       \/ Start \/ RecoverFromJournal \/ ProcessCrash \/ MachineCrash
    /\ Len(ledger'.log) <= MaxLog
UnfencedSpec == Init /\ [][UnfencedNext]_vars

\* p and q enter, x cancels the order of p, f and g flatten; q has another
\* owner, g another instrument.
MCOperation ==
    [c \in Commands |-> CASE c = "x" -> "cancel" [] c \in {"f", "g"} -> "flatten" [] OTHER -> "place"]
MCOwner == [c \in Commands |-> IF c = "q" THEN "o2" ELSE "o1"]
MCAccount == [c \in Commands |-> "a1"]
MCInstrument == [c \in Commands |-> IF c = "g" THEN "i2" ELSE "i1"]
MCTarget == [c \in Commands |-> "p"]
=============================================================================
