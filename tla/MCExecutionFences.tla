------------------------- MODULE MCExecutionFences -------------------------
(***************************************************************************)
(* Two questions about the coordinator with immediate placement: an entry  *)
(* and its cancel against every fence, and an entry, its cancel and a      *)
(* flatten without fences.                                                 *)
(***************************************************************************)
EXTENDS MCExecutionCoordinator

VARIABLE part   \* "fences" or "exits"

\* Without a flatten a snapshot of the venue can only show the entry.
Seen == IF part = "fences" THEN {"p"} ELSE Orders

PartReconcile ==
    \/ \E found \in SUBSET Seen, missing \in BOOLEAN :
          ResolveUncertainPlaceCommands(found, missing)
    \/ \E active, cancelled, filled \in SUBSET Seen :
          ResolveUncertainCancelCommands(active, cancelled, filled)
    \/ \E active \in SUBSET Seen : ReconcileOrderOwners(active)
    \/ ResolveProjectionBlock

PartNext ==
    /\ \/ \E c \in IF part = "fences" THEN {"p", "x"} ELSE Commands : CommandNext(c)
       \/ part = "fences" /\ FenceNext
       \/ PartReconcile
       \/ Start \/ RecoverFromJournal \/ ProcessCrash \/ MachineCrash
    /\ Len(ledger'.log) <= IF part = "fences" THEN MaxLog - 1 ELSE MaxLog
    /\ UNCHANGED part

PartSpec == Init /\ part \in {"fences", "exits"} /\ [][PartNext]_<<vars, part>>
=============================================================================
