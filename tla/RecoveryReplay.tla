--------------------------- MODULE RecoveryReplay ---------------------------
(***************************************************************************)
(* Recovery as the code runs it: ApplyRecoveredEventLocked over the ledger *)
(* from its first line to its last, then ValidateRecoveredProjection.      *)
(* ExecutionCoordinator states the result by the last line that decides    *)
(* each item, which is the form its proofs use.  This module shows that    *)
(* the two agree on every ledger the coordinator can write.                *)
(***************************************************************************)
EXTENDS ExecutionCoordinator, SequencesExt

\* ResetRecoveryProjectionLocked.
Reset ==
    [ rec |-> [c \in Commands |-> NoRecord], owned |-> {}, attempts |-> {}, block |-> NONE,
      accFenced |-> {}, ownFenced |-> {}, recOnly |-> [o \in Owners |-> 0],
      resumed |-> [o \in Owners |-> 0], terminal |-> FALSE ]

\* ApplyRecoveredProjectionResolvedLocked.
ProjectionResolved(m) ==
    [m EXCEPT !.rec = [c \in Commands |-> IF @[c].reason = PROJECTION
                                          THEN Record("Accepted", NONE) ELSE @[c]],
              !.block = IF @ = PROJECTION THEN NONE ELSE @]

\* ApplyRecoveredOwnershipEventLocked.
OwnershipEvent(m, e) ==
    CASE e.type = "account_new_entry_fenced" -> [m EXCEPT !.accFenced = @ \cup { e.who }]
      [] e.type = "session_owner_fenced" -> [m EXCEPT !.ownFenced = @ \cup { e.who }]
      [] e.type = "session_owner_recovery_only" ->
            IF m.resumed[e.who] >= e.n THEN [m EXCEPT !.block = INGRESS]
            ELSE [m EXCEPT !.recOnly[e.who] = e.n]
      [] e.type = "session_owner_fence_release" /\ e.n = 0 -> [m EXCEPT !.ownFenced = @ \ { e.who }]
      [] e.type = "session_owner_fence_release" /\ e.n # 0 ->
            IF m.recOnly[e.who] # e.n \/ m.terminal THEN [m EXCEPT !.block = "OMS_USER_RECOVERY_RELEASE_INVALID"]
            ELSE [m EXCEPT !.resumed[e.who] = e.n, !.recOnly[e.who] = 0,
                           !.ownFenced = @ \ { e.who }]
      [] e.type = "order_owner_reconciled_terminal" -> [m EXCEPT !.owned = @ \ e.cmds]
      [] e.type = "paper_terminal_fence" -> [m EXCEPT !.terminal = TRUE, !.block = HALTED]

\* TrackRecoveredSendAttemptLocked and ApplyRecoveredCommandStateLocked.
CommandState(m, e) ==
    LET attempt == e.type \in {"place_send_attempt", "place_sent", "flatten_send_attempt", "flatten_sent"}
        owner   == IF e.type \in {"place_sent", "place_activated", "flatten_sent"} THEN e.cmds
                   ELSE IF e.type = "execution_command_resolved" THEN e.acc ELSE {}
        gone    == IF e.type = "cancel_command_resolved" THEN { TargetOf[c] : c \in e.cmds } ELSE {}
    IN  [m EXCEPT
           !.attempts = IF attempt THEN @ \cup e.cmds ELSE @,
           !.owned = (@ \cup owner) \ gone,
           !.rec = [c \in Commands |-> IF c \in e.cmds /\ e.type # "place_send_attempt"
                                       THEN RecoveredRecord(e, c) ELSE @[c]],
           !.block = IF e.type = "execution_projection_failed" THEN PROJECTION ELSE @]

\* ApplyRecoveredEventLocked.
ApplyRecoveredEvent(m, e) ==
    IF e.type = "execution_projection_resolved" THEN ProjectionResolved(m)
    ELSE IF e.who # NONE \/ e.type \in {"order_owner_reconciled_terminal", "paper_terminal_fence"}
    THEN OwnershipEvent(m, e)
    ELSE CommandState(m, e)

\* ValidateRecoveredProjectionLocked.
Validate(m) ==
    IF m.block = NONE /\ \E c \in Commands : m.rec[c].status = "Uncertain"
    THEN [m EXCEPT !.block = RECOVERY] ELSE m

Replayed(log) == Validate(FoldLeft(ApplyRecoveredEvent, Reset, log))

-----------------------------------------------------------------------------
\* The deciding-line form of recovery is what the code's loop computes, for
\* every ledger that commands, reconciliations, fences, failed appends and
\* crashes can leave; in particular no line that the coordinator writes is one
\* its own recovery rejects, other than a stale ingress fence.
ReplayAgrees ==
    Replayed(ledger.log) =
        [ rec |-> [c \in Commands |-> ReplayRecord(ledger.log, c)],
          owned |-> ReplayOwned(ledger.log),
          attempts |-> ReplayAttempts(ledger.log),
          block |-> ReplayBlock(ledger.log),
          accFenced |-> ReplayAccFenced(ledger.log),
          ownFenced |-> ReplayOwnFenced(ledger.log),
          recOnly |-> [o \in Owners |-> ReplayRecOnly(ledger.log, o)],
          resumed |-> [o \in Owners |-> ReplayResumed(ledger.log, o)],
          terminal |-> ReplayTerminal(ledger.log) ]
=============================================================================
