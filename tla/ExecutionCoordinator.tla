------------------------ MODULE ExecutionCoordinator ------------------------
(***************************************************************************)
(* The execution coordinator (HeptaTrade/execution: the files              *)
(* execution_coordinator, execution_coordinator_cancel, _recovery,         *)
(* _reconnect and _terminal, execution_place_order_dispatch,               *)
(* execution_authoritative_flatten and its dispatch):                      *)
(* the only component that turns a command into a venue call, with its     *)
(* durable record, its recovery from the ledger and its fences.            *)
(*                                                                         *)
(* A command is its idempotency key (agent, session, tool call) together   *)
(* with its payload; the order that a place or flatten command creates is  *)
(* named by the command, as the venue correlation id does.  The mutex is   *)
(* released only around venue calls and the cancel preflight, so an action *)
(* is what a handler does between two such points.                         *)
(*                                                                         *)
(* Snapshots of the venue are arguments here, and any set may be given:    *)
(* what is shown of this module holds whatever its callers believe.        *)
(***************************************************************************)
EXTENDS DurableLedger, FiniteSets

CONSTANTS
    Commands,
    OperationOf,      \* command -> "place", "cancel" or "flatten"
    OwnerOf,          \* command -> session owner
    AccountOf,        \* command -> account
    InstrumentOf,     \* command -> instrument
    TargetOf,         \* cancel command -> the command whose order it cancels
    Owners, Accounts,
    Reserving,        \* placement reserves, then activates (the simulator)
    SendAttemptLimit, \* bound of PlaceOrderWithSendAttemptLimit per account
    MaxIngress        \* bound: recovery ingress fences are 1 .. MaxIngress

ASSUME CoordinatorConstants ==
    /\ OperationOf \in [Commands -> {"place", "cancel", "flatten"}]
    /\ OwnerOf \in [Commands -> Owners]
    /\ AccountOf \in [Commands -> Accounts]
    /\ TargetOf \in [Commands -> Commands]
    /\ Reserving \in BOOLEAN
    /\ MaxIngress \in Nat

VARIABLES
    rec,       \* m_requests: command -> [status, reason]
    owned,     \* m_orderOwners: the orders with an owner
    attempts,  \* m_placeSendAttemptKeys
    block,     \* m_mutationBlockReason, NONE when mutations are admitted
    accFenced, \* m_accountNewEntryFences
    ownFenced, \* m_fencedSessionOwners
    recOnly,   \* m_recoveryOnlySessionOwners: owner -> ingress fence, 0 if none
    resumed,   \* m_resumedRecoveryIngress: owner -> ingress fence, 0 if none
    terminal,  \* m_paperTerminalFencePresent
    flight,    \* where a command's handler is while the mutex is released
    venue,     \* the venue's orders
    sends      \* history: how often the venue was called for a command

fenceVars == <<accFenced, ownFenced, recOnly, resumed, terminal>>
memory    == <<rec, owned, attempts, block, fenceVars>>
vars      == <<up, ledger, memory, flight, venue, sends>>

\* Reason codes.  WRITE stands for every OMS_*_FAILED code of a failed append,
\* PROJECTION for the three AUTHORITATIVE_*_PROJECTION_FAILED codes, OUTCOME
\* for IB_PLACE_ and IB_FLATTEN_OUTCOME_UNCERTAIN.
NONE       == "NONE"
PENDING    == "BROKER_RESULT_PENDING"
RECOVERY   == "RECOVERY_RECONCILE_REQUIRED"
OUTCOME    == "OUTCOME_UNCERTAIN"
DEFERRED   == "IB_CANCEL_DEFERRED_UNTIL_BROKER_ACK"
PROJECTION == "PROJECTION_FAILED"
WRITE      == "OMS_WRITE_FAILED"
REPLAY     == "OMS_REPLAY_FAILED"
RECONNECT  == "IB_PAPER_BROKER_RECONNECT_PENDING"
HALTED     == "IB_PAPER_TERMINAL_HALTED"
INGRESS    == "OMS_RECOVERY_INGRESS_REPLAYED_AFTER_RESUME"

Record(status, reason) == [status |-> status, reason |-> reason]
NoRecord == Record("none", NONE)

\* The commands that create an order, and the orders.
Orders == { c \in Commands : OperationOf[c] # "cancel" }

\* m_riskMutationDispatches and m_venueDispatchesInFlight.
AtVenue == { c \in Commands : flight[c] \notin {"idle", "preflight"} }
RiskDispatches == AtVenue \cap Orders

\* A ledger line.  A loop that appends one line per command without giving up
\* the mutex is one event with all its commands; `acc' are the accepted ones.
Event(type, status, cmds, acc, who, n) ==
    [type |-> type, status |-> status, cmds |-> cmds, acc |-> acc, who |-> who, n |-> n]

CommandEvent(type, status, c) == Event(type, status, { c }, {}, NONE, 0)
FenceEvent(type, who, n)      == Event(type, "fence", {}, {}, who, n)

-----------------------------------------------------------------------------
(* Recovery: what the ledger says, by the last line that decides it. *)

Latest(I) == IF I = {} THEN 0 ELSE CHOOSE i \in I : \A j \in I : j <= i

\* Fault: recovery rebuilds only commands with an outcome.
OutcomeDecides(e) ==
    e.type \in { "place_sent", "place_activated", "flatten_sent", "reject", "flatten_reject" }

DecidesStatus(e) ==
    e.type \in { "order_intent", "flatten_intent", "flatten_send_attempt",
                 "place_sent", "place_activated", "flatten_sent",
                 "place_outcome_uncertain", "flatten_outcome_uncertain",
                 "reject", "flatten_reject", "cancel", "cancel_send_attempt",
                 "flatten_noop", "execution_projection_failed",
                 "execution_command_resolved", "cancel_command_resolved" }

\* ApplyRecoveredCommandStateLocked.
RecoveredRecord(e, c) ==
    CASE e.type \in {"place_outcome_uncertain", "flatten_outcome_uncertain"} ->
            Record("Uncertain", OUTCOME)
      [] e.type \in {"reject", "flatten_reject"} -> Record("Rejected", NONE)
      [] e.type \in {"place_activated", "flatten_sent", "flatten_noop"} ->
            Record("Accepted", NONE)
      [] e.type = "execution_projection_failed" -> Record("Uncertain", PROJECTION)
      [] e.type \in {"execution_command_resolved", "cancel_command_resolved"} ->
            Record(IF c \in e.acc THEN "Accepted" ELSE "Rejected", NONE)
      [] e.type = "place_sent" /\ e.status = "submitted" -> Record("Accepted", NONE)
      [] e.type = "cancel" /\ e.status = "cancel_sent" -> Record("Accepted", NONE)
      [] e.type = "cancel" /\ e.status = "deferred" -> Record("Uncertain", DEFERRED)
      [] OTHER -> Record("Uncertain", RECOVERY)

StatusLines(log, c) == { i \in DOMAIN log : c \in log[i].cmds /\ DecidesStatus(log[i]) }
TypeLines(log, type) == { i \in DOMAIN log : log[i].type = type }

ReplayRecord(log, c) ==
    LET i == Latest(StatusLines(log, c))
        r == RecoveredRecord(log[i], c)
    IN  IF StatusLines(log, c) = {} THEN NoRecord
        ELSE IF r.reason = PROJECTION /\ i < Latest(TypeLines(log, "execution_projection_resolved"))
        THEN Record("Accepted", NONE)
        ELSE r

\* Whether a line gives order c an owner, or takes it away.
GivesOwner(e, c) ==
    \/ e.type \in {"place_sent", "place_activated", "flatten_sent"} /\ c \in e.cmds
    \/ e.type = "execution_command_resolved" /\ c \in e.acc
\* Fault: a resolved cancel keeps the owner.
KeepsCancelledOwner(e, c) == e.type = "order_owner_reconciled_terminal" /\ c \in e.cmds
TakesOwner(e, c) ==
    \/ e.type = "order_owner_reconciled_terminal" /\ c \in e.cmds
    \/ e.type = "cancel_command_resolved" /\ \E d \in e.cmds : TargetOf[d] = c

ReplayOwned(log) ==
    { c \in Commands : Latest({ i \in DOMAIN log : GivesOwner(log[i], c) })
                         > Latest({ i \in DOMAIN log : TakesOwner(log[i], c) }) }

\* Fault: the budget counts receipts, not attempts.
ReplayReceiptsOnly(log) ==
    { c \in Commands : \E i \in DOMAIN log : c \in log[i].cmds /\ log[i].type = "place_sent" }

ReplayAttempts(log) ==
    { c \in Commands :
        \E i \in DOMAIN log :
            /\ c \in log[i].cmds
            /\ log[i].type \in { "place_send_attempt", "place_sent",
                                 "flatten_send_attempt", "flatten_sent" } }

ReplayAccFenced(log) ==
    { a \in Accounts :
        \E i \in DOMAIN log : log[i].type = "account_new_entry_fenced" /\ log[i].who = a }

OwnerLines(log, type, o) == { i \in TypeLines(log, type) : log[i].who = o }

\* Fault: replay ignores releases.
ReplayNeverReleased(log) ==
    { o \in Owners : OwnerLines(log, "session_owner_fenced", o) # {} }

ReplayOwnFenced(log) ==
    { o \in Owners : Latest(OwnerLines(log, "session_owner_fenced", o))
                       > Latest(OwnerLines(log, "session_owner_fence_release", o)) }

\* The releases that resumed a recovery ingress fence of o.
Resumes(log, o) == { i \in OwnerLines(log, "session_owner_fence_release", o) : log[i].n # 0 }

\* A recovery-only line is refused if its ingress fence was resumed before it.
StaleIngress(log) ==
    { i \in TypeLines(log, "session_owner_recovery_only") :
        \E j \in Resumes(log, log[i].who) : j < i /\ log[j].n >= log[i].n }

\* Fault: replay reinstalls a stale ingress fence.
ReplayStaleIngress(log, o) ==
    LET I == OwnerLines(log, "session_owner_recovery_only", o)
    IN  IF Latest(I) <= Latest(Resumes(log, o)) THEN 0 ELSE log[Latest(I)].n

ReplayRecOnly(log, o) ==
    LET i == Latest(OwnerLines(log, "session_owner_recovery_only", o) \ StaleIngress(log))
    IN  IF i <= Latest(Resumes(log, o)) THEN 0 ELSE log[i].n

ReplayResumed(log, o) ==
    IF Resumes(log, o) = {} THEN 0 ELSE log[Latest(Resumes(log, o))].n

ReplayTerminal(log) == \E i \in DOMAIN log : log[i].type = "paper_terminal_fence"

\* The block that the replayed lines leave, then ValidateRecoveredProjection.
ReplayBlock(log) ==
    LET failed == Latest(TypeLines(log, "execution_projection_failed"))
        halted == Latest(TypeLines(log, "paper_terminal_fence"))
        stale  == Latest(StaleIngress(log))
    IN  CASE halted > failed /\ halted > stale -> HALTED
          [] stale > failed /\ stale > halted -> INGRESS
          [] failed > halted /\ failed > stale
             /\ failed > Latest(TypeLines(log, "execution_projection_resolved")) -> PROJECTION
          [] OTHER -> IF \E c \in Commands : ReplayRecord(log, c).status = "Uncertain"
                      THEN RECOVERY ELSE NONE

-----------------------------------------------------------------------------
(* Steps that several handlers share. *)

\* Fault: a failed append does not block.
NotBlocked(L) == block

\* AppendOrBlockLocked: a failed append blocks mutations.
Blocked(L) == IF L.failed THEN WRITE ELSE block

\* The handler of c leaves ledger L, record and block, and the place `fl'.
Settle(c, L, r, blk, fl) ==
    /\ ledger' = L
    /\ rec' = [rec EXCEPT ![c] = r]
    /\ block' = blk
    /\ flight' = [flight EXCEPT ![c] = fl]

\* A failed append before any send: RejectLocked under the block.
RejectUnwritten(c, L) == Settle(c, L, Record("Rejected", NONE), WRITE, "idle")

\* A journaled rejection: `reject' or `flatten_reject'.
Reject(c, L) ==
    LET type == IF OperationOf[c] = "flatten" THEN "flatten_reject" ELSE "reject"
    IN  \E L1 \in Appended(L, CommandEvent(type, "rejected", c)) :
            Settle(c, L1, Record("Rejected", NONE), Blocked(L1), "idle")

\* UncertainPlaceOutcomeLocked, UncertainAuthoritativeFlattenLocked.
UncertainOutcome(c, L) ==
    LET type == IF OperationOf[c] = "flatten" THEN "flatten_outcome_uncertain"
                ELSE "place_outcome_uncertain"
    IN  \E L1 \in Appended(L, CommandEvent(type, "uncertain", c)) :
            IF L1.failed THEN Settle(c, L1, Record("Uncertain", WRITE), WRITE, "idle")
            ELSE Settle(c, L1, Record("Uncertain", OUTCOME), RECOVERY, "idle")

\* The authoritative projection of an accepted send failed.
ProjectionFailed(c, L) ==
    \E L1 \in Appended(L, CommandEvent("execution_projection_failed", "failed", c)) :
        Settle(c, L1, Record("Uncertain", PROJECTION),
               IF L1.failed THEN WRITE ELSE PROJECTION, "idle")

Accept(c, L) == Settle(c, L, Record("Accepted", NONE), block, "idle")

-----------------------------------------------------------------------------
(* New entries. *)

\* PlaceOrderLocked up to the venue call.  Refusals before the intent (lease,
\* expiry, capacity, an invalid order) change nothing and are not steps.
PlaceOrder(c) ==
    /\ up /\ OperationOf[c] = "place" /\ rec[c] = NoRecord
    /\ AccountOf[c] \notin accFenced
    /\ OwnerOf[c] \notin ownFenced
    /\ recOnly[OwnerOf[c]] = 0
    /\ block = NONE
    /\ RiskDispatches = {}
    /\ Cardinality({ d \in attempts : AccountOf[d] = AccountOf[c] }) < SendAttemptLimit
    /\ \E L \in AppendedPair(ledger, CommandEvent("order_intent", "intent_recorded", c),
                             CommandEvent("place_send_attempt", "attempt_recorded", c)) :
          \/ L.failed /\ RejectUnwritten(c, L) /\ UNCHANGED attempts
          \/ /\ ~L.failed /\ attempts' = attempts \cup { c }
             /\ \/ Settle(c, L, Record("Uncertain", PENDING), block, "calling")
                \/ Reject(c, L)     \* preVenuePlaceCheck refused
    /\ UNCHANGED <<up, owned, fenceVars, venue, sends>>

\* Fault: the second receipt is not written.
ActivateUnrecorded(c, L) ==
    /\ venue[c] = "reserved" /\ venue' = [venue EXCEPT ![c] = "working"]
    /\ Accept(c, L)

\* CompletePlaceOrderLocked.  In two-phase placement the reserved order is
\* activated under the mutex, between its two receipts.
ActivateReserved(c, L) ==
    \/ UncertainOutcome(c, L) /\ UNCHANGED venue
    \/ /\ venue[c] = "reserved" /\ venue' = [venue EXCEPT ![c] = "working"]
       /\ \E L1 \in Appended(L, CommandEvent("place_activated", "submitted", c)) :
             IF L1.failed THEN UncertainOutcome(c, L1) ELSE Accept(c, L1)

CompletePlaceOrder(c) ==
    /\ owned' = owned \cup { c }
    /\ \E L \in Appended(ledger, CommandEvent("place_sent",
                    IF Reserving THEN "activation_pending" ELSE "submitted", c)) :
          IF L.failed
          THEN Settle(c, L, Record("Uncertain", WRITE), WRITE, "idle") /\ UNCHANGED venue
          ELSE IF Reserving
          THEN ActivateReserved(c, L)     \* its first alternative covers a failed projection
          ELSE (Accept(c, L) \/ ProjectionFailed(c, L)) /\ UNCHANGED venue

\* The relocked remainder of DispatchPlaceOrderLocked.
PlaceReturn(c) ==
    /\ up /\ OperationOf[c] = "place"
    /\ \/ flight[c] = "rejected" /\ Reject(c, ledger) /\ UNCHANGED <<owned, venue>>
       \/ flight[c] = "uncertain" /\ UncertainOutcome(c, ledger) /\ UNCHANGED <<owned, venue>>
       \/ flight[c] = "submitted" /\ CompletePlaceOrder(c)
    /\ UNCHANGED <<up, attempts, fenceVars, sends>>

-----------------------------------------------------------------------------
(* Exits. *)

CancelAuthorised(c) ==
    /\ OwnerOf[c] \notin ownFenced
    /\ block \in {NONE, RECOVERY}
    /\ TargetOf[c] \in owned
    /\ OwnerOf[TargetOf[c]] = OwnerOf[c] /\ AccountOf[TargetOf[c]] = AccountOf[c]

\* CancelOrderLocked up to the eligibility preflight.
CancelPreflight(c) ==
    /\ up /\ OperationOf[c] = "cancel" /\ rec[c] = NoRecord /\ flight[c] = "idle"
    /\ CancelAuthorised(c)
    /\ \A d \in Commands : flight[d] = "preflight" => TargetOf[d] # TargetOf[c]
    /\ flight' = [flight EXCEPT ![c] = "preflight"]
    /\ UNCHANGED <<up, ledger, memory, venue, sends>>

\* Fault: the preflight is trusted across the unlocked interval.
CancelTrusted(c) == rec[c] = NoRecord

\* After the preflight everything is validated again.
CancelRevalidated(c) == rec[c] = NoRecord /\ CancelAuthorised(c)

\* From the preflight to the venue call.
CancelOrder(c) ==
    /\ up /\ flight[c] = "preflight"
    /\ \/ /\ flight' = [flight EXCEPT ![c] = "idle"]     \* refused or suppressed
          /\ UNCHANGED <<ledger, rec, block>>
       \/ /\ CancelRevalidated(c)
          /\ \E L1 \in Appended(ledger, CommandEvent("cancel", "intent_recorded", c)) :
                \/ L1.failed /\ RejectUnwritten(c, L1)
                \/ /\ ~L1.failed
                   /\ \E L2 \in Appended(L1, CommandEvent("cancel_send_attempt", "attempt_recorded", c)) :
                         IF L2.failed THEN RejectUnwritten(c, L2)
                         ELSE Settle(c, L2, Record("Uncertain", PENDING), block, "calling")
    /\ UNCHANGED <<up, owned, attempts, fenceVars, venue, sends>>

\* Fault: a deferred cancel counts as accepted.
DeferredAccepted(c) ==
    \E L \in Appended(ledger, CommandEvent("cancel", "deferred", c)) :
        Settle(c, L, Record("Accepted", NONE), Blocked(L), "idle")

\* HandleDeferredCancelLocked.
DeferredCancel(c) ==
    \E L \in Appended(ledger, CommandEvent("cancel", "deferred", c)) :
        Settle(c, L, Record("Uncertain", IF L.failed THEN WRITE ELSE DEFERRED), Blocked(L), "idle")

\* UncertainCancelOutcomeLocked: the block comes before the append.
UncertainCancel(c) ==
    \E L \in Appended(ledger, CommandEvent("cancel", "cancel_pending", c)) :
        LET why == IF L.failed THEN WRITE ELSE RECOVERY
        IN  Settle(c, L, Record("Uncertain", why), why, "idle")

SubmittedCancel(c) ==
    \E L \in Appended(ledger, CommandEvent("cancel", "cancel_sent", c)) :
        IF L.failed THEN Settle(c, L, Record("Uncertain", WRITE), WRITE, "idle")
        ELSE Accept(c, L) \/ ProjectionFailed(c, L)

CancelReturn(c) ==
    /\ up /\ OperationOf[c] = "cancel"
    /\ \/ flight[c] = "rejected" /\ Reject(c, ledger)
       \/ flight[c] = "deferred" /\ DeferredCancel(c)
       \/ flight[c] = "uncertain" /\ UncertainCancel(c)
       \/ flight[c] = "submitted" /\ SubmittedCancel(c)
    /\ UNCHANGED <<up, owned, attempts, fenceVars, venue, sends>>

\* RiskMutationConflictsLocked.
RiskMutationConflicts(c) ==
    \E d \in RiskDispatches : AccountOf[d] = AccountOf[c] /\ InstrumentOf[d] = InstrumentOf[c]

\* The durable part of a flatten after its intent: no position to close, or
\* the send attempt and the pre-venue check.
FlattenNoop(c, L) ==
    \/ Reject(c, L)
    \/ \E L1 \in Appended(L, CommandEvent("flatten_noop", "accepted", c)) :
          IF L1.failed THEN Settle(c, L1, Record("Uncertain", WRITE), WRITE, "idle")
          ELSE Accept(c, L1)

FlattenSend(c, L) ==
    \E L1 \in Appended(L, CommandEvent("flatten_send_attempt", "attempt_recorded", c)) :
        IF L1.failed THEN RejectUnwritten(c, L1) /\ UNCHANGED attempts
        ELSE /\ attempts' = attempts \cup { c }
             /\ \/ Settle(c, L1, Record("Uncertain", PENDING), block, "calling")
                \/ Reject(c, L1)     \* preVenueFlattenCheck refused

\* ExecuteAuthoritativeFlattenLocked up to the venue call.  A refusal by a
\* fence, a block, the plan or the lease is journaled; a conflict is not.
FlattenPosition(c) ==
    /\ up /\ OperationOf[c] = "flatten" /\ rec[c] = NoRecord
    /\ \/ Reject(c, ledger) /\ UNCHANGED attempts
       \/ /\ OwnerOf[c] \notin ownFenced /\ block = NONE /\ ~RiskMutationConflicts(c)
          /\ \E L \in Appended(ledger, CommandEvent("flatten_intent", "intent_recorded", c)) :
                IF L.failed THEN RejectUnwritten(c, L) /\ UNCHANGED attempts
                ELSE (FlattenNoop(c, L) /\ UNCHANGED attempts) \/ FlattenSend(c, L)
    /\ UNCHANGED <<up, owned, fenceVars, venue, sends>>

\* The relocked remainder of DispatchAuthoritativeFlattenLocked.
FlattenReturn(c) ==
    /\ up /\ OperationOf[c] = "flatten"
    /\ \/ flight[c] = "rejected" /\ Reject(c, ledger) /\ UNCHANGED owned
       \/ flight[c] = "uncertain" /\ UncertainOutcome(c, ledger) /\ UNCHANGED owned
       \/ /\ flight[c] = "submitted" /\ owned' = owned \cup { c }
          /\ \E L \in Appended(ledger, CommandEvent("flatten_sent", "submitted", c)) :
                IF L.failed THEN Settle(c, L, Record("Uncertain", WRITE), WRITE, "idle")
                ELSE Accept(c, L) \/ ProjectionFailed(c, L)
    /\ UNCHANGED <<up, attempts, fenceVars, venue, sends>>

-----------------------------------------------------------------------------
(* The venue, as far as the coordinator's callbacks show it. *)

\* Fault: the order is live before its receipt.
PlacedAtOnce(c) == "working"

\* How a new order stands at the venue: two-phase placement only reserves it.
Placed(c) == IF Reserving /\ OperationOf[c] = "place" THEN "reserved" ELSE "working"

\* The call made without the mutex.  An exception, or an acceptance without an
\* order id, is `uncertain': the order may or may not exist.
VenueCall(c, outcome) ==
    /\ up /\ flight[c] = "calling"
    /\ outcome = "deferred" => OperationOf[c] = "cancel"
    /\ flight' = [flight EXCEPT ![c] = outcome]
    /\ sends' = [sends EXCEPT ![c] = @ + 1]
    /\ LET placed == [venue EXCEPT ![c] = Placed(c)]
       IN  CASE OperationOf[c] = "cancel" \/ outcome = "rejected" -> UNCHANGED venue
             [] outcome = "submitted" -> venue' = placed
             [] OTHER -> venue' \in { venue, placed }
    /\ UNCHANGED <<up, ledger, memory>>

\* The venue ends an order, whether or not the process is running.
VenueTerminal(c) ==
    /\ venue[c] = "working"
    /\ venue' = [venue EXCEPT ![c] = "ended"]
    /\ UNCHANGED <<up, ledger, memory, flight, sends>>

-----------------------------------------------------------------------------
(* Authoritative reconciliation.  A loop appends one line per item and stops  *)
(* at the first failure: `done' are the items whose line was appended.        *)

BatchLine(e, S) == Event(e.type, e.status, S, e.acc \cap S, e.who, e.n)

BatchDone(L, e, S) == IF S = {} THEN L ELSE Synced(L, <<BatchLine(e, S)>>)

BatchStopped(L, T, e, S) ==
    { Failed(BatchDone(L, e, S), <<>>) }
    \cup { Failed(BatchDone(L, e, S), <<BatchLine(e, { d })>>) : d \in T \ S }

Batch(L, T, e) ==
    IF T = {} \/ L.failed THEN { [ledger |-> L, done |-> {}] }
    ELSE { [ledger |-> BatchDone(L, e, T), done |-> T] }
         \cup UNION { { [ledger |-> M, done |-> S] : M \in BatchStopped(L, T, e, S) }
                      : S \in (SUBSET T) \ { T } }

\* Fault: a resolution also lifts the block of a failed append.
LiftsRegardless(complete, records) ==
    IF block \in {RECOVERY, WRITE} /\ \A c \in Commands : records[c].status # "Uncertain" THEN NONE
    ELSE block

\* What a resolution leaves of the block: RECOVERY is lifted once nothing is
\* uncertain, a failed append blocks.
BlockAfter(complete, records) ==
    IF ~complete THEN WRITE
    ELSE IF block = RECOVERY /\ \A c \in Commands : records[c].status # "Uncertain" THEN NONE
    ELSE block

Resolved(done, accepted) ==
    [c \in Commands |-> IF c \notin done THEN rec[c]
                        ELSE Record(IF c \in accepted THEN "Accepted" ELSE "Rejected", NONE)]

\* `found' are the orders of the given correlation snapshot.
ResolveUncertainPlaceCommands(found, resolveMissingAsRejected) ==
    /\ up
    /\ LET T == { c \in Commands :
                    /\ OperationOf[c] # "cancel"
                    /\ rec[c].status = "Uncertain" /\ rec[c].reason \in {RECOVERY, OUTCOME}
                    /\ c \in found \/ resolveMissingAsRejected }
           line == Event("execution_command_resolved", "resolved", T, T \cap found, NONE, 0)
       IN  \E b \in Batch(ledger, T, line) :
              /\ ledger' = b.ledger
              /\ rec' = Resolved(b.done, found)
              /\ owned' = owned \cup (b.done \cap found)
              /\ block' = BlockAfter(b.done = T, rec')
    /\ UNCHANGED <<up, attempts, fenceVars, flight, venue, sends>>

\* ResolveUncertainCancelCommands, by order id or by correlation: a target that
\* is not active is resolved by its terminal status or its executions.
ResolveUncertainCancelCommands(active, cancelled, filled) ==
    /\ up /\ active \cap cancelled = {}
    /\ LET T == { c \in Commands :
                    /\ OperationOf[c] = "cancel"
                    /\ rec[c].status = "Uncertain" /\ rec[c].reason \in {RECOVERY, DEFERRED}
                    /\ TargetOf[c] \notin active
                    /\ TargetOf[c] \in cancelled \cup filled }
           accepted == { c \in T : TargetOf[c] \in cancelled \ filled }
           line == Event("cancel_command_resolved", "resolved", T, accepted, NONE, 0)
       IN  \E b \in Batch(ledger, T, line) :
              /\ ledger' = b.ledger
              /\ rec' = Resolved(b.done, accepted)
              /\ owned' = owned \ { TargetOf[c] : c \in b.done }
              /\ block' = BlockAfter(b.done = T, rec')
    /\ UNCHANGED <<up, attempts, fenceVars, flight, venue, sends>>

TerminalLine(S) == Event("order_owner_reconciled_terminal", "terminal", S, {}, NONE, 0)

ReconcileOrderOwners(active) ==
    /\ up
    /\ \E b \in Batch(ledger, owned \ active, TerminalLine(owned \ active)) :
          /\ ledger' = b.ledger
          /\ owned' = owned \ b.done
          /\ block' = IF b.done = owned \ active THEN block ELSE WRITE
    /\ UNCHANGED <<up, rec, attempts, fenceVars, flight, venue, sends>>

\* ResolveProjectionBlockAfterAuthoritativeResync.
ResolveProjectionBlock ==
    /\ up /\ block = PROJECTION
    /\ \E L \in Appended(ledger, Event("execution_projection_resolved", "complete", {}, {}, NONE, 0)) :
          /\ ledger' = L
          /\ IF L.failed THEN block' = WRITE /\ UNCHANGED rec
             ELSE /\ block' = NONE
                  /\ rec' = [c \in Commands |-> IF rec[c].reason = PROJECTION
                                                THEN Record("Accepted", NONE) ELSE rec[c]]
    /\ UNCHANGED <<up, owned, attempts, fenceVars, flight, venue, sends>>

\* The IB adapter's terminal callback forgets the owner in memory only.
RecordOrderTerminal(c) ==
    /\ up /\ c \in owned
    /\ owned' = owned \ { c }
    /\ UNCHANGED <<up, ledger, rec, attempts, block, fenceVars, flight, venue, sends>>

\* The simulator's journals it first.
RecordOrderTerminalDurably(c) ==
    /\ up /\ c \in owned
    /\ \E L \in Appended(ledger, TerminalLine({ c })) :
          /\ ledger' = L /\ block' = Blocked(L)
          /\ owned' = IF L.failed THEN owned ELSE owned \ { c }
    /\ UNCHANGED <<up, rec, attempts, fenceVars, flight, venue, sends>>

-----------------------------------------------------------------------------
(* Fences. *)

\* Both fences stop admission in memory before their line is appended.
EnterAccountNewEntryFence(a) ==
    /\ up /\ a \notin accFenced
    /\ accFenced' = accFenced \cup { a }
    /\ \E L \in Appended(ledger, FenceEvent("account_new_entry_fenced", a, 0)) :
          ledger' = L /\ block' = Blocked(L)
    /\ UNCHANGED <<up, rec, owned, attempts, ownFenced, recOnly, resumed, terminal,
                   flight, venue, sends>>

FenceSessionOwner(o) ==
    /\ up /\ o \notin ownFenced
    /\ ownFenced' = ownFenced \cup { o }
    /\ \E L \in Appended(ledger, FenceEvent("session_owner_fenced", o, 0)) :
          ledger' = L /\ block' = Blocked(L)
    /\ UNCHANGED <<up, rec, owned, attempts, accFenced, recOnly, resumed, terminal,
                   flight, venue, sends>>

\* n is the recovery ingress fence the caller expects, 0 for a plain release.
AuditAndReleaseSessionOwnerFence(o, n) ==
    /\ up /\ block = NONE /\ ~terminal
    /\ n = recOnly[o]
    /\ recOnly[o] # 0 \/ o \in ownFenced
    /\ \A c \in RiskDispatches : OwnerOf[c] # o
    /\ \A c \in owned : OwnerOf[c] # o
    /\ \E L \in Appended(ledger, FenceEvent("session_owner_fence_release", o, n)) :
          /\ ledger' = L /\ block' = Blocked(L)
          /\ IF L.failed THEN UNCHANGED <<ownFenced, recOnly, resumed>>
             ELSE /\ ownFenced' = ownFenced \ { o }
                  /\ recOnly' = [recOnly EXCEPT ![o] = 0]
                  /\ resumed' = [resumed EXCEPT ![o] = IF n # 0 THEN n ELSE @]
    /\ UNCHANGED <<up, rec, owned, attempts, accFenced, terminal, flight, venue, sends>>

\* Fault: the resumed high-water mark is not consulted.
IngressNewest(o, n) == recOnly[o] < n

\* A stale ingress fence is refused; the current one again changes nothing.
IngressFresh(o, n) == resumed[o] < n /\ recOnly[o] < n

EnterRecoveryOnlyOwner(o, n) ==
    /\ up /\ IngressFresh(o, n)
    /\ \E L \in Appended(ledger, FenceEvent("session_owner_recovery_only", o, n)) :
          /\ ledger' = L /\ block' = Blocked(L)
          /\ recOnly' = IF L.failed THEN recOnly ELSE [recOnly EXCEPT ![o] = n]
    /\ UNCHANGED <<up, rec, owned, attempts, accFenced, ownFenced, resumed, terminal,
                   flight, venue, sends>>

\* Fault: calls in flight are not counted.
NothingOwned == owned = {}

\* No venue call is outstanding and no order has an owner.
NothingOutstanding == AtVenue = {} /\ owned = {}

BeginBrokerReconnectFence ==
    /\ up /\ block = NONE /\ NothingOutstanding
    /\ block' = RECONNECT
    /\ UNCHANGED <<up, ledger, rec, owned, attempts, fenceVars, flight, venue, sends>>

EndBrokerReconnectFence ==
    /\ up /\ block = RECONNECT /\ block' = NONE
    /\ UNCHANGED <<up, ledger, rec, owned, attempts, fenceVars, flight, venue, sends>>

\* EnterPaperTerminalFenceAndProject; repeated, it changes nothing.
EnterPaperTerminalFence ==
    /\ up /\ block = NONE /\ NothingOutstanding
    /\ \E L \in Appended(ledger, FenceEvent("paper_terminal_fence", NONE, 0)) :
          /\ ledger' = L
          /\ block' = IF L.failed THEN WRITE ELSE HALTED
          /\ terminal' = ~L.failed
    /\ UNCHANGED <<up, rec, owned, attempts, accFenced, ownFenced, recOnly, resumed,
                   flight, venue, sends>>

-----------------------------------------------------------------------------
(* Restart. *)

\* The state ResetRecoveryProjectionLocked leaves; also that of no process.
Blank(blk) ==
    /\ rec' = [c \in Commands |-> NoRecord]
    /\ owned' = {} /\ attempts' = {} /\ block' = blk
    /\ accFenced' = {} /\ ownFenced' = {} /\ terminal' = FALSE
    /\ recOnly' = [o \in Owners |-> 0] /\ resumed' = [o \in Owners |-> 0]

Recovered(log) ==
    /\ rec' = [c \in Commands |-> ReplayRecord(log, c)]
    /\ owned' = ReplayOwned(log)
    /\ attempts' = ReplayAttempts(log)
    /\ block' = ReplayBlock(log)
    /\ accFenced' = ReplayAccFenced(log) /\ ownFenced' = ReplayOwnFenced(log)
    /\ recOnly' = [o \in Owners |-> ReplayRecOnly(log, o)]
    /\ resumed' = [o \in Owners |-> ReplayResumed(log, o)]
    /\ terminal' = ReplayTerminal(log)

\* RecoverFromJournal: the whole ledger, or nothing and a block.
RecoverFrom(L) ==
    \/ ~L.failed /\ ledger' = Flushed(L) /\ Recovered(L.log)
    \/ ledger' \in { L, Failed(L, <<>>) } /\ Blank(REPLAY)

\* The runtime opens the journal and recovers before it serves anything.
Start ==
    /\ ~up /\ up' = TRUE
    /\ RecoverFrom(Opened(ledger))
    /\ UNCHANGED <<flight, venue, sends>>

\* A later call is refused while a handler is outside the mutex.
RecoverFromJournal ==
    /\ up /\ \A c \in Commands : flight[c] = "idle"
    /\ RecoverFrom(ledger)
    /\ UNCHANGED <<up, flight, venue, sends>>

\* The process ends anywhere; the simulator's venue ends with it.  A machine
\* crash may also lose what was not synced.
ProcessLost ==
    /\ up' = FALSE /\ Blank(NONE)
    /\ flight' = [c \in Commands |-> "idle"]
    /\ venue' = IF Reserving THEN [c \in Commands |-> "none"] ELSE venue
    /\ UNCHANGED sends

ProcessCrash == up /\ ProcessLost /\ UNCHANGED ledger
MachineCrash == ProcessLost /\ ledger' \in Truncated(ledger)

-----------------------------------------------------------------------------
Init ==
    /\ LedgerInit
    /\ rec = [c \in Commands |-> NoRecord]
    /\ owned = {} /\ attempts = {} /\ block = NONE
    /\ accFenced = {} /\ ownFenced = {} /\ terminal = FALSE
    /\ recOnly = [o \in Owners |-> 0] /\ resumed = [o \in Owners |-> 0]
    /\ flight = [c \in Commands |-> "idle"]
    /\ venue = [c \in Commands |-> "none"]
    /\ sends = [c \in Commands |-> 0]

CommandNext(c) ==
    \/ PlaceOrder(c) \/ PlaceReturn(c)
    \/ CancelPreflight(c) \/ CancelOrder(c) \/ CancelReturn(c)
    \/ FlattenPosition(c) \/ FlattenReturn(c)
    \/ \E outcome \in {"submitted", "rejected", "uncertain", "deferred"} : VenueCall(c, outcome)
    \/ VenueTerminal(c)
    \/ RecordOrderTerminal(c) \/ RecordOrderTerminalDurably(c)

ReconcileNext ==
    \/ \E found \in SUBSET Orders, missing \in BOOLEAN :
          ResolveUncertainPlaceCommands(found, missing)
    \/ \E active, cancelled, filled \in SUBSET Orders :
          ResolveUncertainCancelCommands(active, cancelled, filled)
    \/ \E active \in SUBSET Orders : ReconcileOrderOwners(active)
    \/ ResolveProjectionBlock

FenceNext ==
    \/ \E a \in Accounts : EnterAccountNewEntryFence(a)
    \/ \E o \in Owners : FenceSessionOwner(o)
    \/ \E o \in Owners, n \in 0 .. MaxIngress : AuditAndReleaseSessionOwnerFence(o, n)
    \/ \E o \in Owners, n \in 1 .. MaxIngress : EnterRecoveryOnlyOwner(o, n)
    \/ BeginBrokerReconnectFence \/ EndBrokerReconnectFence
    \/ EnterPaperTerminalFence

Next ==
    \/ \E c \in Commands : CommandNext(c)
    \/ ReconcileNext \/ FenceNext
    \/ Start \/ RecoverFromJournal \/ ProcessCrash \/ MachineCrash

Spec == Init /\ [][Next]_vars

-----------------------------------------------------------------------------
(* Properties. *)

LineTypes ==
    { "order_intent", "place_send_attempt", "place_sent", "place_activated",
      "place_outcome_uncertain", "reject", "cancel", "cancel_send_attempt",
      "flatten_intent", "flatten_send_attempt", "flatten_sent", "flatten_noop",
      "flatten_reject", "flatten_outcome_uncertain", "execution_projection_failed",
      "execution_projection_resolved", "execution_command_resolved",
      "cancel_command_resolved", "order_owner_reconciled_terminal",
      "account_new_entry_fenced", "session_owner_fenced", "session_owner_fence_release",
      "session_owner_recovery_only", "paper_terminal_fence" }

LineStatuses ==
    { "intent_recorded", "attempt_recorded", "submitted", "activation_pending",
      "accepted", "rejected", "uncertain", "failed", "deferred", "cancel_pending",
      "cancel_sent", "resolved", "terminal", "complete", "fence" }

Lines ==
    [type : LineTypes, status : LineStatuses, cmds : SUBSET Commands, acc : SUBSET Commands,
     who : Owners \cup Accounts \cup {NONE}, n : Nat]

Reasons ==
    { NONE, PENDING, RECOVERY, OUTCOME, DEFERRED, PROJECTION, WRITE, REPLAY, RECONNECT, HALTED,
      INGRESS }

\* The types of the coordinator's state, and that the durable part of the
\* ledger is a part of it.
TypeOK ==
    /\ up \in BOOLEAN
    /\ ledger \in [log : Seq(Lines), durable : Nat, failed : BOOLEAN]
    /\ ledger.durable <= Len(ledger.log)
    /\ rec \in [Commands -> [status : {"none", "Uncertain", "Accepted", "Rejected"},
                             reason : Reasons]]
    /\ owned \subseteq Commands /\ attempts \subseteq Commands
    /\ block \in Reasons
    /\ accFenced \subseteq Accounts /\ ownFenced \subseteq Owners
    /\ recOnly \in [Owners -> Nat] /\ resumed \in [Owners -> Nat]
    /\ terminal \in BOOLEAN
    /\ flight \in [Commands -> {"idle", "preflight", "calling", "submitted", "rejected",
                                "uncertain", "deferred"}]
    /\ venue \in [Commands -> {"none", "reserved", "working", "ended"}]
    /\ sends \in [Commands -> Nat]

\* Idempotency across every interleaving, failed append, restart and machine
\* crash: the venue is called at most once for a command, so a retry never
\* sends again (PlaceOrderLocked, CancelOrderLocked and flatten look the
\* command up in what RecoverFromJournal rebuilt).
SendAtMostOnce == \A c \in Commands : sends[c] <= 1

IsIntent(e) ==
    \/ e.type \in {"order_intent", "flatten_intent"}
    \/ e.type = "cancel" /\ e.status = "intent_recorded"

IsSendAttempt(e) ==
    e.type \in {"place_send_attempt", "cancel_send_attempt", "flatten_send_attempt"}

\* A venue call is never made before the command's intent and its send attempt
\* are where a machine crash cannot lose them, and they stay there.
SendIsDurable ==
    \A c \in Commands : sends[c] > 0 =>
        \E i, j \in 1 .. ledger.durable :
            /\ c \in ledger.log[i].cmds /\ IsIntent(ledger.log[i])
            /\ c \in ledger.log[j].cmds /\ IsSendAttempt(ledger.log[j])

\* While the ledger is healthy, what a restart would rebuild from it is what
\* the process already answers: no handler changes a command's status, a fence
\* or the send-attempt budget without the line that recovery reads.
MemoryMatchesReplay ==
    up /\ ~ledger.failed /\ block # REPLAY =>
        /\ \A c \in Commands : rec[c].status = ReplayRecord(ledger.log, c).status
        /\ owned \subseteq ReplayOwned(ledger.log)
        /\ attempts = ReplayAttempts(ledger.log)
        /\ accFenced = ReplayAccFenced(ledger.log)
        /\ ownFenced = ReplayOwnFenced(ledger.log)
        /\ \A o \in Owners : /\ recOnly[o] = ReplayRecOnly(ledger.log, o)
                             /\ resumed[o] = ReplayResumed(ledger.log, o)
        /\ terminal = ReplayTerminal(ledger.log)

\* After an append has failed, no handler that overwrites the block reason and
\* no reconciliation reopens admission before the next restart.
FailedBlocks == up /\ ledger.failed => block \in {WRITE, REPLAY}

\* Terminal finalization and broker reconnect never cross a venue call whose
\* effect is unknown: while either fence is up, no call is outstanding, also
\* for a cancel whose preflight had passed before the fence.
QuietFences == terminal \/ block = RECONNECT => AtVenue = {}

\* A cancel, entry or flatten reaches its venue call only while its owner is
\* not fenced, however long its preflight took; an entry also needs its account
\* and its owner's recovery ingress open, and no other entry or flatten out.
FencesStopSends ==
    [][\A c \in Commands : flight[c] # "calling" /\ flight'[c] = "calling" =>
          /\ OwnerOf[c] \notin ownFenced /\ ~terminal
          /\ OperationOf[c] = "cancel" => TargetOf[c] \in owned
          /\ OperationOf[c] = "place" =>
                /\ AccountOf[c] \notin accFenced /\ recOnly[OwnerOf[c]] = 0
                /\ RiskDispatches = {}]_vars

\* The ingress fence that restricts an owner, after any sequence of releases and
\* restarts, is newer than every one a healthy ledger shows as resumed: replay
\* keeps the high-water mark, so an old recovery request cannot reinstall it.
\* This is the sentence of docs/technical/user-paper-runtime.md.
ResumedNotReinstalled ==
    up /\ ~ledger.failed => \A o \in Owners :
        recOnly[o] # 0 => ReplayResumed(ledger.log, o) < recOnly[o]

\* The same, except in a coordinator whose recovery failed.
IngressAdvances == block # REPLAY => ResumedNotReinstalled

\* The send-attempt budget of an account is not reset by a restart: over the
\* whole history no more entries are sent than the limit (every attempt being
\* inside the caller's time window).
SendBudget ==
    \A a \in Accounts :
        Cardinality({ c \in Commands : OperationOf[c] = "place" /\ AccountOf[c] = a
                                       /\ sends[c] > 0 }) <= SendAttemptLimit

\* docs/technical/venue-placement-contract.md: after an uncertain outcome
\* "preserve uncertain journal state, fence new risk and reconcile".  While an
\* entry or flatten that no handler works on is uncertain, mutations are blocked.
UncertainFencesRisk ==
    up /\ block = NONE => \A c \in Orders : rec[c].status = "Uncertain" => flight[c] # "idle"

\* Two-phase placement: an order can fill only once its pending receipt is
\* durable, so no order trades that a restart would not know of.
ActivatedHasReceipt ==
    Reserving => \A c \in Commands :
        OperationOf[c] = "place" /\ venue[c] \in {"working", "ended"} =>
            \E i \in 1 .. ledger.durable :
                c \in ledger.log[i].cmds /\ ledger.log[i].type = "place_sent"
=============================================================================
