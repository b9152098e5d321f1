----------------------- MODULE ExecutionHandlerProofs -----------------------
(***************************************************************************)
(* The handlers of one command (place, cancel, flatten and the venue's     *)
(* answers) preserve the invariant of the execution coordinator.           *)
(***************************************************************************)
EXTENDS ExecutionLedgerProofs

-----------------------------------------------------------------------------
(* The handlers of one command. *)

\* The lines a handler of c writes; only the return of a venue call records that
\* the projection failed.
HandlerLines(c) ==
    { l \in Lines : /\ l.cmds = { c } /\ l.type # "paper_terminal_fence"
                    /\ l.type = "execution_projection_failed" => c \in AtVenue }

\* What any step of a handler of c does to the ledger, its record, the block and
\* its place: it reaches the venue call only for an unknown command, unblocked,
\* with the intent and the attempt durable.
Handled(c) ==
    /\ Grows(ledger, ledger', HandlerLines(c))
    /\ \E r \in Records : r.status # "none" /\ rec' = [rec EXCEPT ![c] = r]
    /\ \/ ledger'.failed /\ block' = WRITE
       \/ ~ledger'.failed /\ block' = block
       \/ ~ledger'.failed /\ c \in AtVenue /\ block' \in {RECOVERY, PROJECTION}
    /\ \/ flight' = [flight EXCEPT ![c] = "idle"]
       \/ /\ flight' = [flight EXCEPT ![c] = "calling"]
          /\ rec[c] = NoRecord /\ ~ledger'.failed /\ block \in {NONE, RECOVERY} /\ block' = block
          /\ DurableSend(ledger', c)

\* The records that handlers leave.
LEMMA RecordTypes ==
    /\ Record("Rejected", NONE) \in Records
    /\ Record("Accepted", NONE) \in Records
    /\ \A r \in {PENDING, RECOVERY, OUTCOME, DEFERRED, PROJECTION, WRITE} :
          Record("Uncertain", r) \in Records
    /\ \A s \in {"Rejected", "Accepted", "Uncertain"}, r \in Reasons : Record(s, r).status # "none"
BY DEF Record, Records, Reasons

\* One append by a handler that has brought the ledger to L.
LEMMA HandlerAppend ==
    ASSUME TypeOK, NEW c \in Commands, NEW L, Grows(ledger, L, HandlerLines(c)),
           NEW e \in HandlerLines(c), NEW M \in Appended(L, e)
    PROVE  /\ Grows(ledger, M, HandlerLines(c))
           /\ M \in Ledgers
           /\ L.failed => M = L
           /\ ~M.failed => /\ Len(M.log) = Len(L.log) + 1
                           /\ M.log[Len(L.log) + 1] = e
                           /\ e.type \in CriticalEventTypes => M.durable = Len(M.log)
<1>1. e \in Lines
      BY DEF HandlerLines
<1>2. ledger \in Ledgers
      BY DEF TypeOK, Ledgers
<1>3. L \in Ledgers
      BY DEF Grows
<1>4. /\ Grows(L, M, HandlerLines(c))
      /\ M \in Ledgers
      /\ ~M.failed => /\ ~L.failed
                      /\ Len(M.log) = Len(L.log) + 1
                      /\ M.log[Len(L.log) + 1] = e
                      /\ e.type \in CriticalEventTypes => M.durable = Len(M.log)
      BY <1>1, <1>3, AppendedGrows
<1>5. Grows(ledger, M, HandlerLines(c))
      BY <1>2, <1>4, GrowsTrans
<1>6. L.failed => M = L
      BY <1>4 DEF Grows
<1> QED BY <1>4, <1>5, <1>6

\* A handler that settles at rest leaves what Handled allows.
LEMMA SettleHandled ==
    ASSUME NEW c \in Commands, NEW L, NEW r \in Records, NEW blk,
           Grows(ledger, L, HandlerLines(c)), r.status # "none",
           \/ L.failed /\ blk = WRITE
           \/ ~L.failed /\ blk = block
           \/ ~L.failed /\ c \in AtVenue /\ blk \in {RECOVERY, PROJECTION},
           Settle(c, L, r, blk, "idle")
    PROVE  Handled(c)
BY Zenon DEF Settle, Handled

\* A rejection under a failed append is a handler step.
LEMMA RejectUnwrittenHandled ==
    ASSUME NEW c \in Commands, NEW L, Grows(ledger, L, HandlerLines(c)), L.failed,
           RejectUnwritten(c, L)
    PROVE  Handled(c)
<1>1. Record("Rejected", NONE) \in Records /\ Record("Rejected", NONE).status # "none"
      BY RecordTypes DEF Record
<1> QED BY <1>1, SettleHandled DEF RejectUnwritten

\* A journaled rejection is a handler step.
LEMMA RejectHandled ==
    ASSUME TypeOK, NEW c \in Commands, NEW L, Grows(ledger, L, HandlerLines(c)), Reject(c, L)
    PROVE  Handled(c)
<1>1. Record("Rejected", NONE) \in Records /\ Record("Rejected", NONE).status # "none"
      BY RecordTypes DEF Record
<1>2. PICK type \in {"reject", "flatten_reject"} :
        \E L1 \in Appended(L, CommandEvent(type, "rejected", c)) :
            Settle(c, L1, Record("Rejected", NONE), Blocked(L1), "idle")
      BY DEF Reject
<1>3. PICK L1 \in Appended(L, CommandEvent(type, "rejected", c)) :
            Settle(c, L1, Record("Rejected", NONE), Blocked(L1), "idle")
      BY <1>2
<1>4. CommandEvent(type, "rejected", c) \in HandlerLines(c)
      BY DEF HandlerLines, CommandEvent, Event, Lines, LineTypes, LineStatuses
<1>5. Grows(ledger, L1, HandlerLines(c))
      BY <1>4, HandlerAppend
<1> QED BY <1>1, <1>3, <1>5, SettleHandled DEF Blocked

\* An uncertain outcome is a handler step: it blocks for reconciliation.
LEMMA UncertainOutcomeHandled ==
    ASSUME TypeOK, NEW c \in Commands, NEW L, Grows(ledger, L, HandlerLines(c)),
           c \in AtVenue, UncertainOutcome(c, L)
    PROVE  Handled(c)
<1>1. /\ Record("Uncertain", WRITE) \in Records /\ Record("Uncertain", WRITE).status # "none"
      /\ Record("Uncertain", OUTCOME) \in Records /\ Record("Uncertain", OUTCOME).status # "none"
      BY RecordTypes DEF Record
<1>2. PICK type \in {"flatten_outcome_uncertain", "place_outcome_uncertain"} :
        \E L1 \in Appended(L, CommandEvent(type, "uncertain", c)) :
            IF L1.failed THEN Settle(c, L1, Record("Uncertain", WRITE), WRITE, "idle")
            ELSE Settle(c, L1, Record("Uncertain", OUTCOME), RECOVERY, "idle")
      BY DEF UncertainOutcome
<1>3. PICK L1 \in Appended(L, CommandEvent(type, "uncertain", c)) :
            IF L1.failed THEN Settle(c, L1, Record("Uncertain", WRITE), WRITE, "idle")
            ELSE Settle(c, L1, Record("Uncertain", OUTCOME), RECOVERY, "idle")
      BY <1>2
<1>4. CommandEvent(type, "uncertain", c) \in HandlerLines(c)
      BY DEF HandlerLines, CommandEvent, Event, Lines, LineTypes, LineStatuses
<1>5. Grows(ledger, L1, HandlerLines(c))
      BY <1>4, HandlerAppend
<1> QED BY <1>1, <1>3, <1>5, SettleHandled

\* A failed projection of an accepted send is a handler step.
LEMMA ProjectionFailedHandled ==
    ASSUME TypeOK, NEW c \in Commands, NEW L, Grows(ledger, L, HandlerLines(c)),
           c \in AtVenue, ProjectionFailed(c, L)
    PROVE  Handled(c)
<1>1. Record("Uncertain", PROJECTION) \in Records
      /\ Record("Uncertain", PROJECTION).status # "none"
      BY RecordTypes DEF Record
<1>2. PICK L1 \in Appended(L, CommandEvent("execution_projection_failed", "failed", c)) :
            Settle(c, L1, Record("Uncertain", PROJECTION),
                   IF L1.failed THEN WRITE ELSE PROJECTION, "idle")
      BY DEF ProjectionFailed
<1>3. CommandEvent("execution_projection_failed", "failed", c) \in HandlerLines(c)
      BY DEF HandlerLines, CommandEvent, Event, Lines, LineTypes, LineStatuses
<1>4. Grows(ledger, L1, HandlerLines(c))
      BY <1>3, HandlerAppend
<1> QED BY <1>1, <1>2, <1>4, SettleHandled

\* An acceptance is a handler step.
LEMMA AcceptHandled ==
    ASSUME NEW c \in Commands, NEW L, Grows(ledger, L, HandlerLines(c)), ~L.failed, Accept(c, L)
    PROVE  Handled(c)
<1>1. Record("Accepted", NONE) \in Records /\ Record("Accepted", NONE).status # "none"
      BY RecordTypes DEF Record
<1> QED BY <1>1, SettleHandled DEF Accept

\* A receipt that could not be written.
LEMMA UnwrittenHandled ==
    ASSUME NEW c \in Commands, NEW L, Grows(ledger, L, HandlerLines(c)), L.failed,
           Settle(c, L, Record("Uncertain", WRITE), WRITE, "idle")
    PROVE  Handled(c)
<1>1. Record("Uncertain", WRITE) \in Records /\ Record("Uncertain", WRITE).status # "none"
      BY RecordTypes DEF Record
<1> QED BY <1>1, SettleHandled

\* The ledger so far, to start a handler from.
LEMMA LedgerGrows ==
    ASSUME TypeOK, NEW c
    PROVE  ledger \in Ledgers /\ Grows(ledger, ledger, HandlerLines(c))
<1>1. ledger \in Ledgers
      BY DEF TypeOK, Ledgers
<1> QED BY <1>1, GrowsRefl

\* A handler that has made its intent and its attempt durable may call.
LEMMA CallHandled ==
    ASSUME NEW c \in Commands, NEW L,
           Grows(ledger, L, HandlerLines(c)), ~L.failed, DurableSend(L, c),
           rec[c] = NoRecord, block \in {NONE, RECOVERY},
           Settle(c, L, Record("Uncertain", PENDING), block, "calling")
    PROVE  Handled(c)
<1>1. Record("Uncertain", PENDING) \in Records /\ Record("Uncertain", PENDING).status # "none"
      BY RecordTypes DEF Record
<1>2. /\ ledger' = L /\ block' = block
      /\ rec' = [rec EXCEPT ![c] = Record("Uncertain", PENDING)]
      /\ flight' = [flight EXCEPT ![c] = "calling"]
      BY DEF Settle
<1> QED BY <1>1, <1>2, Zenon DEF Handled

\* A new entry up to its venue call: the pair append makes it durable.
LEMMA PlaceOrderHandled ==
    ASSUME TypeOK, NEW c \in Commands, PlaceOrder(c)
    PROVE  Handled(c)
<1> DEFINE e1 == CommandEvent("order_intent", "intent_recorded", c)
           e2 == CommandEvent("place_send_attempt", "attempt_recorded", c)
<1>1. rec[c] = NoRecord /\ block = NONE
      BY DEF PlaceOrder
<1>2. PICK L \in AppendedPair(ledger, e1, e2) :
          \/ L.failed /\ RejectUnwritten(c, L) /\ UNCHANGED attempts
          \/ /\ ~L.failed /\ attempts' = attempts \cup { c }
             /\ \/ Settle(c, L, Record("Uncertain", PENDING), block, "calling")
                \/ Reject(c, L)
      BY DEF PlaceOrder
<1>3. /\ e1 \in HandlerLines(c) /\ e2 \in HandlerLines(c)
      /\ c \in e1.cmds /\ IsIntent(e1) /\ c \in e2.cmds /\ IsSendAttempt(e2)
      BY DEF HandlerLines, CommandEvent, Event, Lines, LineTypes, LineStatuses,
             IsIntent, IsSendAttempt
<1> HIDE DEF e1, e2
<1>4. e1 \in Lines /\ e2 \in Lines
      BY <1>3 DEF HandlerLines
<1>5. /\ Grows(ledger, L, HandlerLines(c)) /\ L \in Ledgers
      /\ ~L.failed => /\ Len(L.log) = Len(ledger.log) + 2
                      /\ L.log[Len(ledger.log) + 1] = e1
                      /\ L.log[Len(ledger.log) + 2] = e2
                      /\ L.durable = Len(L.log)
      BY <1>2, <1>3, <1>4, LedgerGrows, AppendedPairGrows
<1>6. ASSUME ~L.failed PROVE DurableSend(L, c)
  <2>1. Len(ledger.log) \in Nat
        BY LedgerGrows DEF Ledgers
  <2>2. Len(ledger.log) + 1 \in 1 .. L.durable /\ Len(ledger.log) + 2 \in 1 .. L.durable
        BY <1>5, <1>6, <2>1
  <2> QED BY <1>3, <1>5, <1>6, <2>2 DEF DurableSend, IntentAt, AttemptAt
<1>7. CASE L.failed /\ RejectUnwritten(c, L)
      BY <1>5, <1>7, RejectUnwrittenHandled
<1>8. CASE ~L.failed /\ Reject(c, L)
      BY <1>5, <1>8, RejectHandled
<1>9. CASE ~L.failed /\ Settle(c, L, Record("Uncertain", PENDING), block, "calling")
      BY <1>1, <1>5, <1>6, <1>9, CallHandled
<1> QED BY <1>2, <1>7, <1>8, <1>9

\* The remainder of a new entry after its venue call.
LEMMA PlaceReturnHandled ==
    ASSUME TypeOK, NEW c \in Commands, PlaceReturn(c)
    PROVE  Handled(c)
<1>1. CASE flight[c] = "rejected" /\ Reject(c, ledger)
      BY <1>1, LedgerGrows, RejectHandled
<1>2. CASE flight[c] = "uncertain" /\ UncertainOutcome(c, ledger)
  <2>1. c \in AtVenue
        BY <1>2 DEF AtVenue
  <2> QED BY <1>2, <2>1, LedgerGrows, UncertainOutcomeHandled
<1>3. CASE flight[c] = "submitted" /\ CompletePlaceOrder(c)
  <2>1. c \in AtVenue
        BY <1>3 DEF AtVenue
  <2>2. PICK status \in {"activation_pending", "submitted"} :
          \E L \in Appended(ledger, CommandEvent("place_sent", status, c)) :
              IF L.failed
              THEN Settle(c, L, Record("Uncertain", WRITE), WRITE, "idle") /\ UNCHANGED venue
              ELSE IF Reserving
              THEN ActivateReserved(c, L)
              ELSE (Accept(c, L) \/ ProjectionFailed(c, L)) /\ UNCHANGED venue
        BY <1>3 DEF CompletePlaceOrder
  <2>3. PICK L \in Appended(ledger, CommandEvent("place_sent", status, c)) :
              IF L.failed
              THEN Settle(c, L, Record("Uncertain", WRITE), WRITE, "idle") /\ UNCHANGED venue
              ELSE IF Reserving
              THEN ActivateReserved(c, L)
              ELSE (Accept(c, L) \/ ProjectionFailed(c, L)) /\ UNCHANGED venue
        BY <2>2
  <2>4. CommandEvent("place_sent", status, c) \in HandlerLines(c)
        BY DEF HandlerLines, CommandEvent, Event, Lines, LineTypes, LineStatuses
  <2>5. Grows(ledger, L, HandlerLines(c))
        BY <2>4, LedgerGrows, HandlerAppend
  <2>6. CASE L.failed
        BY <2>3, <2>5, <2>6, UnwrittenHandled
  <2>7. CASE ~L.failed /\ UncertainOutcome(c, L)
        BY <2>1, <2>5, <2>7, UncertainOutcomeHandled
  <2>8. CASE ~L.failed /\ Accept(c, L)
        BY <2>5, <2>8, AcceptHandled
  <2>9. CASE ~L.failed /\ ProjectionFailed(c, L)
        BY <2>1, <2>5, <2>9, ProjectionFailedHandled
  <2>10. CASE \E L1 \in Appended(L, CommandEvent("place_activated", "submitted", c)) :
                 IF L1.failed THEN UncertainOutcome(c, L1) ELSE Accept(c, L1)
    <3>1. PICK L1 \in Appended(L, CommandEvent("place_activated", "submitted", c)) :
                 IF L1.failed THEN UncertainOutcome(c, L1) ELSE Accept(c, L1)
          BY <2>10
    <3>2. CommandEvent("place_activated", "submitted", c) \in HandlerLines(c)
          BY DEF HandlerLines, CommandEvent, Event, Lines, LineTypes, LineStatuses
    <3>3. Grows(ledger, L1, HandlerLines(c))
          BY <2>5, <3>2, HandlerAppend
    <3> QED BY <2>1, <3>1, <3>3, UncertainOutcomeHandled, AcceptHandled
  <2> QED BY <2>3, <2>6, <2>7, <2>8, <2>9, <2>10 DEF ActivateReserved
<1> QED BY <1>1, <1>2, <1>3 DEF PlaceReturn

\* The validated half of CancelOrder.
CancelValidated(c) ==
    /\ CancelRevalidated(c)
    /\ \E L1 \in Appended(ledger, CommandEvent("cancel", "intent_recorded", c)) :
          \/ L1.failed /\ RejectUnwritten(c, L1)
          \/ /\ ~L1.failed
             /\ \E L2 \in Appended(L1, CommandEvent("cancel_send_attempt", "attempt_recorded", c)) :
                   IF L2.failed THEN RejectUnwritten(c, L2)
                   ELSE Settle(c, L2, Record("Uncertain", PENDING), block, "calling")

\* Two appends of which the second is critical make both lines durable.
LEMMA TwoAppends ==
    ASSUME TypeOK, NEW c \in Commands,
           NEW e1 \in HandlerLines(c), c \in e1.cmds, IsIntent(e1),
           NEW e2 \in HandlerLines(c), c \in e2.cmds, IsSendAttempt(e2),
           e2.type \in CriticalEventTypes,
           NEW L1 \in Appended(ledger, e1), ~L1.failed,
           NEW L2 \in Appended(L1, e2), ~L2.failed
    PROVE  DurableSend(L2, c)
<1>1. /\ L1 \in Ledgers /\ Len(L1.log) = Len(ledger.log) + 1
      /\ L1.log[Len(ledger.log) + 1] = e1
      BY LedgerGrows, HandlerAppend
<1>2. Grows(ledger, L1, HandlerLines(c))
      BY LedgerGrows, HandlerAppend
<1>3. /\ Len(L2.log) = Len(L1.log) + 1 /\ L2.log[Len(L1.log) + 1] = e2
      /\ L2.durable = Len(L2.log)
      BY <1>2, HandlerAppend
<1>4. Grows(L1, L2, HandlerLines(c))
      BY <1>1, AppendedGrows, Zenon DEF HandlerLines
<1>5. Len(ledger.log) \in Nat
      BY LedgerGrows DEF Ledgers
<1>6. L2.log[Len(ledger.log) + 1] = e1
      BY <1>1, <1>4, <1>5 DEF Grows
<1>7. Len(ledger.log) + 1 \in 1 .. L2.durable /\ Len(L1.log) + 1 \in 1 .. L2.durable
      BY <1>1, <1>3, <1>5
<1> QED BY <1>3, <1>6, <1>7 DEF DurableSend, IntentAt, AttemptAt

\* A validated cancel up to its venue call.
LEMMA CancelOrderHandled ==
    ASSUME TypeOK, NEW c \in Commands, CancelValidated(c)
    PROVE  Handled(c)
<1> DEFINE e1 == CommandEvent("cancel", "intent_recorded", c)
           e2 == CommandEvent("cancel_send_attempt", "attempt_recorded", c)
<1>1. rec[c] = NoRecord /\ block \in {NONE, RECOVERY}
      BY DEF CancelValidated, CancelRevalidated, CancelAuthorised
<1>2. PICK L1 \in Appended(ledger, e1) :
          \/ L1.failed /\ RejectUnwritten(c, L1)
          \/ /\ ~L1.failed
             /\ \E L2 \in Appended(L1, e2) :
                   IF L2.failed THEN RejectUnwritten(c, L2)
                   ELSE Settle(c, L2, Record("Uncertain", PENDING), block, "calling")
      BY Zenon DEF CancelValidated
<1>3. /\ e1 \in HandlerLines(c) /\ e2 \in HandlerLines(c)
      /\ c \in e1.cmds /\ IsIntent(e1) /\ c \in e2.cmds /\ IsSendAttempt(e2)
      /\ e2.type \in CriticalEventTypes
      BY DEF HandlerLines, CommandEvent, Event, Lines, LineTypes, LineStatuses, IsIntent,
             IsSendAttempt, CriticalEventTypes
<1> HIDE DEF e1, e2
<1>4. Grows(ledger, L1, HandlerLines(c))
      BY <1>3, LedgerGrows, HandlerAppend
<1>5. CASE L1.failed /\ RejectUnwritten(c, L1)
      BY <1>4, <1>5, RejectUnwrittenHandled
<1>6. CASE ~L1.failed /\ \E L2 \in Appended(L1, e2) :
                   IF L2.failed THEN RejectUnwritten(c, L2)
                   ELSE Settle(c, L2, Record("Uncertain", PENDING), block, "calling")
  <2>1. PICK L2 \in Appended(L1, e2) :
                   IF L2.failed THEN RejectUnwritten(c, L2)
                   ELSE Settle(c, L2, Record("Uncertain", PENDING), block, "calling")
        BY <1>6
  <2>2. Grows(ledger, L2, HandlerLines(c))
        BY <1>3, <1>4, HandlerAppend
  <2>3. CASE L2.failed
        BY <2>1, <2>2, <2>3, RejectUnwrittenHandled
  <2>4. CASE ~L2.failed
    <3>1. DurableSend(L2, c)
          BY <1>3, <1>6, <2>4, TwoAppends, Zenon
    <3> QED BY <1>1, <2>1, <2>2, <2>4, <3>1, CallHandled, Zenon
  <2> QED BY <2>3, <2>4
<1> QED BY <1>2, <1>5, <1>6, Zenon

\* The remainder of a cancel after its venue call.
LEMMA CancelReturnHandled ==
    ASSUME TypeOK, NEW c \in Commands, CancelReturn(c)
    PROVE  Handled(c)
<1>1. \A s \in {"deferred", "cancel_pending", "cancel_sent"} :
          CommandEvent("cancel", s, c) \in HandlerLines(c)
      BY DEF HandlerLines, CommandEvent, Event, Lines, LineTypes, LineStatuses
<1>2. \A r \in {WRITE, DEFERRED, RECOVERY} :
          Record("Uncertain", r) \in Records /\ Record("Uncertain", r).status # "none"
      BY RecordTypes DEF Record
<1>3. CASE flight[c] = "rejected" /\ Reject(c, ledger)
      BY <1>3, LedgerGrows, RejectHandled
<1>4. CASE flight[c] = "deferred" /\ DeferredCancel(c)
  <2>1. PICK L \in Appended(ledger, CommandEvent("cancel", "deferred", c)) :
          Settle(c, L, Record("Uncertain", IF L.failed THEN WRITE ELSE DEFERRED), Blocked(L), "idle")
        BY <1>4 DEF DeferredCancel
  <2>2. Grows(ledger, L, HandlerLines(c))
        BY <1>1, LedgerGrows, HandlerAppend
  <2> QED BY <1>2, <2>1, <2>2, SettleHandled DEF Blocked
<1>5. CASE flight[c] = "uncertain" /\ UncertainCancel(c)
  <2>1. PICK L \in Appended(ledger, CommandEvent("cancel", "cancel_pending", c)) :
          Settle(c, L, Record("Uncertain", IF L.failed THEN WRITE ELSE RECOVERY),
                 IF L.failed THEN WRITE ELSE RECOVERY, "idle")
        BY <1>5 DEF UncertainCancel
  <2>2. Grows(ledger, L, HandlerLines(c))
        BY <1>1, LedgerGrows, HandlerAppend
  <2>3. c \in AtVenue
        BY <1>5 DEF AtVenue
  <2> QED BY <1>2, <2>1, <2>2, <2>3, SettleHandled
<1>6. CASE flight[c] = "submitted" /\ SubmittedCancel(c)
  <2>1. PICK L \in Appended(ledger, CommandEvent("cancel", "cancel_sent", c)) :
          IF L.failed THEN Settle(c, L, Record("Uncertain", WRITE), WRITE, "idle")
          ELSE Accept(c, L) \/ ProjectionFailed(c, L)
        BY <1>6 DEF SubmittedCancel
  <2>2. Grows(ledger, L, HandlerLines(c))
        BY <1>1, LedgerGrows, HandlerAppend
  <2>3. c \in AtVenue
        BY <1>6, Zenon DEF AtVenue
  <2> QED BY <2>1, <2>2, <2>3, UnwrittenHandled, AcceptHandled, ProjectionFailedHandled
<1> QED BY <1>3, <1>4, <1>5, <1>6 DEF CancelReturn

\* A flatten up to its venue call.
LEMMA FlattenPositionHandled ==
    ASSUME TypeOK, NEW c \in Commands, FlattenPosition(c)
    PROVE  Handled(c)
<1> DEFINE e1 == CommandEvent("flatten_intent", "intent_recorded", c)
           e2 == CommandEvent("flatten_send_attempt", "attempt_recorded", c)
           e3 == CommandEvent("flatten_noop", "accepted", c)
<1>1. rec[c] = NoRecord
      BY Zenon DEF FlattenPosition
<1>2. /\ e1 \in HandlerLines(c) /\ e2 \in HandlerLines(c) /\ e3 \in HandlerLines(c)
      /\ c \in e1.cmds /\ IsIntent(e1) /\ c \in e2.cmds /\ IsSendAttempt(e2)
      /\ e2.type \in CriticalEventTypes
      BY DEF HandlerLines, CommandEvent, Event, Lines, LineTypes, LineStatuses, IsIntent,
             IsSendAttempt, CriticalEventTypes
<1>3. CASE Reject(c, ledger)
      BY <1>3, LedgerGrows, RejectHandled
<1>4. CASE /\ block = NONE
           /\ \E L \in Appended(ledger, e1) :
                IF L.failed THEN RejectUnwritten(c, L) /\ UNCHANGED attempts
                ELSE (FlattenNoop(c, L) /\ UNCHANGED attempts) \/ FlattenSend(c, L)
  <2>1. PICK L \in Appended(ledger, e1) :
                IF L.failed THEN RejectUnwritten(c, L) /\ UNCHANGED attempts
                ELSE (FlattenNoop(c, L) /\ UNCHANGED attempts) \/ FlattenSend(c, L)
        BY <1>4
  <2>2. Grows(ledger, L, HandlerLines(c))
        BY <1>2, LedgerGrows, HandlerAppend
  <2>3. CASE L.failed
        BY <2>1, <2>2, <2>3, RejectUnwrittenHandled
  <2>4. CASE ~L.failed /\ FlattenNoop(c, L)
    <3>1. CASE Reject(c, L)
          BY <2>2, <3>1, RejectHandled
    <3>2. CASE \E L1 \in Appended(L, e3) :
                  IF L1.failed THEN Settle(c, L1, Record("Uncertain", WRITE), WRITE, "idle")
                  ELSE Accept(c, L1)
      <4>1. PICK L1 \in Appended(L, e3) :
                  IF L1.failed THEN Settle(c, L1, Record("Uncertain", WRITE), WRITE, "idle")
                  ELSE Accept(c, L1)
            BY <3>2, Zenon
      <4>2. Grows(ledger, L1, HandlerLines(c))
            BY <1>2, <2>2, HandlerAppend
      <4> QED BY <4>1, <4>2, UnwrittenHandled, AcceptHandled
    <3> QED BY <2>4, <3>1, <3>2 DEF FlattenNoop
  <2>5. CASE ~L.failed /\ FlattenSend(c, L)
    <3>1. PICK L1 \in Appended(L, e2) :
              IF L1.failed THEN RejectUnwritten(c, L1) /\ UNCHANGED attempts
              ELSE /\ attempts' = attempts \cup { c }
                   /\ \/ Settle(c, L1, Record("Uncertain", PENDING), block, "calling")
                      \/ Reject(c, L1)
          BY <2>5, Zenon DEF FlattenSend
    <3>2. Grows(ledger, L1, HandlerLines(c))
          BY <1>2, <2>2, HandlerAppend
    <3>3. CASE L1.failed
          BY <3>1, <3>2, <3>3, RejectUnwrittenHandled
    <3>4. CASE ~L1.failed /\ Reject(c, L1)
          BY <3>2, <3>4, RejectHandled
    <3>5. CASE ~L1.failed /\ Settle(c, L1, Record("Uncertain", PENDING), block, "calling")
      <4> HIDE DEF e1, e2
      <4>1. DurableSend(L1, c)
            BY <1>2, <2>5, <3>5, TwoAppends, Zenon
      <4> QED BY <1>1, <1>4, <3>2, <3>5, <4>1, CallHandled, Zenon
    <3> QED BY <3>1, <3>3, <3>4, <3>5
  <2> QED BY <2>1, <2>3, <2>4, <2>5
<1> QED BY <1>3, <1>4 DEF FlattenPosition

\* The remainder of a flatten after its venue call.
LEMMA FlattenReturnHandled ==
    ASSUME TypeOK, NEW c \in Commands, FlattenReturn(c)
    PROVE  Handled(c)
<1>1. CASE flight[c] = "rejected" /\ Reject(c, ledger)
      BY <1>1, LedgerGrows, RejectHandled
<1>2. CASE flight[c] = "uncertain" /\ UncertainOutcome(c, ledger)
  <2>1. c \in AtVenue
        BY <1>2 DEF AtVenue
  <2> QED BY <1>2, <2>1, LedgerGrows, UncertainOutcomeHandled
<1>3. CASE /\ flight[c] = "submitted"
           /\ \E L \in Appended(ledger, CommandEvent("flatten_sent", "submitted", c)) :
                IF L.failed THEN Settle(c, L, Record("Uncertain", WRITE), WRITE, "idle")
                ELSE Accept(c, L) \/ ProjectionFailed(c, L)
  <2>1. PICK L \in Appended(ledger, CommandEvent("flatten_sent", "submitted", c)) :
                IF L.failed THEN Settle(c, L, Record("Uncertain", WRITE), WRITE, "idle")
                ELSE Accept(c, L) \/ ProjectionFailed(c, L)
        BY <1>3
  <2>2. CommandEvent("flatten_sent", "submitted", c) \in HandlerLines(c)
        BY DEF HandlerLines, CommandEvent, Event, Lines, LineTypes, LineStatuses
  <2>3. Grows(ledger, L, HandlerLines(c))
        BY <2>2, LedgerGrows, HandlerAppend
  <2>4. c \in AtVenue
        BY <1>3 DEF AtVenue
  <2> QED BY <2>1, <2>3, <2>4, UnwrittenHandled, AcceptHandled, ProjectionFailedHandled, Zenon
<1> QED BY <1>1, <1>2, <1>3, Zenon DEF FlattenReturn

-----------------------------------------------------------------------------
(* A handler step preserves the invariant. *)

Venues == [Commands -> {"none", "reserved", "working", "ended"}]

\* What a handler step leaves alone, and the types of what it may change.
HandlerFrame ==
    /\ up /\ up' = up /\ terminal' = terminal /\ sends' = sends
    /\ accFenced' = accFenced /\ ownFenced' = ownFenced
    /\ recOnly' = recOnly /\ resumed' = resumed
    /\ owned' \subseteq Commands /\ attempts' \subseteq Commands /\ venue' \in Venues

\* A handler step keeps the types.
LEMMA HandledType ==
    ASSUME IInv, NEW c \in Commands, Handled(c), HandlerFrame
    PROVE  TypeOK'
<1>1. TypeOK
      BY Zenon DEF IInv
<1>2. /\ ledger' \in [log : Seq(Lines), durable : Nat, failed : BOOLEAN]
      /\ ledger'.durable <= Len(ledger'.log)
      BY DEF Handled, Grows, Ledgers
<1>3. rec' \in [Commands -> Records]
      BY <1>1 DEF Handled, TypeOK, Records
<1>4. block' \in Reasons
      BY <1>1 DEF Handled, TypeOK, Reasons
<1>5. flight' \in [Commands -> {"idle", "preflight", "calling", "submitted", "rejected",
                                "uncertain", "deferred"}]
      BY <1>1, ZenonT(40) DEF Handled, TypeOK
<1> QED BY <1>1, <1>2, <1>3, <1>4, <1>5 DEF TypeOK, HandlerFrame, Records, Venues

\* After a handler step the ledger can be healthy and the projection present
\* only if they were before it.
LEMMA HandledHealthy ==
    ASSUME IInv, NEW c \in Commands, Handled(c),
           ~ledger'.failed, block' # REPLAY
    PROVE  ~ledger.failed /\ block # REPLAY
<1>1. ~ledger.failed
      BY DEF Handled, Grows
<1>2. c \in AtVenue => block # REPLAY
      BY DEF IInv, BlockInv, AtVenue
<1> QED BY <1>1, <1>2, Zenon DEF Handled

\* A handler step keeps the block of a failed ledger.
LEMMA HandledBlock ==
    ASSUME IInv, NEW c \in Commands, Handled(c), HandlerFrame
    PROVE  BlockInv'
<1>1. TypeOK /\ BlockInv
      BY DEF IInv
<1>2. FailedBlocks'
      BY DEF Handled, FailedBlocks
<1>3. ASSUME block' = REPLAY, NEW d \in Commands
      PROVE  flight'[d] = "idle"
  <2>1. block = REPLAY
        BY <1>3 DEF Handled, REPLAY, WRITE, RECOVERY, PROJECTION
  <2>2. flight[d] = "idle"
        BY <1>1, <2>1, Zenon DEF BlockInv
  <2>3. flight' = [flight EXCEPT ![c] = "idle"]
        BY <2>1 DEF Handled, REPLAY, RECOVERY, NONE
  <2> QED BY <1>1, <2>2, <2>3 DEF TypeOK
<1>4. up'
      BY Zenon DEF HandlerFrame
<1> QED BY <1>2, <1>3, <1>4 DEF BlockInv

\* A handler step calls only for an unknown command, made durable first.
LEMMA HandledSend ==
    ASSUME IInv, NEW c \in Commands, Handled(c), HandlerFrame
    PROVE  SendInv'
<1>1. TypeOK /\ BlockInv /\ SendInv /\ ledger \in Ledgers
      BY LedgerGrows DEF IInv
<1>2. Grows(ledger, ledger', HandlerLines(c))
      BY DEF Handled
<1>3. PICK r \in Records : r.status # "none" /\ rec' = [rec EXCEPT ![c] = r]
      BY Zenon DEF Handled
<1> SUFFICES ASSUME NEW d \in Commands
    PROVE  /\ up' /\ ~ledger'.failed /\ block' # REPLAY /\ rec'[d] = NoRecord
                => \A i \in DOMAIN ledger'.log : ~IntentAt(ledger'.log, d, i)
           /\ sends'[d] > 0 \/ flight'[d] = "calling" => DurableSend(ledger', d)
           /\ flight'[d] = "calling" => sends'[d] = 0
           /\ sends'[d] <= 1
    BY Zenon DEF SendInv
<1>4. ASSUME ~ledger'.failed, block' # REPLAY, rec'[d] = NoRecord
      PROVE  \A i \in DOMAIN ledger'.log : ~IntentAt(ledger'.log, d, i)
  <2>1. d # c
    <3>1. NoRecord.status = "none"
          BY DEF NoRecord, Record
    <3>2. rec'[c] = r
          BY <1>1, <1>3, Zenon DEF TypeOK
    <3> QED BY <1>3, <1>4, <3>1, <3>2, Zenon
  <2>2. rec[d] = NoRecord
        BY <1>1, <1>3, <1>4, <2>1 DEF TypeOK
  <2>3. ~ledger.failed /\ block # REPLAY
        BY <1>4, HandledHealthy, Zenon
  <2>4. \A i \in DOMAIN ledger.log : ~IntentAt(ledger.log, d, i)
        BY <1>1, <2>2, <2>3 DEF SendInv, HandlerFrame
  <2>5. \A l \in HandlerLines(c) : ~(d \in l.cmds /\ IsIntent(l))
        BY <2>1, Zenon DEF HandlerLines
  <2> QED BY <1>1, <1>2, <2>4, <2>5, IntentGrows, Zenon
<1>5. \/ flight'[d] = "calling" => flight[d] = "calling"
      \/ /\ d = c /\ rec[c] = NoRecord /\ block \in {NONE, RECOVERY}
         /\ DurableSend(ledger', d)
      BY <1>1 DEF Handled, TypeOK
<1>6. sends'[d] > 0 \/ flight'[d] = "calling" => DurableSend(ledger', d)
  <2>1. sends[d] > 0 \/ flight[d] = "calling" => DurableSend(ledger', d)
        BY <1>1, <1>2, DurableSendGrows DEF SendInv
  <2> QED BY <1>5, <2>1, Zenon DEF HandlerFrame
<1>7. flight'[d] = "calling" => sends'[d] = 0
  <2>1. CASE flight[d] = "calling"
        BY <1>1, <2>1 DEF SendInv, HandlerFrame
  <2>2. CASE d = c /\ rec[c] = NoRecord /\ block \in {NONE, RECOVERY}
    <3>1. ~ledger.failed /\ block # REPLAY
          BY <1>1, <2>2, Zenon DEF BlockInv, FailedBlocks, HandlerFrame, WRITE, REPLAY, RECOVERY, NONE
    <3>2. \A i \in DOMAIN ledger.log : ~IntentAt(ledger.log, d, i)
          BY <1>1, <2>2, <3>1, Zenon DEF SendInv, HandlerFrame
    <3>3. ~DurableSend(ledger, d)
      <4>1. 1 .. ledger.durable \subseteq DOMAIN ledger.log
            BY <1>1 DEF Ledgers
      <4> QED BY <3>2, <4>1 DEF DurableSend
    <3>4. ~(sends[d] > 0) /\ sends[d] \in Nat
          BY <1>1, <3>3, Zenon DEF SendInv, TypeOK
    <3> QED BY <3>4 DEF HandlerFrame
  <2> QED BY <1>5, <2>1, <2>2, Zenon
<1>8. sends'[d] <= 1
      BY <1>1 DEF SendInv, HandlerFrame
<1> QED BY <1>4, <1>6, <1>7, <1>8

\* A handler step begins no call under the terminal or the reconnect fence.
LEMMA HandledQuiet ==
    ASSUME IInv, NEW c \in Commands, Handled(c), HandlerFrame
    PROVE  QuietInv'
<1>1. TypeOK /\ BlockInv /\ QuietInv /\ ledger \in Ledgers
      BY LedgerGrows DEF IInv
<1>2. Grows(ledger, ledger', HandlerLines(c))
      BY DEF Handled
<1>3. terminal => c \notin AtVenue /\ block \in {HALTED, WRITE, REPLAY, INGRESS}
      BY <1>1 DEF QuietInv, QuietFences
<1>4. QuietFences'
  <2> SUFFICES ASSUME terminal \/ block' = RECONNECT
               PROVE  AtVenue' = {}
      BY DEF QuietFences, HandlerFrame
  <2>1. block' = RECONNECT => block = RECONNECT
        BY DEF Handled, RECONNECT, WRITE, RECOVERY, PROJECTION
  <2>2. AtVenue = {}
        BY <1>1, <2>1 DEF QuietInv, QuietFences
  <2>3. block \notin {NONE, RECOVERY}
        BY <1>3, <2>1 DEF RECONNECT, RECOVERY, HALTED, WRITE, REPLAY, INGRESS, NONE
  <2>4. flight' = [flight EXCEPT ![c] = "idle"]
        BY <2>3 DEF Handled
  <2> QED BY <1>1, <2>2, <2>4 DEF AtVenue, TypeOK
<1>5. terminal' => block' \in {HALTED, WRITE, REPLAY, INGRESS}
      BY <1>3 DEF Handled, HandlerFrame
<1>6. \A l \in HandlerLines(c) : l.type # "paper_terminal_fence"
      BY Zenon DEF HandlerLines
<1>7. up' /\ ~ledger'.failed /\ block' # REPLAY => terminal' = ReplayTerminal(ledger'.log)
  <2> SUFFICES ASSUME ~ledger'.failed, block' # REPLAY
               PROVE  terminal' = ReplayTerminal(ledger'.log)
      OBVIOUS
  <2>1. terminal = ReplayTerminal(ledger.log)
        BY <1>1, HandledHealthy DEF QuietInv, HandlerFrame
  <2> QED BY <1>1, <1>2, <1>6, <2>1, TerminalGrows DEF HandlerFrame
<1>8. HaltedLast(ledger'.log)
  <2>1. CASE ledger.failed
        BY <1>1, <1>2, <2>1, Zenon DEF Grows, QuietInv
  <2>2. CASE ~ledger.failed /\ c \notin AtVenue
    <3>1. \A l \in HandlerLines(c) : l.type # "execution_projection_failed"
          BY <2>2, Zenon DEF HandlerLines
    <3> QED BY <1>1, <1>2, <1>6, <3>1, TerminalGrows, Zenon DEF QuietInv
  <2>3. CASE ~ledger.failed /\ c \in AtVenue
    <3>1. block # REPLAY
          BY <1>1, <2>3 DEF BlockInv, AtVenue
    <3>2. ~ReplayTerminal(ledger.log)
          BY <1>1, <1>3, <2>3, <3>1 DEF QuietInv, HandlerFrame, TypeOK
    <3> QED BY <1>1, <1>2, <1>6, <3>2, TerminalGrows DEF QuietInv
  <2> QED BY <2>1, <2>2, <2>3, Zenon
<1> QED BY <1>4, <1>5, <1>7, <1>8 DEF QuietInv

\* The frames of the handlers.
LEMMA HandlerFrames ==
    ASSUME TypeOK, NEW c \in Commands,
           \/ PlaceOrder(c) \/ PlaceReturn(c) \/ CancelReturn(c)
           \/ FlattenPosition(c) \/ FlattenReturn(c)
           \/ up /\ UNCHANGED <<up, owned, attempts, fenceVars, venue, sends>>
    PROVE  HandlerFrame
<1>1. owned \subseteq Commands /\ attempts \subseteq Commands /\ venue \in Venues
      BY DEF TypeOK, Venues
<1>2. ASSUME up, UNCHANGED <<up, fenceVars, sends>>,
             owned' \subseteq Commands, attempts' \subseteq Commands, venue' \in Venues
      PROVE  HandlerFrame
      BY <1>2 DEF HandlerFrame, fenceVars
<1>3. CASE PlaceOrder(c)
  <2>1. attempts' \in {attempts, attempts \cup { c }}
        BY <1>3, ZenonT(40) DEF PlaceOrder
  <2>2. up /\ UNCHANGED <<up, owned, fenceVars, venue, sends>>
        BY <1>3, Zenon DEF PlaceOrder
  <2> QED BY <1>1, <1>2, <2>1, <2>2, SMTT(30)
<1>4. CASE PlaceReturn(c)
  <2>1. up /\ UNCHANGED <<up, attempts, fenceVars, sends>>
        BY <1>4, Zenon DEF PlaceReturn
  <2>2. owned' \in {owned, owned \cup { c }}
        BY <1>4, ZenonT(40) DEF PlaceReturn, CompletePlaceOrder
  <2>3. venue' = venue \/ venue' = [venue EXCEPT ![c] = "working"]
        BY <1>4, Zenon DEF PlaceReturn, CompletePlaceOrder, ActivateReserved
  <2>4. venue' \in Venues
        BY <1>1, <2>3, Zenon DEF Venues
  <2> QED BY <1>1, <1>2, <2>1, <2>2, <2>4, Zenon
<1>5. CASE CancelReturn(c)
      BY <1>1, <1>2, <1>5, Zenon DEF CancelReturn
<1>6. CASE FlattenPosition(c)
  <2>1. attempts' \in {attempts, attempts \cup { c }}
        BY <1>6, ZenonT(40) DEF FlattenPosition, FlattenSend
  <2>2. up /\ UNCHANGED <<up, owned, fenceVars, venue, sends>>
        BY <1>6 DEF FlattenPosition
  <2> QED BY <1>1, <1>2, <2>1, <2>2
<1>7. CASE FlattenReturn(c)
  <2>1. up /\ UNCHANGED <<up, attempts, fenceVars, venue, sends>>
        BY <1>7, ZenonT(40) DEF FlattenReturn
  <2>2. owned' \in {owned, owned \cup { c }}
        BY <1>7, Zenon DEF FlattenReturn
  <2> QED BY <1>1, <1>2, <2>1, <2>2, SMTT(30)
<1>8. CASE up /\ UNCHANGED <<up, owned, attempts, fenceVars, venue, sends>>
      BY <1>1, <1>2, <1>8, Zenon
<1> QED BY <1>3, <1>4, <1>5, <1>6, <1>7, <1>8, Zenon

\* How a step that touches neither the ledger nor the records may move the
\* handler of c: not at all, into or out of its preflight, or out of its call.
FlightMove(c) ==
    \/ flight' = flight /\ sends' = sends
    \/ /\ sends' = sends /\ flight[c] \in {"idle", "preflight"}
       /\ \/ flight' = [flight EXCEPT ![c] = "idle"]
          \/ block \in {NONE, RECOVERY} /\ up /\ flight' = [flight EXCEPT ![c] = "preflight"]
    \/ /\ flight[c] = "calling" /\ sends' = [sends EXCEPT ![c] = sends[c] + 1]
       /\ \E outcome \in {"submitted", "rejected", "uncertain", "deferred"} :
             flight' = [flight EXCEPT ![c] = outcome]

\* A step that writes nothing keeps the invariant: a preflight, the venue call
\* itself, the end of an order.
LEMMA StillStep ==
    ASSUME IInv, NEW c \in Commands,
           up' = up, ledger' = ledger, rec' = rec, attempts' = attempts, block' = block,
           accFenced' = accFenced, ownFenced' = ownFenced, recOnly' = recOnly,
           resumed' = resumed, terminal' = terminal, owned' \subseteq Commands,
           venue' \in Venues, FlightMove(c)
    PROVE  IInv'
<1>1. TypeOK /\ BlockInv /\ SendInv /\ QuietInv
      BY DEF IInv
<1> DEFINE Places == {"idle", "preflight", "calling", "submitted", "rejected", "uncertain",
                      "deferred"}
<1>0. flight \in [Commands -> Places] /\ sends \in [Commands -> Nat]
      BY <1>1, Zenon DEF TypeOK
<1>2. TypeOK'
  <2>1. flight' \in [Commands -> Places]
        BY <1>0 DEF FlightMove
  <2>2. sends' \in [Commands -> Nat]
    <3>1. sends[c] + 1 \in Nat
          BY <1>0
    <3>2. sends' = sends \/ sends' = [sends EXCEPT ![c] = sends[c] + 1]
          BY Zenon DEF FlightMove
    <3> QED BY <1>0, <3>1, <3>2
  <2> QED BY <1>1, <2>1, <2>2, Zenon DEF TypeOK, Venues
<1>3. BlockInv'
      BY <1>1, Zenon DEF TypeOK, BlockInv, FailedBlocks, RECOVERY, REPLAY, FlightMove, NONE
<1>4. SendInv'
  <2> SUFFICES ASSUME NEW d \in Commands
      PROVE  /\ up' /\ ~ledger'.failed /\ block' # REPLAY /\ rec'[d] = NoRecord
                  => \A i \in DOMAIN ledger'.log : ~IntentAt(ledger'.log, d, i)
             /\ sends'[d] > 0 \/ flight'[d] = "calling" => DurableSend(ledger', d)
             /\ flight'[d] = "calling" => sends'[d] = 0
             /\ sends'[d] <= 1
      BY Zenon DEF SendInv
  <2>1. CASE sends'[d] = sends[d] /\ (flight'[d] = "calling" => flight[d] = "calling")
        BY <1>1, <2>1, ZenonT(40) DEF SendInv
  <2>2. CASE flight[d] = "calling" /\ sends'[d] = sends[d] + 1 /\ flight'[d] # "calling"
    <3>1. sends[d] = 0 /\ DurableSend(ledger, d)
          BY <1>1, <2>2, Zenon DEF SendInv
    <3>2. 0 + 1 = 1 /\ 1 <= 1
          OBVIOUS
    <3>3. sends'[d] <= 1
          BY <2>2, <3>1, <3>2, Zenon
    <3> QED BY <1>1, <2>2, <3>1, <3>3, Zenon DEF SendInv
  <2>3. \/ sends'[d] = sends[d] /\ (flight'[d] = "calling" => flight[d] = "calling")
        \/ flight[d] = "calling" /\ sends'[d] = sends[d] + 1 /\ flight'[d] # "calling"
    <3>1. CASE d = c
          BY <1>0, <3>1, ZenonT(40) DEF FlightMove
    <3>2. CASE d # c
          BY <1>0, <3>2, Zenon DEF FlightMove
    <3> QED BY <3>1, <3>2, Zenon
  <2> QED BY <2>1, <2>2, <2>3, Zenon
<1>5. QuietInv'
  <2>1. AtVenue' \subseteq AtVenue
        BY <1>1 DEF AtVenue, TypeOK, FlightMove
  <2> QED BY <1>1, <2>1, Zenon DEF QuietInv, QuietFences
<1> QED BY <1>2, <1>3, <1>4, <1>5, Zenon DEF IInv

=============================================================================
