--------------------------- MODULE OmsProjection ---------------------------
(***************************************************************************)
(* What a sealed OMS generation keeps of a ledger                          *)
(* (scripts/hepta_oms_checkpoint.py and scripts/hepta_oms_lifecycle.py)    *)
(* and what the coordinator rebuilds from it                               *)
(* (HeptaTrade/execution/execution_generation_support.cpp).                *)
(*                                                                         *)
(* Maintenance replaces the sealed lines by three digests: the hot replay, *)
(* which is the lines that unresolved or current state still needs; the    *)
(* command index, one record per command ever seen; and the index of send  *)
(* attempts.  A restart replays the hot lines and the tail, and looks every *)
(* other command up in the index.  The lines are those of the coordinator, *)
(* so this module is about every ledger that the coordinator can write.    *)
(***************************************************************************)
EXTENDS RecoveryReplay

\* A record of the command index; NONE is the empty operation.
IndexRecord(operation, status, intent) ==
    [operation |-> operation, status |-> status, intent |-> intent]
NoIndexRecord == IndexRecord(NONE, "unknown", FALSE)

\* _operation.
OperationAfter(e, prior) ==
    CASE e.type \in {"flatten_intent", "flatten_send_attempt", "flatten_sent", "flatten_noop",
                     "flatten_reject", "flatten_outcome_uncertain"} -> "flatten"
      [] e.type \in {"cancel", "cancel_send_attempt", "cancel_command_resolved"} -> "cancel"
      [] e.type \in {"order_intent", "place_send_attempt", "place_sent", "place_activated",
                     "place_outcome_uncertain", "execution_command_resolved", "reject"} ->
            IF prior = NONE THEN "place" ELSE prior
      [] OTHER -> prior

\* Fault: a reserved order counts as accepted.
StatusUnreserved(e, c, prior) ==
    CASE e.type \in {"place_sent", "place_activated", "flatten_sent", "flatten_noop"} -> "accepted"
      [] e.type \in {"reject", "flatten_reject"} -> "rejected"
      [] e.type \in {"execution_command_resolved", "cancel_command_resolved"} ->
            IF c \in e.acc THEN "accepted" ELSE "rejected"
      [] OTHER -> "uncertain"

\* _status.
StatusAfter(e, c, prior) ==
    CASE e.type \in {"order_intent", "flatten_intent", "place_send_attempt", "flatten_send_attempt",
                     "place_outcome_uncertain", "flatten_outcome_uncertain",
                     "cancel_send_attempt", "execution_projection_failed"} -> "uncertain"
      [] e.type \in {"reject", "flatten_reject"} -> "rejected"
      [] e.type = "cancel" -> IF e.status = "cancel_sent" THEN "accepted" ELSE "uncertain"
      [] e.type = "place_sent" /\ e.status = "activation_pending" -> "uncertain"
      [] e.type \in {"place_sent", "place_activated", "flatten_sent", "flatten_noop"} -> "accepted"
      [] e.type \in {"execution_command_resolved", "cancel_command_resolved"} ->
            IF c \in e.acc THEN "accepted" ELSE "rejected"
      [] OTHER -> prior

\* _durable_intent.
DurableIntent(e) ==
    \/ e.type \in {"order_intent", "flatten_intent"}
    \/ e.type = "cancel" /\ e.status = "intent_recorded"

\* _key: the commands under whose identity a line is indexed.  The lines that
\* take an owner away carry an identity of their own.
KeysOf(e) == IF e.type = "order_owner_reconciled_terminal" THEN {} ELSE e.cmds

\* _update_command.
UpdateCommand(index, e) ==
    [c \in Commands |->
        IF c \notin KeysOf(e) THEN index[c]
        ELSE IndexRecord(OperationAfter(e, index[c].operation),
                         StatusAfter(e, c, index[c].status),
                         index[c].intent \/ DurableIntent(e))]

CommandIndex(events) == FoldLeft(UpdateCommand, [c \in Commands |-> NoIndexRecord], events)

\* The send attempts that _project_hot collects.
SendAttempts(events) ==
    { c \in Commands :
        \E i \in DOMAIN events :
            /\ c \in events[i].cmds
            /\ events[i].type \in {"place_send_attempt", "place_sent",
                                   "flatten_send_attempt", "flatten_sent"} }

-----------------------------------------------------------------------------
(* The hot replay. *)

\* active_owner_event: the line that shows the owner of order c, 0 if none.
OwnerLine(events, c) ==
    LET sent == Latest({ i \in DOMAIN events :
                            /\ events[i].type \in {"place_sent", "place_activated", "flatten_sent"}
                            /\ c \in events[i].cmds })
        gone == Latest({ i \in TypeLines(events, "order_owner_reconciled_terminal") :
                            c \in events[i].cmds })
    IN  IF sent > gone THEN sent ELSE 0

\* fence_event, recovery_event, account_entry_fence_event (the first line of an
\* account), terminal_fence_event.
FenceLines(events) ==
    LET fenced(o)   == Latest(OwnerLines(events, "session_owner_fenced", o))
        released(o) == Latest(OwnerLines(events, "session_owner_fence_release", o))
        recovery(o) == Latest(OwnerLines(events, "session_owner_recovery_only", o))
        accounts    == TypeLines(events, "account_new_entry_fenced")
    IN  { fenced(o) : o \in { x \in Owners : fenced(x) > released(x) } }
        \cup { recovery(o) : o \in Owners }
        \cup { i \in accounts : \A j \in accounts : events[j].who = events[i].who => i <= j }
        \cup { Latest(TypeLines(events, "paper_terminal_fence")) }

\* projection_failure_event.
ProjectionFailureLine(events) ==
    LET failed == Latest(TypeLines(events, "execution_projection_failed"))
    IN  IF failed > Latest(TypeLines(events, "execution_projection_resolved")) THEN failed ELSE 0

\* _project_hot.
ProjectHot(events) ==
    LET index       == CommandIndex(events)
        owner       == [c \in Commands |-> OwnerLine(events, c)]
        failure     == ProjectionFailureLine(events)
        fences      == FenceLines(events)
        selected(i) == { c \in KeysOf(events[i]) :
                            index[c].status = "uncertain" \/ i = owner[c] \/ i = failure }
        line(i)     == [events[i] EXCEPT !.cmds = selected(i), !.acc = @ \cap selected(i)]
    IN  FoldLeftDomain(LAMBDA hot, i : IF i \in fences \/ selected(i) # {}
                                       THEN Append(hot, line(i)) ELSE hot,
                       << >>, events)

-----------------------------------------------------------------------------
(* Generations. *)

\* Fault: the tail's record replaces the parent's.
ReplaceCommandRecord(parent, update) == update

\* _merge_command_record.
MergeCommandRecord(parent, update) ==
    IndexRecord(IF update.operation # NONE THEN update.operation ELSE parent.operation,
                IF update.status # "unknown" THEN update.status ELSE parent.status,
                parent.intent \/ update.intent)

NoGeneration == [hot |-> << >>, index |-> [c \in Commands |-> NoIndexRecord], sends |-> {}]

\* seal_generation, the contents: the hot replay is projected again from the
\* parent's hot replay and the tail, the indexes are merged.
SealGeneration(parent, tail) ==
    LET update == CommandIndex(tail)
    IN  [ hot |-> ProjectHot(parent.hot \o tail),
          index |-> [c \in Commands |-> MergeCommandRecord(parent.index[c], update[c])],
          sends |-> parent.sends \cup SendAttempts(tail) ]

\* RequestRecordStore::LoadHistorical.
LoadHistorical(r) ==
    CASE r = NoIndexRecord -> NoRecord
      [] r.status = "accepted" -> Record("Accepted", NONE)
      [] r.status = "rejected" -> Record("Rejected", NONE)
      [] OTHER -> Record("Uncertain", NONE)

\* OmsGenerationStore::Recover: the hot lines, the tail, then the indexes.
GenerationReplay(g, tail) ==
    LET m == Replayed(g.hot \o tail)
    IN  [m EXCEPT !.rec = [c \in Commands |-> IF @[c] # NoRecord THEN @[c] ELSE LoadHistorical(g.index[c])],
                  !.attempts = @ \cup g.sends]

-----------------------------------------------------------------------------
(* A ledger that was sealed after line j and again after line k. *)

SealedTwice(log, j, k) ==
    SealGeneration(SealGeneration(NoGeneration, SubSeq(log, 1, j)), SubSeq(log, j + 1, k))

Cuts == { cut \in (0 .. Len(ledger.log)) \X (0 .. Len(ledger.log)) :
            cut[1] <= cut[2] /\ (cut[1] = 0 \/ cut[2] = Len(ledger.log)) }

AfterSeals(cut) ==
    GenerationReplay(SealedTwice(ledger.log, cut[1], cut[2]),
                     SubSeq(ledger.log, cut[2] + 1, Len(ledger.log)))

\* Wherever the ledger is cut, a restart from the generations is at least as
\* closed as one from the whole ledger: every command keeps its identity and
\* its outcome or becomes uncertain, an uncertain one stays so, the send budget
\* is the same, and every fence and the terminal halt are still there
\* (_project_hot, _merge_command_record and OmsGenerationStore::Recover).
SealNeverOpens ==
    ~up =>
    LET whole == Replayed(ledger.log)
    IN  \A cut \in Cuts :
            LET sealed == AfterSeals(cut)
            IN  /\ \A c \in Commands :
                      /\ whole.rec[c].status = "none" <=> sealed.rec[c].status = "none"
                      /\ whole.rec[c].status # "Rejected" =>
                            sealed.rec[c].status \in {whole.rec[c].status, "Uncertain"}
                /\ sealed.attempts = whole.attempts
                /\ sealed.accFenced = whole.accFenced
                /\ sealed.ownFenced = whole.ownFenced
                /\ sealed.terminal = whole.terminal
                /\ \A o \in Owners : whole.recOnly[o] <= sealed.recOnly[o]
                /\ whole.block \notin {NONE, INGRESS} => sealed.block # NONE

\* A restart from the generations knows the owner of every order whose owner a
\* restart from the whole ledger knows: "maintenance preserves all durable
\* history while changing coordinator restart cost".
SealKeepsOwners ==
    LET whole == Replayed(ledger.log)
    IN  \A cut \in Cuts : whole.owned \subseteq AfterSeals(cut).owned
=============================================================================
