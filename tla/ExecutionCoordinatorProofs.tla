--------------------- MODULE ExecutionCoordinatorProofs ---------------------
(***************************************************************************)
(* Proofs about the execution coordinator, for every set of commands,      *)
(* owners and accounts and every limit: that its types hold, that a failed *)
(* append keeps mutations blocked, that the venue is called at most once   *)
(* for a command and only after the command is durable, and that terminal  *)
(* finalization and broker reconnect never cross an outstanding call.      *)
(*                                                                         *)
(* Next is split into the few shapes its actions have (a handler of one    *)
(* command, a reconciliation, a fence, a restart); each invariant is then  *)
(* shown to survive each shape.                                            *)
(***************************************************************************)
EXTENDS ExecutionHandlerProofs

-----------------------------------------------------------------------------
(* Reconciliation and fences preserve the invariant. *)

\* The lines they write, except for the terminal fence.
AdminLines ==
    { l \in Lines : ~IsIntent(l)
                    /\ l.type \notin {"paper_terminal_fence", "execution_projection_failed"} }

\* What they do: no record is forgotten, and the block is only lifted from a
\* healthy coordinator that waits for reconciliation or reconnect.
AdminStep ==
    /\ up /\ up' = up /\ flight' = flight /\ sends' = sends /\ venue' = venue
    /\ attempts' = attempts /\ terminal' = terminal
    /\ Grows(ledger, ledger', AdminLines)
    /\ rec' \in [Commands -> Records]
    /\ \A c \in Commands : rec'[c] = NoRecord => rec[c] = NoRecord
    /\ owned' \subseteq Commands /\ accFenced' \subseteq Accounts /\ ownFenced' \subseteq Owners
    /\ recOnly' \in [Owners -> Nat] /\ resumed' \in [Owners -> Nat]
    /\ \/ ledger'.failed /\ block' = WRITE
       \/ ledger'.failed = ledger.failed /\ block' = block
       \/ ~ledger'.failed /\ block \in {RECOVERY, PROJECTION, RECONNECT} /\ block' = NONE
       \/ ~ledger'.failed /\ block = NONE /\ block' = RECONNECT /\ AtVenue = {}

\* A step of that shape keeps the invariant.
LEMMA AdminStepInv ==
    ASSUME IInv, AdminStep
    PROVE  IInv'
<1>1. TypeOK /\ BlockInv /\ SendInv /\ QuietInv /\ ledger \in Ledgers
      BY LedgerGrows DEF IInv
<1>2. Grows(ledger, ledger', AdminLines) /\ up /\ up' = up /\ flight' = flight /\ sends' = sends
      BY DEF AdminStep
<1>3. TypeOK'
  <2>1. /\ ledger' \in [log : Seq(Lines), durable : Nat, failed : BOOLEAN]
        /\ ledger'.durable <= Len(ledger'.log)
        BY <1>2 DEF Grows, Ledgers
  <2>2. block' \in Reasons
        BY <1>1 DEF AdminStep, TypeOK, Reasons
  <2> QED BY <1>1, <2>1, <2>2 DEF TypeOK, AdminStep, Records
<1>4. block' = REPLAY => block = REPLAY
      BY DEF AdminStep, REPLAY, WRITE, RECONNECT, NONE
<1>5. ~ledger'.failed /\ block' # REPLAY => ~ledger.failed /\ block # REPLAY
      BY <1>2 DEF AdminStep, Grows, REPLAY, RECOVERY, PROJECTION, RECONNECT, NONE
<1>6. BlockInv'
  <2>1. FailedBlocks'
        BY <1>1, Zenon DEF AdminStep, BlockInv, FailedBlocks
  <2> QED BY <1>1, <1>2, <1>4, <2>1 DEF BlockInv
<1>7. SendInv'
  <2> SUFFICES ASSUME NEW d \in Commands
      PROVE  /\ up' /\ ~ledger'.failed /\ block' # REPLAY /\ rec'[d] = NoRecord
                  => \A i \in DOMAIN ledger'.log : ~IntentAt(ledger'.log, d, i)
             /\ sends'[d] > 0 \/ flight'[d] = "calling" => DurableSend(ledger', d)
             /\ flight'[d] = "calling" => sends'[d] = 0
             /\ sends'[d] <= 1
      BY DEF SendInv
  <2>1. \A l \in AdminLines : ~(d \in l.cmds /\ IsIntent(l))
        BY DEF AdminLines
  <2>2. ASSUME ~ledger'.failed, block' # REPLAY, rec'[d] = NoRecord
        PROVE  \A i \in DOMAIN ledger'.log : ~IntentAt(ledger'.log, d, i)
    <3>1. rec[d] = NoRecord
          BY <2>2 DEF AdminStep
    <3>2. \A i \in DOMAIN ledger.log : ~IntentAt(ledger.log, d, i)
          BY <1>1, <1>2, <1>5, <2>2, <3>1, Zenon DEF SendInv
    <3> QED BY <1>1, <1>2, <2>1, <3>2, IntentGrows, ZenonT(40)
  <2>3. DurableSend(ledger, d) => DurableSend(ledger', d)
        BY <1>1, <1>2, DurableSendGrows
  <2> QED BY <1>1, <1>2, <2>2, <2>3 DEF SendInv
<1>8. QuietInv'
  <2>1. AtVenue' = AtVenue
        BY <1>2 DEF AtVenue
  <2>2. QuietFences'
        BY <1>1, <2>1 DEF QuietInv, QuietFences, AdminStep, WRITE, RECONNECT, NONE
  <2>3. terminal' => block' \in {HALTED, WRITE, REPLAY, INGRESS}
        BY <1>1 DEF QuietInv, AdminStep, HALTED, WRITE, REPLAY, INGRESS, RECOVERY,
                       PROJECTION, RECONNECT, NONE
  <2>4. \A l \in AdminLines : l.type # "paper_terminal_fence"
                              /\ l.type # "execution_projection_failed"
        BY DEF AdminLines
  <2>5. ReplayTerminal(ledger'.log) = ReplayTerminal(ledger.log) /\ HaltedLast(ledger'.log)
        BY <1>1, <1>2, <2>4, TerminalGrows, Zenon DEF QuietInv
  <2>6. ~ledger'.failed /\ block' # REPLAY => terminal' = ReplayTerminal(ledger'.log)
        BY <1>1, <1>2, <1>5, <2>5 DEF QuietInv, AdminStep
  <2> QED BY <2>2, <2>3, <2>5, <2>6 DEF QuietInv
<1> QED BY <1>3, <1>6, <1>7, <1>8, Zenon DEF IInv

\* Entering the terminal fence: nothing is outstanding, and its line comes after
\* every projection failure.
LEMMA TerminalFenceInv ==
    ASSUME IInv, EnterPaperTerminalFence
    PROVE  IInv'
<1> DEFINE e == FenceEvent("paper_terminal_fence", NONE, 0)
           E == { l \in Lines : l.type = "paper_terminal_fence" }
<1>1. TypeOK /\ BlockInv /\ SendInv /\ QuietInv /\ ledger \in Ledgers
      BY LedgerGrows DEF IInv
<1>2. /\ up /\ block = NONE /\ AtVenue = {}
      /\ ledger' \in Appended(ledger, e)
      /\ block' = IF ledger'.failed THEN WRITE ELSE HALTED
      /\ terminal' = ~ledger'.failed
      /\ UNCHANGED <<up, rec, owned, attempts, accFenced, ownFenced, recOnly, resumed,
                     flight, venue, sends>>
      BY DEF EnterPaperTerminalFence, NothingOutstanding
<1>3. e \in Lines /\ e \in E /\ e.type = "paper_terminal_fence"
      BY DEF FenceEvent, Event, Lines, LineTypes, LineStatuses
<1> HIDE DEF e
<1>4. /\ Grows(ledger, ledger', E) /\ ledger' \in Ledgers
      /\ ~ledger'.failed => /\ Len(ledger'.log) = Len(ledger.log) + 1
                            /\ ledger'.log[Len(ledger.log) + 1] = e
      BY <1>1, <1>2, <1>3, AppendedGrows
<1>5. /\ DOMAIN ledger.log = 1 .. Len(ledger.log) /\ DOMAIN ledger'.log = 1 .. Len(ledger'.log)
      /\ Len(ledger.log) \in Nat /\ Len(ledger'.log) \in Nat
      BY <1>1, <1>4 DEF Ledgers
<1>6. ~ledger.failed /\ block # REPLAY
      BY <1>1, <1>2 DEF BlockInv, FailedBlocks, NONE, WRITE, REPLAY
<1>7. TypeOK'
  <2>1. /\ ledger' \in [log : Seq(Lines), durable : Nat, failed : BOOLEAN]
        /\ ledger'.durable <= Len(ledger'.log)
        BY <1>4 DEF Ledgers
  <2>2. block' \in Reasons /\ terminal' \in BOOLEAN
        BY <1>2, <2>1 DEF Reasons
  <2> QED BY <1>1, <1>2, <2>1, <2>2, Zenon DEF TypeOK
<1>8. BlockInv'
  <2>1. block' # REPLAY
        BY <1>2 DEF WRITE, HALTED, REPLAY
  <2> QED BY <1>2, <2>1 DEF BlockInv, FailedBlocks
<1>9. SendInv'
  <2> SUFFICES ASSUME NEW d \in Commands
      PROVE  /\ up' /\ ~ledger'.failed /\ block' # REPLAY /\ rec'[d] = NoRecord
                  => \A i \in DOMAIN ledger'.log : ~IntentAt(ledger'.log, d, i)
             /\ sends'[d] > 0 \/ flight'[d] = "calling" => DurableSend(ledger', d)
             /\ flight'[d] = "calling" => sends'[d] = 0
             /\ sends'[d] <= 1
      BY DEF SendInv
  <2>1. \A l \in E : ~(d \in l.cmds /\ IsIntent(l))
        BY DEF IsIntent
  <2>2. rec[d] = NoRecord => \A i \in DOMAIN ledger.log : ~IntentAt(ledger.log, d, i)
        BY <1>1, <1>2, <1>6 DEF SendInv
  <2> HIDE DEF E
  <2>3. rec[d] = NoRecord => \A i \in DOMAIN ledger'.log : ~IntentAt(ledger'.log, d, i)
        BY <1>1, <1>4, <2>1, <2>2, IntentGrows, Zenon
  <2>4. DurableSend(ledger, d) => DurableSend(ledger', d)
        BY <1>1, <1>4, DurableSendGrows, Zenon
  <2> QED BY <1>1, <1>2, <2>3, <2>4 DEF SendInv
<1>10. QuietInv'
  <2>1. QuietFences'
        BY <1>2 DEF QuietFences, AtVenue
  <2>2. terminal' => block' \in {HALTED, WRITE, REPLAY, INGRESS}
        BY <1>2
  <2>3. ~ledger'.failed => terminal' = ReplayTerminal(ledger'.log)
    <3> SUFFICES ASSUME ~ledger'.failed PROVE ReplayTerminal(ledger'.log)
        BY <1>2, Zenon DEF ReplayTerminal
    <3>1. Len(ledger.log) + 1 \in DOMAIN ledger'.log
          BY <1>4, <1>5
    <3> QED BY <1>3, <1>4, <3>1 DEF ReplayTerminal
  <2>4. HaltedLast(ledger'.log)
    <3> SUFFICES ASSUME NEW i \in 1 .. Len(ledger'.log), NEW j \in 1 .. Len(ledger'.log),
                        ledger'.log[i].type = "paper_terminal_fence",
                        ledger'.log[j].type = "execution_projection_failed"
                 PROVE  j < i
        BY <1>5 DEF HaltedLast
    <3>1. j \in 1 .. Len(ledger.log) /\ ledger.log[j].type = "execution_projection_failed"
      <4>1. \A k \in (Len(ledger.log) + 1) .. Len(ledger'.log) :
                ledger'.log[k].type = "paper_terminal_fence"
            BY <1>4, Zenon DEF Grows
      <4>2. j \in 1 .. Len(ledger.log)
            BY <1>5, <4>1
      <4> QED BY <1>4, <4>2, Zenon DEF Grows
    <3>2. CASE i \in 1 .. Len(ledger.log)
      <4>1. ledger.log[i].type = "paper_terminal_fence"
            BY <1>4, <1>5, <3>2 DEF Grows
      <4> QED BY <1>1, <1>5, <3>1, <3>2, <4>1, Zenon DEF QuietInv, HaltedLast
    <3>3. CASE i \notin 1 .. Len(ledger.log)
          BY <1>5, <3>1, <3>3
    <3> QED BY <3>2, <3>3
  <2> QED BY <2>1, <2>2, <2>3, <2>4, Zenon DEF QuietInv
<1> QED BY <1>7, <1>8, <1>9, <1>10 DEF IInv

\* What is unchanged keeps its type.
LEMMA AdminTypes ==
    ASSUME TypeOK
    PROVE  /\ rec \in [Commands -> Records] /\ owned \subseteq Commands
           /\ accFenced \subseteq Accounts /\ ownFenced \subseteq Owners
           /\ recOnly \in [Owners -> Nat] /\ resumed \in [Owners -> Nat]
           /\ ledger \in Ledgers /\ ledger.failed \in BOOLEAN
BY DEF TypeOK, Records, Ledgers

\* The records after a resolution.
LEMMA ResolvedType ==
    ASSUME TypeOK, NEW done, NEW accepted
    PROVE  /\ Resolved(done, accepted) \in [Commands -> Records]
           /\ \A c \in Commands : Resolved(done, accepted)[c] = NoRecord => rec[c] = NoRecord
<1>1. \A s \in {"Accepted", "Rejected"} : Record(s, NONE) \in Records /\ Record(s, NONE) # NoRecord
      BY DEF Record, Records, NoRecord, Reasons
<1> QED BY <1>1, AdminTypes DEF Resolved

\* Every reconciliation has that shape.
LEMMA ReconcileAdmin ==
    ASSUME IInv, ReconcileNext
    PROVE  AdminStep
<1>1. TypeOK /\ BlockInv /\ FailedBlocks
      BY DEF IInv, BlockInv
<1>2. ASSUME NEW found \in SUBSET Orders, NEW missing \in BOOLEAN,
             ResolveUncertainPlaceCommands(found, missing)
      PROVE  AdminStep
  <2> DEFINE T == { c \in Commands :
                    /\ OperationOf[c] # "cancel"
                    /\ rec[c].status = "Uncertain" /\ rec[c].reason \in {RECOVERY, OUTCOME}
                    /\ c \in found \/ missing }
             line == Event("execution_command_resolved", "resolved", T, T \cap found, NONE, 0)
  <2>1. PICK b \in Batch(ledger, T, line) :
              /\ ledger' = b.ledger
              /\ rec' = Resolved(b.done, found)
              /\ owned' = owned \cup (b.done \cap found)
              /\ block' = BlockAfter(b.done = T, rec')
        BY <1>2, Zenon DEF ResolveUncertainPlaceCommands
  <2>2. up /\ UNCHANGED <<up, attempts, accFenced, ownFenced, recOnly, resumed, terminal,
                          flight, venue, sends>>
        BY <1>2 DEF ResolveUncertainPlaceCommands, fenceVars
  <2>3. T \subseteq Commands
        OBVIOUS
  <2> HIDE DEF T
  <2>4. line \in Lines
        BY <2>3 DEF Event, Lines, LineTypes, LineStatuses
  <2>5. \A S \in SUBSET T : BatchLine(line, S) \in AdminLines
        BY <2>3 DEF BatchLine, Event, Lines, LineTypes, LineStatuses, AdminLines, IsIntent
  <2> HIDE DEF line
  <2>6. /\ Grows(ledger, b.ledger, AdminLines) /\ b.done \subseteq T
        /\ IF b.done = T THEN b.ledger.failed = ledger.failed ELSE b.ledger.failed = TRUE
        BY <1>1, <2>3, <2>4, <2>5, AdminTypes, BatchGrows, ZenonT(40)
  <2>7. ledger' \in Ledgers
        BY <2>1, <2>6 DEF Grows
  <2>8. \/ ledger'.failed /\ block' = WRITE
        \/ ledger'.failed = ledger.failed /\ block' = block
        \/ ~ledger'.failed /\ block = RECOVERY /\ block' = NONE
        BY <1>1, <2>1, <2>2, <2>6, <2>7, Zenon DEF BlockAfter, FailedBlocks, RECOVERY, WRITE, REPLAY
  <2>9. /\ rec' \in [Commands -> Records]
        /\ \A c \in Commands : rec'[c] = NoRecord => rec[c] = NoRecord
        BY <1>1, <2>1, ResolvedType, Zenon
  <2>10. owned' \subseteq Commands
        BY <1>1, <2>1, <2>2, <2>3, <2>6, AdminTypes, ZenonT(40)
  <2> QED BY <1>1, <2>1, <2>2, <2>6, <2>8, <2>9, <2>10, AdminTypes, Zenon DEF AdminStep
<1>3. ASSUME NEW active \in SUBSET Orders, NEW cancelled \in SUBSET Orders,
             NEW filled \in SUBSET Orders,
             ResolveUncertainCancelCommands(active, cancelled, filled)
      PROVE  AdminStep
  <2> DEFINE T == { c \in Commands :
                    /\ OperationOf[c] = "cancel"
                    /\ rec[c].status = "Uncertain" /\ rec[c].reason \in {RECOVERY, DEFERRED}
                    /\ TargetOf[c] \notin active
                    /\ TargetOf[c] \in cancelled \cup filled }
             accepted == { c \in T : TargetOf[c] \in cancelled \ filled }
             line == Event("cancel_command_resolved", "resolved", T, accepted, NONE, 0)
  <2>1. PICK b \in Batch(ledger, T, line) :
              /\ ledger' = b.ledger
              /\ rec' = Resolved(b.done, accepted)
              /\ owned' = owned \ { TargetOf[c] : c \in b.done }
              /\ block' = BlockAfter(b.done = T, rec')
        BY <1>3, Zenon DEF ResolveUncertainCancelCommands
  <2>2. up /\ UNCHANGED <<up, attempts, accFenced, ownFenced, recOnly, resumed, terminal,
                          flight, venue, sends>>
        BY <1>3, Zenon DEF ResolveUncertainCancelCommands, fenceVars
  <2>3. T \subseteq Commands /\ accepted \subseteq Commands
        OBVIOUS
  <2> HIDE DEF T, accepted
  <2>4. line \in Lines
        BY <2>3 DEF Event, Lines, LineTypes, LineStatuses
  <2>5. \A S \in SUBSET T : BatchLine(line, S) \in AdminLines
        BY <2>3 DEF BatchLine, Event, Lines, LineTypes, LineStatuses, AdminLines, IsIntent
  <2> HIDE DEF line
  <2>6. /\ Grows(ledger, b.ledger, AdminLines) /\ b.done \subseteq T
        /\ IF b.done = T THEN b.ledger.failed = ledger.failed ELSE b.ledger.failed = TRUE
        BY <1>1, <2>3, <2>4, <2>5, AdminTypes, BatchGrows, ZenonT(40)
  <2>8. \/ ledger'.failed /\ block' = WRITE
        \/ ledger'.failed = ledger.failed /\ block' = block
        \/ ~ledger'.failed /\ block = RECOVERY /\ block' = NONE
        BY <1>1, <2>1, <2>2, <2>6 DEF BlockAfter, FailedBlocks, RECOVERY, WRITE, REPLAY
  <2>9. owned' \subseteq Commands
        BY <1>1, <2>1, AdminTypes, Zenon
  <2>10. /\ rec' \in [Commands -> Records]
         /\ \A c \in Commands : rec'[c] = NoRecord => rec[c] = NoRecord
        BY <1>1, <2>1, ResolvedType, Zenon
  <2> QED BY <1>1, <2>1, <2>2, <2>6, <2>8, <2>9, <2>10, AdminTypes, Zenon DEF AdminStep
<1>4. ASSUME NEW active \in SUBSET Orders, ReconcileOrderOwners(active)
      PROVE  AdminStep
  <2> DEFINE T == owned \ active
             line == TerminalLine(T)
  <2>1. PICK b \in Batch(ledger, T, line) :
              /\ ledger' = b.ledger
              /\ owned' = owned \ b.done
              /\ block' = IF b.done = T THEN block ELSE WRITE
        BY <1>4 DEF ReconcileOrderOwners
  <2>2. up /\ UNCHANGED <<up, rec, attempts, accFenced, ownFenced, recOnly, resumed, terminal,
                          flight, venue, sends>>
        BY <1>4 DEF ReconcileOrderOwners, fenceVars
  <2>3. T \subseteq Commands
        BY <1>1, AdminTypes
  <2> HIDE DEF T
  <2>4. line \in Lines
        BY <2>3 DEF TerminalLine, Event, Lines, LineTypes, LineStatuses
  <2>5. \A S \in SUBSET T : BatchLine(line, S) \in AdminLines
        BY <2>3 DEF TerminalLine, BatchLine, Event, Lines, LineTypes, LineStatuses, AdminLines,
                    IsIntent
  <2> HIDE DEF line
  <2>6. /\ Grows(ledger, b.ledger, AdminLines) /\ b.done \subseteq T
        /\ IF b.done = T THEN b.ledger.failed = ledger.failed ELSE b.ledger.failed = TRUE
        BY <1>1, <2>3, <2>4, <2>5, AdminTypes, BatchGrows, ZenonT(40)
  <2> QED BY <1>1, <2>1, <2>2, <2>6, AdminTypes, Zenon DEF AdminStep
<1>5. ASSUME ResolveProjectionBlock
      PROVE  AdminStep
  <2> DEFINE line == Event("execution_projection_resolved", "complete", {}, {}, NONE, 0)
  <2>1. /\ up /\ block = PROJECTION /\ ledger' \in Appended(ledger, line)
        /\ IF ledger'.failed THEN block' = WRITE /\ rec' = rec
           ELSE /\ block' = NONE
                /\ rec' = [c \in Commands |-> IF rec[c].reason = PROJECTION
                                              THEN Record("Accepted", NONE) ELSE rec[c]]
        BY <1>5 DEF ResolveProjectionBlock
  <2>2. UNCHANGED <<up, owned, attempts, accFenced, ownFenced, recOnly, resumed, terminal,
                    flight, venue, sends>>
        BY <1>5 DEF ResolveProjectionBlock, fenceVars
  <2>3. line \in Lines /\ line \in AdminLines
        BY DEF Event, Lines, LineTypes, LineStatuses, AdminLines, IsIntent
  <2> HIDE DEF line
  <2>4. Grows(ledger, ledger', AdminLines)
        BY <1>1, <2>1, <2>3, AdminTypes, AppendedGrows, Zenon
  <2>5. /\ rec' \in [Commands -> Records]
        /\ \A c \in Commands : rec'[c] = NoRecord => rec[c] = NoRecord
    <3>1. Record("Accepted", NONE) \in Records /\ Record("Accepted", NONE) # NoRecord
          BY Zenon DEF Record, Records, NoRecord, Reasons
    <3> QED BY <1>1, <2>1, <3>1, AdminTypes
  <2> QED BY <1>1, <2>1, <2>2, <2>4, <2>5, AdminTypes DEF AdminStep
<1> QED BY <1>2, <1>3, <1>4, <1>5 DEF ReconcileNext

\* A fence line is one of the lines of AdminLines.
LEMMA FenceLine ==
    ASSUME NEW type \in {"account_new_entry_fenced", "session_owner_fenced",
                         "session_owner_fence_release", "session_owner_recovery_only"},
           NEW who \in Owners \cup Accounts, NEW n \in Nat
    PROVE  FenceEvent(type, who, n) \in Lines /\ FenceEvent(type, who, n) \in AdminLines
BY DEF FenceEvent, Event, Lines, LineTypes, LineStatuses, AdminLines, IsIntent

\* What appending one such line leaves of ledger and block.
LEMMA FenceAppend ==
    ASSUME TypeOK, NEW e \in Lines, e \in AdminLines, NEW L \in Appended(ledger, e)
    PROVE  /\ Grows(ledger, L, AdminLines)
           /\ \/ L.failed /\ Blocked(L) = WRITE
              \/ L.failed = ledger.failed /\ Blocked(L) = block
<1>1. Grows(ledger, L, AdminLines)
      BY AdminTypes, AppendedGrows
<1>2. L.failed \in BOOLEAN /\ (ledger.failed => L.failed)
      BY <1>1 DEF Grows, Ledgers
<1> QED BY <1>1, <1>2, AdminTypes DEF Blocked

\* Each fence but the terminal one is such a step.
LEMMA FenceAdmin ==
    ASSUME IInv, FenceNext, ~EnterPaperTerminalFence
    PROVE  AdminStep
<1>1. TypeOK /\ FailedBlocks
      BY DEF IInv, BlockInv
<1>2. ASSUME NEW a \in Accounts, EnterAccountNewEntryFence(a)
      PROVE  AdminStep
  <2> DEFINE e == FenceEvent("account_new_entry_fenced", a, 0)
  <2>1. /\ up /\ accFenced' = accFenced \cup { a }
        /\ ledger' \in Appended(ledger, e) /\ block' = Blocked(ledger')
        /\ UNCHANGED <<up, rec, owned, attempts, ownFenced, recOnly, resumed, terminal,
                       flight, venue, sends>>
        BY <1>2 DEF EnterAccountNewEntryFence
  <2>2. e \in Lines /\ e \in AdminLines
        BY FenceLine
  <2> HIDE DEF e
  <2> QED BY <1>1, <2>1, <2>2, AdminTypes, FenceAppend, Zenon DEF AdminStep
<1>3. ASSUME NEW o \in Owners, FenceSessionOwner(o)
      PROVE  AdminStep
  <2> DEFINE e == FenceEvent("session_owner_fenced", o, 0)
  <2>1. /\ up /\ ownFenced' = ownFenced \cup { o }
        /\ ledger' \in Appended(ledger, e) /\ block' = Blocked(ledger')
        /\ UNCHANGED <<up, rec, owned, attempts, accFenced, recOnly, resumed, terminal,
                       flight, venue, sends>>
        BY <1>3 DEF FenceSessionOwner
  <2>2. e \in Lines /\ e \in AdminLines
        BY FenceLine
  <2> HIDE DEF e
  <2> QED BY <1>1, <2>1, <2>2, AdminTypes, FenceAppend, Zenon DEF AdminStep
<1>4. ASSUME NEW o \in Owners, NEW n \in 0 .. MaxIngress, AuditAndReleaseSessionOwnerFence(o, n)
      PROVE  AdminStep
  <2> DEFINE e == FenceEvent("session_owner_fence_release", o, n)
  <2>1. /\ up /\ ledger' \in Appended(ledger, e) /\ block' = Blocked(ledger')
        /\ IF ledger'.failed THEN UNCHANGED <<ownFenced, recOnly, resumed>>
           ELSE /\ ownFenced' = ownFenced \ { o }
                /\ recOnly' = [recOnly EXCEPT ![o] = 0]
                /\ resumed' = [resumed EXCEPT ![o] = IF n # 0 THEN n ELSE @]
        /\ UNCHANGED <<up, rec, owned, attempts, accFenced, terminal, flight, venue, sends>>
        BY <1>4, Zenon DEF AuditAndReleaseSessionOwnerFence
  <2>2. n \in Nat
        BY CoordinatorConstants
  <2>3. e \in Lines /\ e \in AdminLines
        BY <2>2, FenceLine
  <2> HIDE DEF e
  <2>4. ownFenced' \subseteq Owners /\ recOnly' \in [Owners -> Nat] /\ resumed' \in [Owners -> Nat]
        BY <1>1, <2>1, <2>2, AdminTypes, SMTT(30)
  <2> QED BY <1>1, <2>1, <2>3, <2>4, AdminTypes, FenceAppend, Zenon DEF AdminStep
<1>5. ASSUME NEW o \in Owners, NEW n \in 1 .. MaxIngress, EnterRecoveryOnlyOwner(o, n)
      PROVE  AdminStep
  <2> DEFINE e == FenceEvent("session_owner_recovery_only", o, n)
  <2>1. /\ up /\ ledger' \in Appended(ledger, e) /\ block' = Blocked(ledger')
        /\ recOnly' = IF ledger'.failed THEN recOnly ELSE [recOnly EXCEPT ![o] = n]
        /\ UNCHANGED <<up, rec, owned, attempts, accFenced, ownFenced, resumed, terminal,
                       flight, venue, sends>>
        BY <1>5 DEF EnterRecoveryOnlyOwner
  <2>2. n \in Nat
        BY CoordinatorConstants
  <2>3. e \in Lines /\ e \in AdminLines
        BY <2>2, FenceLine
  <2> HIDE DEF e
  <2>4. recOnly' \in [Owners -> Nat]
        BY <1>1, <2>1, <2>2, AdminTypes, Zenon
  <2> QED BY <1>1, <2>1, <2>3, <2>4, AdminTypes, FenceAppend, Zenon DEF AdminStep
<1>6. ASSUME BeginBrokerReconnectFence \/ EndBrokerReconnectFence
      PROVE  AdminStep
  <2>1. /\ up /\ ledger' = ledger
        /\ UNCHANGED <<up, rec, owned, attempts, accFenced, ownFenced, recOnly, resumed,
                       terminal, flight, venue, sends>>
        /\ \/ block = NONE /\ block' = RECONNECT /\ AtVenue = {}
           \/ block = RECONNECT /\ block' = NONE
        BY <1>6 DEF BeginBrokerReconnectFence, EndBrokerReconnectFence, NothingOutstanding,
                    fenceVars
  <2>2. ~ledger.failed
        BY <1>1, <2>1 DEF FailedBlocks, NONE, RECONNECT, WRITE, REPLAY
  <2> QED BY <1>1, <2>1, <2>2, AdminTypes, GrowsRefl, Zenon DEF AdminStep
<1> QED BY <1>2, <1>3, <1>4, <1>5, <1>6, Zenon DEF FenceNext

\* A terminal callback removes an owner, in memory or after its line.
LEMMA TerminalAdmin ==
    ASSUME IInv, NEW c \in Commands, RecordOrderTerminal(c) \/ RecordOrderTerminalDurably(c)
    PROVE  AdminStep
<1>1. TypeOK /\ FailedBlocks
      BY DEF IInv, BlockInv
<1>2. CASE RecordOrderTerminal(c)
  <2>1. /\ up /\ ledger' = ledger /\ owned' \subseteq owned
        /\ UNCHANGED <<up, rec, block, attempts, accFenced, ownFenced, recOnly, resumed,
                       terminal, flight, venue, sends>>
        BY <1>2 DEF RecordOrderTerminal, fenceVars
  <2> QED BY <1>1, <2>1, AdminTypes, GrowsRefl, Zenon DEF AdminStep
<1>3. CASE RecordOrderTerminalDurably(c)
  <2> DEFINE e == TerminalLine({ c })
  <2>1. /\ up /\ ledger' \in Appended(ledger, e) /\ block' = Blocked(ledger')
        /\ owned' \subseteq owned
        /\ UNCHANGED <<up, rec, attempts, accFenced, ownFenced, recOnly, resumed,
                       terminal, flight, venue, sends>>
        BY <1>3 DEF RecordOrderTerminalDurably, fenceVars
  <2>2. e \in Lines /\ e \in AdminLines
        BY DEF TerminalLine, Event, Lines, LineTypes, LineStatuses, AdminLines, IsIntent
  <2> HIDE DEF e
  <2> QED BY <1>1, <2>1, <2>2, AdminTypes, FenceAppend, Zenon DEF AdminStep
<1> QED BY <1>2, <1>3

-----------------------------------------------------------------------------
(* Every step preserves the invariant. *)

\* The actions of one command.
LEMMA CommandInv ==
    ASSUME IInv, NEW c \in Commands, CommandNext(c)
    PROVE  IInv'
<1>1. TypeOK /\ owned \subseteq Commands /\ venue \in Venues
      BY DEF IInv, TypeOK, Venues
<1>2. ASSUME Handled(c), HandlerFrame
      PROVE  IInv'
      BY <1>2, HandledType, HandledBlock, HandledSend, HandledQuiet DEF IInv
<1>3. CASE PlaceOrder(c)
      BY <1>1, <1>2, <1>3, PlaceOrderHandled, HandlerFrames
<1>4. CASE PlaceReturn(c)
      BY <1>1, <1>2, <1>4, PlaceReturnHandled, HandlerFrames, Zenon
<1>5. CASE CancelPreflight(c)
  <2>1. FlightMove(c)
        BY <1>5 DEF CancelPreflight, CancelAuthorised, FlightMove
  <2> QED BY <1>1, <1>5, <2>1, StillStep, Zenon DEF CancelPreflight, memory, fenceVars
<1>6. CASE CancelOrder(c)
  <2>1. CASE flight' = [flight EXCEPT ![c] = "idle"] /\ UNCHANGED <<ledger, rec, block>>
    <3>1. FlightMove(c)
          BY <1>6, <2>1 DEF CancelOrder, FlightMove
    <3> QED BY <1>1, <1>6, <2>1, <3>1, StillStep, Zenon DEF CancelOrder, fenceVars
  <2>2. CASE CancelValidated(c)
    <3>1. up /\ UNCHANGED <<up, owned, attempts, fenceVars, venue, sends>>
          BY <1>6 DEF CancelOrder
    <3> QED BY <1>1, <1>2, <2>2, <3>1, CancelOrderHandled, HandlerFrames, Zenon
  <2> QED BY <1>6, <2>1, <2>2, Zenon DEF CancelOrder, CancelValidated
<1>7. CASE CancelReturn(c)
      BY <1>1, <1>2, <1>7, CancelReturnHandled, HandlerFrames, Zenon
<1>8. CASE FlattenPosition(c)
      BY <1>1, <1>2, <1>8, FlattenPositionHandled, HandlerFrames
<1>9. CASE FlattenReturn(c)
      BY <1>1, <1>2, <1>9, FlattenReturnHandled, HandlerFrames
<1>10. ASSUME NEW outcome \in {"submitted", "rejected", "uncertain", "deferred"},
              VenueCall(c, outcome)
       PROVE  IInv'
  <2>1. FlightMove(c)
        BY <1>10, Zenon DEF VenueCall, FlightMove
  <2>2. venue' \in Venues
        BY <1>1, <1>10 DEF VenueCall, Placed, Venues
  <2> QED BY <1>1, <1>10, <2>1, <2>2, StillStep DEF VenueCall, memory, fenceVars
<1>11. CASE VenueTerminal(c)
  <2>1. FlightMove(c)
        BY <1>11 DEF VenueTerminal, FlightMove
  <2>2. venue' \in Venues
        BY <1>1, <1>11 DEF VenueTerminal, Venues
  <2> QED BY <1>1, <1>11, <2>1, <2>2, StillStep, Zenon DEF VenueTerminal, memory, fenceVars
<1>12. CASE RecordOrderTerminal(c) \/ RecordOrderTerminalDurably(c)
       BY <1>12, TerminalAdmin, AdminStepInv
<1> QED BY <1>3, <1>4, <1>5, <1>6, <1>7, <1>8, <1>9, <1>10, <1>11, <1>12, ZenonT(40) DEF CommandNext

\* Recovery rebuilds a memory that knows every command of the ledger, or none
\* under a block.
LEMMA RecoverInv ==
    ASSUME IInv, NEW L \in Ledgers, L.log = ledger.log, ledger.durable <= L.durable,
           RecoverFrom(L), up', \A c \in Commands : flight[c] = "idle",
           UNCHANGED <<flight, venue, sends>>
    PROVE  IInv'
<1>1. TypeOK /\ SendInv /\ QuietInv
      BY DEF IInv
<1>2. /\ ledger' \in Ledgers /\ ledger'.log = ledger.log /\ ledger.durable <= ledger'.durable
      /\ \/ ~ledger'.failed /\ Recovered(ledger.log)
         \/ Blank(REPLAY)
  <2>1. CASE ~L.failed /\ ledger' = Flushed(L) /\ Recovered(L.log)
    <3>1. /\ Flushed(L) \in Ledgers /\ Flushed(L).log = L.log
          /\ L.durable <= Flushed(L).durable /\ Flushed(L).failed = L.failed
          BY ReopenedLedger
    <3>2. ledger.durable \in Nat /\ L.durable \in Nat /\ Flushed(L).durable \in Nat
          BY <1>1, <3>1, Zenon DEF TypeOK, Ledgers
    <3>3. ledger.durable <= Flushed(L).durable
          BY <3>1, <3>2
    <3> QED BY <2>1, <3>1, <3>3, Zenon
  <2>2. CASE ledger' \in { L, Failed(L, <<>>) } /\ Blank(REPLAY)
        BY <2>2, ReopenedLedger
  <2> QED BY <2>1, <2>2, Zenon DEF RecoverFrom
<1> DEFINE log == ledger.log
<1>3. log \in Seq(Lines)
      BY <1>1 DEF TypeOK
<1>4. TypeOK'
  <2>1. /\ ledger' \in [log : Seq(Lines), durable : Nat, failed : BOOLEAN]
        /\ ledger'.durable <= Len(ledger'.log)
        BY <1>2, Zenon DEF Ledgers
  <2>2. CASE Recovered(log)
    <3>1. rec' \in [Commands -> Records]
          BY <1>3, <2>2, ReplayRecordType, Zenon DEF Recovered
    <3>2. owned' \subseteq Commands /\ attempts' \subseteq Commands /\ terminal' \in BOOLEAN
          BY <2>2, Zenon DEF Recovered, ReplayOwned, ReplayAttempts, ReplayTerminal
    <3>3. accFenced' \subseteq Accounts /\ ownFenced' \subseteq Owners
          BY <2>2, Zenon DEF Recovered, ReplayAccFenced, ReplayOwnFenced
    <3>4. recOnly' \in [Owners -> Nat] /\ resumed' \in [Owners -> Nat]
          BY <1>3, <2>2, ReplayIngressType, ZenonT(40) DEF Recovered
    <3>5. block' \in Reasons
          BY <1>3, <2>2, ReplayBlockType, SMTT(30) DEF Recovered
    <3> QED BY <1>1, <2>1, <3>1, <3>2, <3>3, <3>4, <3>5, Zenon DEF TypeOK, Records
  <2>3. CASE Blank(REPLAY)
    <3>1. rec' \in [Commands -> Records] /\ block' \in Reasons
          BY <2>3, Zenon DEF Blank, Record, NoRecord, Records, Reasons
    <3> QED BY <1>1, <2>1, <2>3, <3>1, Zenon DEF TypeOK, Records, Blank
  <2> QED BY <1>2, <2>2, <2>3, Zenon
<1>5. BlockInv'
      BY <1>2, Zenon DEF BlockInv, FailedBlocks, Blank
<1>6. SendInv'
  <2> SUFFICES ASSUME NEW d \in Commands
      PROVE  /\ up' /\ ~ledger'.failed /\ block' # REPLAY /\ rec'[d] = NoRecord
                  => \A i \in DOMAIN ledger'.log : ~IntentAt(ledger'.log, d, i)
             /\ sends'[d] > 0 \/ flight'[d] = "calling" => DurableSend(ledger', d)
             /\ flight'[d] = "calling" => sends'[d] = 0
             /\ sends'[d] <= 1
      BY Zenon DEF SendInv
  <2>1. ASSUME block' # REPLAY, rec'[d] = NoRecord
        PROVE  \A i \in DOMAIN log : ~IntentAt(log, d, i)
    <3>1. ReplayRecord(log, d) = NoRecord
          BY <1>2, <2>1, ZenonT(40) DEF Recovered, Blank
    <3> QED BY <1>3, <3>1, ReplayRecordType, IntentDecides, Zenon
  <2>2. DurableSend(ledger, d) => DurableSend(ledger', d)
    <3>1. ledger.durable \in Nat /\ ledger'.durable \in Nat
          BY <1>1, <1>2, Zenon DEF TypeOK, Ledgers
    <3> QED BY <1>2, <3>1, SMTT(30) DEF DurableSend
  <2> QED BY <1>1, <1>2, <2>1, <2>2, Zenon DEF SendInv
<1>7. QuietInv'
  <2>1. AtVenue' = {}
        BY Zenon DEF AtVenue
  <2>2. HaltedLast(ledger'.log)
        BY <1>1, <1>2, SMTT(30) DEF QuietInv
  <2>3. CASE Recovered(log)
    <3>1. terminal' => block' \in {HALTED, INGRESS}
          BY <1>1, <1>3, <2>3, ReplayBlockType, ZenonT(40) DEF QuietInv, Recovered
    <3> QED BY <1>2, <2>1, <2>2, <2>3, <3>1, ZenonT(40) DEF QuietInv, QuietFences, Recovered
  <2>4. CASE Blank(REPLAY)
        BY <2>1, <2>2, <2>4, Zenon DEF QuietInv, QuietFences, Blank
  <2> QED BY <1>2, <2>3, <2>4, Zenon
<1> QED BY <1>4, <1>5, <1>6, <1>7 DEF IInv

\* Starting the process, and a later recovery.
LEMMA RestartInv ==
    ASSUME IInv, Start \/ RecoverFromJournal
    PROVE  IInv'
<1>1. TypeOK /\ BlockInv /\ ledger \in Ledgers
      BY LedgerGrows DEF IInv
<1>2. CASE Start
  <2>1. /\ Opened(ledger) \in Ledgers /\ Opened(ledger).log = ledger.log
        /\ ledger.durable <= Opened(ledger).durable
        BY <1>1, ReopenedLedger
  <2> QED BY <1>1, <1>2, <2>1, RecoverInv, Zenon DEF Start, BlockInv
<1>3. CASE RecoverFromJournal
  <2>1. ledger.durable <= ledger.durable
        BY <1>1 DEF TypeOK
  <2> QED BY <1>1, <1>3, <2>1, RecoverInv, Zenon DEF RecoverFromJournal
<1> QED BY <1>2, <1>3

\* A crash keeps the durable lines, and with them every send that was made.
LEMMA CrashInv ==
    ASSUME IInv, ProcessCrash \/ MachineCrash
    PROVE  IInv'
<1>1. TypeOK /\ SendInv /\ QuietInv
      BY DEF IInv
<1>2. ledger.log \in Seq(Lines) /\ Len(ledger.log) \in Nat /\ ledger.durable \in Nat
      /\ ledger.durable <= Len(ledger.log)
      BY <1>1 DEF TypeOK
<1>3. ProcessLost
      BY DEF ProcessCrash, MachineCrash
<1>4. /\ ledger' \in Ledgers /\ ledger.durable <= ledger'.durable
      /\ Len(ledger'.log) <= Len(ledger.log)
      /\ \A i \in 1 .. Len(ledger'.log) : ledger'.log[i] = ledger.log[i]
  <2>1. CASE ProcessCrash
    <3>1. ledger' = ledger
          BY <2>1, Zenon DEF ProcessCrash
    <3>2. ledger \in Ledgers
          BY <1>1, AdminTypes, Zenon
    <3> QED BY <1>2, <3>1, <3>2
  <2>2. CASE MachineCrash
    <3>1. PICK k \in ledger.durable .. Len(ledger.log) :
              ledger' = Ledger(SubSeq(ledger.log, 1, k), k, ledger.failed)
          BY <2>2 DEF MachineCrash, Truncated
    <3>2. k \in Nat /\ k <= Len(ledger.log) /\ ledger.durable <= k
          BY <1>2, <3>1
    <3>3. /\ SubSeq(ledger.log, 1, k) \in Seq(Lines) /\ Len(SubSeq(ledger.log, 1, k)) = k
          /\ \A i \in 1 .. k : SubSeq(ledger.log, 1, k)[i] = ledger.log[i]
          BY <1>2, <3>2, SMTT(30)
    <3> QED BY <1>1, <3>1, <3>2, <3>3 DEF Ledger, Ledgers, TypeOK
  <2> QED BY <2>1, <2>2
<1>5. TypeOK'
  <2>1. /\ ledger' \in [log : Seq(Lines), durable : Nat, failed : BOOLEAN]
        /\ ledger'.durable <= Len(ledger'.log)
        BY <1>4 DEF Ledgers
  <2>2. rec' \in [Commands -> Records] /\ block' \in Reasons
        BY <1>3 DEF ProcessLost, Blank, Record, NoRecord, Records, Reasons
  <2> QED BY <1>1, <1>3, <2>1, <2>2, Zenon DEF TypeOK, Records, Blank, ProcessLost
<1>6. BlockInv'
      BY <1>3, Zenon DEF BlockInv, FailedBlocks, ProcessLost, Blank
<1>7. SendInv'
  <2> SUFFICES ASSUME NEW d \in Commands
      PROVE  /\ up' /\ ~ledger'.failed /\ block' # REPLAY /\ rec'[d] = NoRecord
                  => \A i \in DOMAIN ledger'.log : ~IntentAt(ledger'.log, d, i)
             /\ sends'[d] > 0 \/ flight'[d] = "calling" => DurableSend(ledger', d)
             /\ flight'[d] = "calling" => sends'[d] = 0
             /\ sends'[d] <= 1
      BY Zenon DEF SendInv
  <2>1. DurableSend(ledger, d) => DurableSend(ledger', d)
    <3> SUFFICES ASSUME NEW i \in 1 .. ledger.durable, NEW j \in 1 .. ledger.durable,
                        IntentAt(ledger.log, d, i), AttemptAt(ledger.log, d, j)
                 PROVE  DurableSend(ledger', d)
        BY Zenon DEF DurableSend
    <3>1. ledger'.durable \in Nat /\ Len(ledger'.log) \in Nat /\ ledger'.durable <= Len(ledger'.log)
          BY <1>4, SMTT(30) DEF Ledgers
    <3>2. /\ i \in 1 .. ledger'.durable /\ ledger'.log[i] = ledger.log[i]
          /\ j \in 1 .. ledger'.durable /\ ledger'.log[j] = ledger.log[j]
          BY <1>2, <1>4, <3>1, SMTT(30)
    <3> QED BY <3>2 DEF DurableSend, IntentAt, AttemptAt
  <2> QED BY <1>1, <1>3, <2>1, Zenon DEF SendInv, ProcessLost
<1>8. QuietInv'
  <2>1. AtVenue' = {}
        BY <1>3, Zenon DEF AtVenue, ProcessLost
  <2>2. HaltedLast(ledger'.log)
    <3>1. DOMAIN ledger'.log \subseteq DOMAIN ledger.log
          /\ \A i \in DOMAIN ledger'.log : ledger'.log[i] = ledger.log[i]
          BY <1>2, <1>4 DEF Ledgers
    <3> QED BY <1>1, <3>1 DEF QuietInv, HaltedLast
  <2> QED BY <1>3, <2>1, <2>2 DEF QuietInv, QuietFences, ProcessLost, Blank
<1> QED BY <1>5, <1>6, <1>7, <1>8 DEF IInv

\* The invariant holds before the first start.
LEMMA InitInv ==
    ASSUME Init
    PROVE  IInv
<1>1. /\ ~up /\ up \in BOOLEAN
      /\ ledger = Ledger(<<>>, 0, FALSE)
      BY Zenon DEF Init, LedgerInit, EmptyLedger
<1>2. /\ ledger.log = <<>> /\ ledger.durable = 0 /\ ledger.failed = FALSE
      /\ ledger \in [log : Seq(Lines), durable : Nat, failed : BOOLEAN]
      /\ Len(ledger.log) = 0 /\ DOMAIN ledger.log = {}
      BY <1>1 DEF Ledger
<1>3. TypeOK
  <2>1. rec \in [Commands -> Records] /\ block \in Reasons
        BY DEF Init, NoRecord, Record, Records, Reasons
  <2>2. ledger.durable <= Len(ledger.log)
        BY <1>2
  <2>3. /\ owned \subseteq Commands /\ attempts \subseteq Commands
        /\ accFenced \subseteq Accounts /\ ownFenced \subseteq Owners
        /\ recOnly \in [Owners -> Nat] /\ resumed \in [Owners -> Nat]
        /\ terminal \in BOOLEAN /\ sends \in [Commands -> Nat]
        BY Zenon DEF Init
  <2>4. /\ flight \in [Commands -> {"idle", "preflight", "calling", "submitted", "rejected",
                                    "uncertain", "deferred"}]
        /\ venue \in [Commands -> {"none", "reserved", "working", "ended"}]
        BY DEF Init
  <2> QED BY <1>1, <1>2, <2>1, <2>2, <2>3, <2>4, Zenon DEF TypeOK, Records
<1>4. BlockInv
      BY <1>1, Zenon DEF Init, BlockInv, FailedBlocks, NONE, REPLAY
<1>5. SendInv
  <2>1. \A c \in Commands : sends[c] = 0 /\ flight[c] = "idle"
        BY DEF Init
  <2>2. \A c \in Commands : ~(sends[c] > 0) /\ flight[c] # "calling" /\ sends[c] <= 1
        BY <2>1
  <2> QED BY <1>1, <2>2, Zenon DEF SendInv
<1>6. QuietInv
  <2>1. AtVenue = {}
        BY DEF Init, AtVenue
  <2> QED BY <1>1, <1>2, <2>1, Zenon DEF Init, QuietInv, QuietFences, HaltedLast
<1> QED BY <1>3, <1>4, <1>5, <1>6 DEF IInv

\* Every step, also one that changes nothing, preserves the invariant.
LEMMA NextInv ==
    ASSUME IInv, [Next]_vars
    PROVE  IInv'
<1>1. ASSUME NEW c \in Commands, CommandNext(c)
      PROVE  IInv'
      BY <1>1, CommandInv
<1>2. CASE ReconcileNext
      BY <1>2, ReconcileAdmin, AdminStepInv
<1>3. CASE FenceNext
      BY <1>3, FenceAdmin, AdminStepInv, TerminalFenceInv
<1>4. CASE Start \/ RecoverFromJournal
      BY <1>4, RestartInv
<1>5. CASE ProcessCrash \/ MachineCrash
      BY <1>5, CrashInv
<1>6. CASE UNCHANGED vars
  <2>1. AtVenue' = AtVenue
        BY <1>6, Zenon DEF vars, AtVenue
  <2> USE <1>6 DEF vars, memory, fenceVars
  <2>2. TypeOK' /\ BlockInv'
        BY SMTT(30) DEF IInv, TypeOK, BlockInv, FailedBlocks
  <2>3. SendInv'
        BY Zenon DEF IInv, SendInv
  <2>4. QuietInv'
        BY <2>1 DEF IInv, QuietInv, QuietFences
  <2> QED BY <2>2, <2>3, <2>4 DEF IInv
<1> QED BY <1>1, <1>2, <1>3, <1>4, <1>5, <1>6, Zenon DEF Next

-----------------------------------------------------------------------------
(* The theorems. *)

\* The inductive invariant holds in every reachable state.
THEOREM Invariance == Spec => []IInv
<1>1. Init => IInv
      BY InitInv
<1>2. IInv /\ [Next]_vars => IInv'
      BY NextInv
<1> QED BY <1>1, <1>2, PTL DEF Spec

\* Type correctness of the coordinator's state.
THEOREM TypeCorrect == Spec => []TypeOK
<1>1. IInv => TypeOK
      BY DEF IInv
<1> QED BY <1>1, Invariance, PTL

\* Whatever handlers, reconciliations and fences interleave, a failed append
\* keeps mutations blocked until the next restart.
THEOREM FailureBlocks == Spec => []FailedBlocks
<1>1. IInv => FailedBlocks
      BY Zenon DEF IInv, BlockInv
<1> QED BY <1>1, Invariance, PTL

\* Idempotency: for any number of commands, concurrent handlers, failed appends,
\* restarts and machine crashes, the venue is called at most once per command.
THEOREM Idempotency == Spec => []SendAtMostOnce
<1>1. IInv => SendAtMostOnce
      BY Zenon DEF IInv, SendInv, SendAtMostOnce
<1> QED BY <1>1, Invariance, PTL

\* Write-ahead: a command the venue was called for has its intent and its send
\* attempt in the part of the ledger that no crash loses.
THEOREM WriteAhead == Spec => []SendIsDurable
<1>1. IInv => SendIsDurable
  <2> SUFFICES ASSUME IInv, NEW c \in Commands, sends[c] > 0
               PROVE  DurableSend(ledger, c)
      BY DEF SendIsDurable, DurableSend, IntentAt, AttemptAt
  <2> QED BY Zenon DEF IInv, SendInv
<1> QED BY <1>1, Invariance, PTL

\* Terminal finalization and broker reconnect never cross an outstanding call.
THEOREM QuietFinalization == Spec => []QuietFences
<1>1. IInv => QuietFences
      BY DEF IInv, QuietInv
<1> QED BY <1>1, Invariance, PTL
=============================================================================
