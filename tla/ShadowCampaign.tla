--------------------------- MODULE ShadowCampaign ---------------------------
(***************************************************************************)
(* A SHADOW strategy campaign: scripts/hepta_strategy_shadow_runner.py     *)
(* with the packet hepta_market_context_builder.py builds for it,          *)
(* hepta_shadow_finalize.py, and the decision set that                     *)
(* hepta_strategy_replay_evaluator.py seals.  Other programs replace the   *)
(* input files while a runner reads them; runners may overlap, may be      *)
(* retried with another evaluation time, and may die between two file      *)
(* operations.  A file's content is its version.                           *)
(***************************************************************************)
EXTENDS Naturals, Sequences, FiniteSets

CONSTANTS
    Runners,       \* processes
    MaxVersion,    \* bound: replacements of an input
    MaxIteration   \* maximum_iterations of the policy

VARIABLES
    disk,    \* [files, rec, st, audit, sealed]
    proc,    \* [r |-> [at, i, late, seen]]
    world    \* the input sets that were on disk together

Iterations == 1..MaxIteration
Inputs == <<"snapshot", "quotes", "bars", "calendar">>
NoReceipt == [i |-> 0, late |-> 0, packet |-> <<>>]
Idle == [at |-> "idle", i |-> 0, late |-> 0, seen |-> <<>>]
InitialState == [completed |-> 0, last |-> NoReceipt]
NoSet == [i \in Iterations |-> NoReceipt]

Together(files) == [k \in 1..Len(Inputs) |-> files[Inputs[k]]]

Init ==
    /\ disk = [ files |-> [snapshot |-> 1, quotes |-> 1, bars |-> 1, calendar |-> 1], rec |-> NoSet,
                st |-> InitialState, audit |-> NoSet, sealed |-> NoSet ]
    /\ proc = [r \in Runners |-> Idle]
    /\ world = {<<1, 1, 1, 1>>}

Step(r, p) == proc' = [proc EXCEPT ![r] = p]
Leaves(r) == Step(r, Idle)
LockFree == \A r \in Runners : proc[r].at \notin {"locked", "published"}

-----------------------------------------------------------------------------
(* The programs that produce the inputs. *)

Replaced(files) ==
    /\ disk' = [disk EXCEPT !.files = files]
    /\ world' = world \cup {Together(files)}
    /\ UNCHANGED proc

ExportSnapshot ==
    /\ disk.files.snapshot < MaxVersion
    /\ Replaced([disk.files EXCEPT !.snapshot = @ + 1])

\* The quote history ends with the snapshot it was materialized from.
MaterializeQuotes ==
    /\ disk.files.quotes # disk.files.snapshot
    /\ Replaced([disk.files EXCEPT !.quotes = disk.files.snapshot])

MaterializeBars ==
    /\ disk.files.bars # disk.files.quotes
    /\ Replaced([disk.files EXCEPT !.bars = disk.files.quotes])

CaptureCalendar ==
    /\ disk.files.calendar < MaxVersion
    /\ Replaced([disk.files EXCEPT !.calendar = @ + 1])

-----------------------------------------------------------------------------
(* One iteration up to its receipt: three passes over the inputs, for the  *)
(* digests before, for the packet and for the digests after.               *)

Passes == 3
Files == Len(Inputs)
Packet(seen) == SubSeq(seen, Files + 1, 2 * Files)

\* CONTEXT_QUOTE_SNAPSHOT_MISMATCH and the provenance of the latest quote.
QuotesOfSnapshot(seen) == Len(seen) >= Files + 2 => seen[Files + 2] = seen[Files + 1]

\*\* SHADOW_PACKET_INPUT_BINDING_INVALID: the snapshot that the packet names.
\* Fault when it stands alone: the other digests are not compared.
SnapshotBound(seen) == Len(seen) > 2 * Files => seen[2 * Files + 1] = seen[Files + 1]

\* SHADOW_INPUT_DRIFT.
NoDrift(seen) == SnapshotBound(seen) /\ \A k \in 1..Files : Len(seen) >= 2 * Files + k => seen[2 * Files + k] = seen[k]

InputsHold(r) == QuotesOfSnapshot(proc[r].seen) /\ NoDrift(proc[r].seen)

\* The arguments i and late are used only when the receipt is made, and are
\* chosen there.  Runners read one at a time (bound): their reads change nothing.
BeginIteration(r) ==
    /\ proc[r].at = "idle" /\ \A q \in Runners : proc[q].at # "reading"
    /\ Step(r, [Idle EXCEPT !.at = "reading"])
    /\ UNCHANGED <<disk, world>>

\* _stable_input_digests, and the loads of build_packet in the same order.
ReadInput(r) ==
    /\ proc[r].at = "reading" /\ Len(proc[r].seen) < Passes * Files /\ InputsHold(r)
    /\ Step(r, [proc[r] EXCEPT !.seen = Append(@, disk.files[Inputs[(Len(@) % Files) + 1]])])
    /\ UNCHANGED <<disk, world>>

\* load_observation_policy and _validate_slot (an iteration of the policy, an
\* evaluation time inside its slot: late is how far past the scheduled time),
\* build_packet, evaluate, the checks on the inputs and _materialize_receipt.
Materialized(r) ==
    /\ proc[r].at = "reading" /\ Len(proc[r].seen) = Passes * Files /\ InputsHold(r)
    /\ \E i \in Iterations, late \in 0..1 :
         Step(r, [at |-> "receipt", i |-> i, late |-> late, seen |-> Packet(proc[r].seen)])
    /\ UNCHANGED <<disk, world>>

Receipt(r) == [i |-> proc[r].i, late |-> proc[r].late, packet |-> proc[r].seen]

RefuseInputs(r) ==
    /\ proc[r].at = "reading" /\ ~ InputsHold(r)
    /\ Leaves(r)
    /\ UNCHANGED <<disk, world>>

-----------------------------------------------------------------------------
(* The receipt and the state, under the state lock. *)

\* _state_lock does not wait.
TakeLock(r) ==
    /\ proc[r].at = "receipt" /\ LockFree
    /\ disk.st.completed = proc[r].i - 1
    /\ Step(r, [proc[r] EXCEPT !.at = "locked"])
    /\ UNCHANGED <<disk, world>>

\* Fault: a receipt of the iteration is taken for this one.
ExistsAlready(r) == disk.rec[proc[r].i] # NoReceipt

\* _existing_receipt_matches.
ExistingReceiptMatches(r) == disk.rec[proc[r].i] = Receipt(r)

\* _publish_new_receipt ends with the link; _existing_receipt_matches otherwise.
PublishReceipt(r) ==
    /\ proc[r].at = "locked"
    /\ \/ ExistingReceiptMatches(r) /\ UNCHANGED disk
       \/ /\ disk.rec[proc[r].i] = NoReceipt
          /\ disk' = [disk EXCEPT !.rec[proc[r].i] = Receipt(r)]
    /\ Step(r, [proc[r] EXCEPT !.at = "published"])
    /\ UNCHANGED world

CommitState(r) ==
    /\ proc[r].at = "published"
    /\ disk' = [disk EXCEPT !.st = [completed |-> proc[r].i, last |-> Receipt(r)]]
    /\ Leaves(r) /\ UNCHANGED world

\* An idempotent replay, SHADOW_STATE_LOCKED, SHADOW_ITERATION_SEQUENCE_INVALID,
\* SHADOW_RECEIPT_ALREADY_EXISTS, a failed validation, or a dead process.
Leave(r) ==
    /\ proc[r].at # "idle"
    /\ Leaves(r) /\ UNCHANGED <<disk, world>>

-----------------------------------------------------------------------------
(* finalize_campaign and seal_decision_set. *)

\* The digests of policy, state and receipts, all of which must exist.
BeginFinal(r) ==
    /\ proc[r].at = "idle" /\ \A i \in Iterations : disk.rec[i] # NoReceipt
    /\ Step(r, [Idle EXCEPT !.at = "final", !.i = disk.st.completed])
    /\ UNCHANGED <<disk, world>>

\* _validate_receipt_envelopes: sorted by start, in their slots, and apart.
EnvelopesValid(set) == \A i \in Iterations : set[i].i = i /\ set[i].late \in 0..1

\* Fault: the receipts decide, the state is not asked.
ReceiptsComplete(r) == EnvelopesValid(disk.rec)

\* SHADOW_FINAL_STATE_INCOMPLETE, SHADOW_FINAL_STATE_RECEIPT_MISMATCH, SHADOW_FINAL_INPUT_DRIFT.
FinalInputs(r) ==
    /\ disk.st.completed = MaxIteration /\ proc[r].i = MaxIteration
    /\ disk.st.last = disk.rec[MaxIteration]
    /\ EnvelopesValid(disk.rec)

PublishAudit(r) ==
    /\ proc[r].at = "final" /\ LockFree
    /\ FinalInputs(r)
    /\ disk.audit \in {NoSet, disk.rec}
    /\ disk' = [disk EXCEPT !.audit = disk.rec]
    /\ Leaves(r) /\ UNCHANGED world

\* seal_decision_set: the audit, as many receipts, each in its slot.
SealDecisionSet ==
    /\ disk.audit # NoSet /\ EnvelopesValid(disk.rec)
    /\ disk' = [disk EXCEPT !.sealed = disk.rec]
    /\ UNCHANGED <<proc, world>>

Next ==
    \/ ExportSnapshot \/ MaterializeQuotes \/ MaterializeBars \/ CaptureCalendar \/ SealDecisionSet
    \/ \E r \in Runners :
         \/ BeginIteration(r) \/ ReadInput(r) \/ Materialized(r) \/ RefuseInputs(r)
         \/ TakeLock(r) \/ PublishReceipt(r) \/ CommitState(r) \/ Leave(r)
         \/ BeginFinal(r) \/ PublishAudit(r)

-----------------------------------------------------------------------------
\* Every receipt on disk was computed from inputs that were on disk together,
\* however the programs that replace them interleave with the runner's reads
\* (run_shadow_iteration compares digests taken before and after the packet).
ReceiptFromOneInstant ==
    \A i \in Iterations : disk.rec[i] # NoReceipt => disk.rec[i].packet \in world

\* The state counts exactly the iterations whose receipts are durable, the last
\* of them by content; at most the next receipt is ahead of it after a crash;
\* and what the audit and the sealed decision set hold is what was counted.
StateMatchesReceipts ==
    /\ \A i \in Iterations : i <= disk.st.completed => disk.rec[i] # NoReceipt
    /\ \A i \in Iterations : i > disk.st.completed + 1 => disk.rec[i] = NoReceipt
    /\ disk.st.completed > 0 => disk.st.last = disk.rec[disk.st.completed]
    /\ disk.audit # NoSet => disk.st.completed = MaxIteration /\ disk.audit = disk.rec
    /\ disk.sealed # NoSet => disk.sealed = disk.audit
=============================================================================
