---------------------------- MODULE PriceCohort ----------------------------
(***************************************************************************)
(* The precommitted price cohort of research/train_v2: slots and horizons  *)
(* fixed before any of them is due, inputs captured inside the slot's      *)
(* window, outcomes labelled from sealed quote segments only, then audit,  *)
(* closeout and paged replay.                                              *)
(*                                                                         *)
(* Sources: laya_cell/shadow_source.py (the collector and its reader),     *)
(* contracts.py, causal_ttl.py, registry.py, prospective_multihorizon.py,  *)
(* scheduled_horizon.py, prospective_horizon_observe.py,                   *)
(* original_multihorizon.py, postmodel_requote.py (the archive loader),    *)
(* sealed_outcome_reconcile.py, scheduled_replay.py,                       *)
(* price_only_cohort_audit.py, price_cohort_closeout.py,                   *)
(* paged_price_window.py and paged_price_cohort_replay.py.                 *)
(*                                                                         *)
(* A quote is its event time and the time the collector recorded it; its   *)
(* price is the event's.  Hash chains, digests and pins are equalities of  *)
(* what they bind.  A behaviour fixes what the quote tool would answer at  *)
(* every tick: it answers with the current quote, so its events never go   *)
(* back.                                                                   *)
(***************************************************************************)
EXTENDS Integers, Sequences, FiniteSets

CONSTANTS
    Slots,          \* SLOT_COUNT, numbered from 0
    Horizons,       \* HORIZONS_MIN
    Readers,        \* concurrent observe and reconcile invocations
    Spacing,        \* SLOT_SPACING_MS
    Lead,           \* from registration to the first anchor
    MinLead,        \* the registry's least lead before the first decision
    Last,           \* LAST_CAPTURE_DELAY_MS; DECISION_DELAY_MS is 0
    Ttl,            \* the life of a quote: 5000 ms
    Grace,          \* MIN_OUTCOME_GRACE_MS
    EndpointDelay,  \* MAX_ENDPOINT_DELAY_MS
    Gap,            \* MAX_PATH_GAP_MS
    Lookback,       \* quotes a feature needs
    Timeout,        \* TIMEOUT_SECONDS of a capture's unit
    Margin,         \* LOOKBACK_MS and EXTRA_ENDPOINT_MS of the paged replay
    Feeds,          \* what the quote tool answers: the event of the quote of each tick, or -1
    MaxTime,        \* bound: the clock
    MaxSegments     \* bound: collector starts

VARIABLES disk, proc, world

vars == <<disk, proc, world>>

NoInput == [decision |-> -1, segment |-> 0, quote |-> 0, event |-> -1, at |-> -1, prefix |-> 0, durable |-> -1]
NoTimer == [state |-> "NONE", finished |-> -1]
Label(state, event) == [state |-> state, event |-> event]
NoLabel == Label("NONE", -1)
Cells == Slots \X Horizons
IdleWorker == [at |-> "idle", timed |-> FALSE, until |-> -1, found |-> NoInput]
IdleReader == [at |-> "idle", cell |-> CHOOSE c \in Cells : TRUE, segments |-> 0, label |-> NoLabel]
IdleAudit == [at |-> "idle", segments |-> 0]

SetMin(S) == CHOOSE x \in S : \A y \in S : x <= y
SetMax(S) == CHOOSE x \in S : \A y \in S : x >= y

Init ==
    /\ disk = [ segments |-> <<>>,
                stage |-> "NONE", registered |-> -1, anchor |-> -1,
                input |-> [s \in Slots |-> NoInput], timer |-> [s \in Slots |-> NoTimer],
                outcome |-> [c \in Cells |-> NoLabel],
                closeout |-> [c \in Cells |-> NoLabel], closed |-> 0, replayed |-> FALSE ]
    /\ proc = [ collector |-> FALSE, operator |-> FALSE,
                worker |-> [s \in Slots |-> IdleWorker],
                reader |-> [r \in Readers |-> IdleReader], audit |-> IdleAudit ]
    /\ \E f \in Feeds : world = [now |-> 0, feed |-> f, probed |-> FALSE]

-----------------------------------------------------------------------------
(* The collector: one segment per start, quotes appended and fsynced, END   *)
(* appended when it stops.                                                  *)

Segments == disk.segments
Newest == Len(Segments)
Answer == IF world.now = 0 THEN -1 ELSE world.feed[world.now]

\* collect: a new segment with its header.
CollectStart ==
    /\ ~proc.collector /\ Newest < MaxSegments
    /\ disk' = [disk EXCEPT !.segments = Append(@, [quotes |-> <<>>, ended |-> FALSE, torn |-> FALSE])]
    /\ proc' = [proc EXCEPT !.collector = TRUE]
    /\ UNCHANGED world

\* valid_quote: authoritative, not of the future and not expired on receipt.
ValidQuote(event, received) == event <= received /\ received < event + Ttl

\* The probe of this tick returned a valid quote.  The reader keeps the first
\* record of an event of the segment, so a repeated one adds nothing.
Probe ==
    LET quotes == Segments[Newest].quotes IN
    /\ proc.collector /\ ~world.probed
    /\ Answer # -1 /\ ValidQuote(Answer, world.now)
    /\ disk' = IF Answer \in { quotes[j].event : j \in 1..Len(quotes) } THEN disk
               ELSE [disk EXCEPT !.segments[Newest].quotes = Append(@, [event |-> Answer, at |-> world.now])]
    /\ world' = [world EXCEPT !.probed = TRUE]
    /\ UNCHANGED proc

\* The deadline, a signal or a failure that ends the loop: END is appended.
CollectEnd ==
    /\ proc.collector
    /\ disk' = [disk EXCEPT !.segments[Newest].ended = TRUE]
    /\ proc' = [proc EXCEPT !.collector = FALSE]
    /\ UNCHANGED world

\* The collector dies, perhaps inside a write.
CollectCrash ==
    /\ proc.collector
    /\ \E torn \in BOOLEAN : disk' = [disk EXCEPT !.segments[Newest].torn = torn]
    /\ proc' = [proc EXCEPT !.collector = FALSE]
    /\ UNCHANGED world

-----------------------------------------------------------------------------
(* Registration: a fresh root, the registry's seal, its commit, the         *)
(* campaign's manifest, the timer roster.  Nothing resumes an interrupted   *)
(* one: every file is created once.                                         *)

Anchor(s) == disk.anchor + s * Spacing

\* preregister up to the new root: the anchors follow from this clock, which
\* starts with it.
Preregister ==
    /\ disk.stage = "NONE" /\ world.now = 0
    /\ disk' = [disk EXCEPT !.stage = "ROOT", !.anchor = world.now + Lead]
    /\ proc' = [proc EXCEPT !.operator = TRUE]
    /\ UNCHANGED world

\* register_before_window: the seal is durable before the row is committed.
RegistrySeal ==
    /\ proc.operator /\ disk.stage = "ROOT"
    /\ world.now + MinLead <= Anchor(0)
    /\ disk' = [disk EXCEPT !.stage = "SEALED", !.registered = world.now]
    /\ UNCHANGED <<proc, world>>

RegistryCommit ==
    /\ proc.operator /\ disk.stage = "SEALED"
    /\ disk' = [disk EXCEPT !.stage = "COMMITTED"]
    /\ UNCHANGED <<proc, world>>

PersistManifest ==
    /\ proc.operator /\ disk.stage = "COMMITTED"
    /\ disk' = [disk EXCEPT !.stage = "READY"]
    /\ proc' = [proc EXCEPT !.operator = FALSE]
    /\ UNCHANGED world

OperatorDies ==
    /\ proc.operator
    /\ proc' = [proc EXCEPT !.operator = FALSE]
    /\ UNCHANGED <<disk, world>>

\* create_roster: every slot is still in the future.
CreateRoster ==
    /\ disk.stage = "READY"
    /\ \A s \in Slots : disk.input[s] = NoInput /\ world.now < Anchor(s)
    /\ disk' = [disk EXCEPT !.stage = "SCHEDULED"]
    /\ UNCHANGED <<proc, world>>

-----------------------------------------------------------------------------
(* Capturing the input of a slot.                                           *)

\* _load and load_roster: the campaign, and its timer roster, are complete.
Loaded == disk.stage \in {"READY", "SCHEDULED"}
Rostered == disk.stage = "SCHEDULED"

InWindow(s, t) == Anchor(s) <= t /\ t <= Anchor(s) + Last

\* capture_slot as the timer runs it (run_slot) or as the operator runs it,
\* which leaves no timer result.
CaptureStart(s, timed) ==
    /\ proc.worker[s].at = "idle"
    /\ IF timed THEN Rostered ELSE Loaded
    /\ InWindow(s, world.now)
    /\ disk.input[s] = NoInput
    /\ timed => disk.timer[s] = NoTimer
    /\ proc' = [proc EXCEPT !.worker[s] = [IdleWorker EXCEPT !.at = "reading", !.timed = timed,
                                                              !.until = world.now + Timeout]]
    /\ UNCHANGED <<disk, world>>

\* ordered_observations: the quotes of the prefix known at the decision.
Known(segment, prefix, decision) ==
    SelectSeq(SubSeq(Segments[segment].quotes, 1, prefix), LAMBDA q : q.at <= decision /\ q.event <= decision)

\* sealed_original_broker_expiry: the quote's own expiry bounds its use.
Unexpired(quote, decision) == decision <= quote.event + Ttl

\* compile_example over one segment: the last Lookback quotes known at the
\* decision, without a gap, and the newest of them fresh.
InputOf(segment, prefix, decision) ==
    LET known  == Known(segment, prefix, decision)
        n      == Len(known)
        latest == known[n]
        gap    == \E j \in (n - Lookback + 2)..n : known[j].event - known[j - 1].event > Gap
    IN  IF n < Lookback \/ ~Unexpired(latest, decision) \/ gap THEN NoInput
        ELSE [ decision |-> decision, segment |-> segment, quote |-> n, event |-> latest.event,
               at |-> latest.at, prefix |-> prefix, durable |-> -1 ]

\* Fault: the second clock is not held against the window.
ReadInTime(s) == TRUE

\* The clock after the read is inside the window too.
RecordedInTime(s) == InWindow(s, world.now)

\* The read of the newest segment, its clock, the quote's age and freshness;
\* a segment with an unfinished last line is refused.
CaptureRead(s) ==
    /\ proc.worker[s].at = "reading"
    /\ Newest > 0 /\ ~Segments[Newest].torn
    /\ RecordedInTime(s)
    /\ LET found == InputOf(Newest, Len(Segments[Newest].quotes), world.now) IN
       /\ found # NoInput /\ found.at > disk.registered
       /\ proc' = [proc EXCEPT !.worker[s].at = "captured", !.worker[s].found = found]
    /\ UNCHANGED <<disk, world>>

CapturePersist(s) ==
    /\ proc.worker[s].at = "captured" /\ disk.input[s] = NoInput
    /\ disk' = [disk EXCEPT !.input[s] = [proc.worker[s].found EXCEPT !.durable = world.now]]
    /\ proc' = [proc EXCEPT !.worker[s] = IF proc.worker[s].timed THEN [@ EXCEPT !.at = "sealed", !.found = NoInput]
                                          ELSE IdleWorker]
    /\ UNCHANGED world

\* run_slot's result: the clock of its end, and failure for any exception.
TimerResult(s, state) ==
    /\ proc.worker[s].timed /\ disk.timer[s] = NoTimer
    /\ disk' = [disk EXCEPT !.timer[s] = [state |-> state, finished |-> world.now]]
    /\ proc' = [proc EXCEPT !.worker[s] = IdleWorker]
    /\ UNCHANGED world

CaptureDone(s) == proc.worker[s].at = "sealed" /\ TimerResult(s, "SEALED")
CaptureFails(s) == proc.worker[s].at \in {"reading", "captured"} /\ TimerResult(s, "FAILED")

\* The worker is killed (its unit's timeout, a crash) or the operator's
\* invocation is refused.
WorkerDies(s) ==
    /\ proc.worker[s].at # "idle"
    /\ proc' = [proc EXCEPT !.worker[s] = IdleWorker]
    /\ UNCHANGED <<disk, world>>

-----------------------------------------------------------------------------
(* The sealed archive and the label it gives.                               *)

\* Fault: an unsealed segment in the middle is passed over.
LoadableLoose(n) == n > 0 /\ \A i \in 1..n : ~Segments[i].torn

\* load_original_quote_archive over the n segments it listed: no unfinished
\* line anywhere, and only the newest may be without END.
Loadable(n) ==
    /\ n > 0 /\ \A i \in 1..n : ~Segments[i].torn
    /\ \A i \in 1..(n - 1) : Segments[i].ended

RowsOf(n) ==
    UNION { { [segment |-> i, quote |-> j, event |-> Segments[i].quotes[j].event, at |-> Segments[i].quotes[j].at]
              : j \in 1..Len(Segments[i].quotes) } : i \in { k \in 1..n : Segments[k].ended } }

Events(rows) == { r.event : r \in rows }
LastKnown(rows) == SetMax({ r.at : r \in rows })

\* ordered_quote_index and label_after.
LabelAfter(rows, from, due) ==
    LET events == Events(rows)
        right  == SetMin({ e \in events : e >= due })
        path   == { e \in events : from <= e /\ e <= right }
        gap    == \E e \in path : e # right /\ SetMin({ f \in path : f > e }) > e + Gap
    IN  IF due > SetMax(events) THEN Label("BEYOND_SEALED_SOURCE", -1)
        ELSE IF right > due + EndpointDelay THEN Label("ENDPOINT_NOT_OBSERVED", -1)
        ELSE IF gap THEN Label("SOURCE_GAP", -1)
        ELSE Label("OBSERVED", right)

DueOf(c) == disk.input[c[1]].decision + c[2]
HasInput(rows, s) == { r \in rows : r.segment = disk.input[s].segment /\ r.quote = disk.input[s].quote } # {}

\* Fault: coverage that only reaches the due time.
CoveredToDue(rows, c) == LastKnown(rows) >= DueOf(c)

\* The sealed quotes reach past the due time by the grace.
Covered(rows, c) == LastKnown(rows) >= DueOf(c) + Grace

\* classify_source: the input's own quote is sealed and the endpoint covered.
Ready(rows, c) == rows # {} /\ HasInput(rows, c[1]) /\ Covered(rows, c)

\* make_result.
ResultOf(rows, c) == LabelAfter(rows, disk.input[c[1]].event, DueOf(c))

\* verify_input_and_timer.
VerifiedInput(s) ==
    /\ Rostered
    /\ disk.input[s] # NoInput /\ InWindow(s, disk.input[s].decision)
    /\ disk.timer[s].state = "SEALED" /\ disk.timer[s].finished <= Anchor(s) + Last

\* observe, and reconcile with commit, which first verifies input and timer.
\* The clock is read, then the directory is listed.
ObserveStart(r, c, reconcile) ==
    /\ proc.reader[r].at = "idle"
    /\ disk.input[c[1]] # NoInput /\ disk.outcome[c] = NoLabel
    /\ reconcile => VerifiedInput(c[1])
    /\ world.now >= DueOf(c) + Grace
    /\ proc' = [proc EXCEPT !.reader[r] = [IdleReader EXCEPT !.at = "listed", !.cell = c, !.segments = Newest]]
    /\ UNCHANGED <<disk, world>>

ObserveLoad(r) ==
    LET p == proc.reader[r]
        rows == RowsOf(p.segments) IN
    /\ p.at = "listed"
    /\ proc' = [proc EXCEPT !.reader[r] =
                   IF Loadable(p.segments) /\ Ready(rows, p.cell)
                   THEN [@ EXCEPT !.at = "ready", !.segments = 0, !.label = ResultOf(rows, p.cell)]
                   ELSE IdleReader]
    /\ UNCHANGED <<disk, world>>

\* _persist: created once; an invocation that lost the race re-verifies the
\* winner's record and writes nothing.
ObserveWrite(r) ==
    LET p == proc.reader[r] IN
    /\ p.at = "ready"
    /\ disk' = [disk EXCEPT !.outcome[p.cell] = IF @ = NoLabel THEN p.label ELSE @]
    /\ proc' = [proc EXCEPT !.reader[r] = IdleReader]
    /\ UNCHANGED world

-----------------------------------------------------------------------------
(* Review, audit, closeout and paged replay.                                *)

\* verify_original_slot: the recorded prefix gives the recorded quote again.
ReviewPasses(s) ==
    LET i == disk.input[s] IN
    VerifiedInput(s) /\ [InputOf(i.segment, i.prefix, i.decision) EXCEPT !.durable = i.durable] = i

\* audit lists the archive once, then derives every cell again.
AuditStart ==
    /\ proc.audit.at = "idle" /\ disk.closed = 0
    /\ \A s \in Slots : VerifiedInput(s)
    /\ \A c \in Cells : disk.outcome[c] # NoLabel /\ world.now >= DueOf(c) + Grace
    /\ proc' = [proc EXCEPT !.audit = [at |-> "listed", segments |-> Newest]]
    /\ UNCHANGED <<disk, world>>

\* verify_immutable_outcome: the record is what this archive gives.
CellVerified(rows, c) == Ready(rows, c) /\ disk.outcome[c] = ResultOf(rows, c)

\* verify_final_price_audit: every declared cell is final and the decisions
\* are distinct and in order; the closeout is created once.
Closeout ==
    LET n == proc.audit.segments
        rows == RowsOf(n) IN
    /\ proc.audit.at = "listed"
    /\ proc' = [proc EXCEPT !.audit = IdleAudit]
    /\ disk' = IF /\ Loadable(n) /\ \A c \in Cells : CellVerified(rows, c)
                  /\ \A s, t \in Slots : s < t => disk.input[s].decision < disk.input[t].decision
               THEN [disk EXCEPT !.closeout = disk.outcome, !.closed = n]
               ELSE disk
    /\ UNCHANGED world

\* verify_paged_price_window for each slot, combined: the rows recorded in the
\* slots' windows, from the same sealed segments as the closeout's first.
WindowRows(n) ==
    { r \in RowsOf(n) : { s \in Slots : /\ r.at >= disk.input[s].decision - Margin
                                        /\ r.at <= disk.input[s].decision + SetMax(Horizons) + Margin } # {} }

\* audit_existing_frozen_12cell: the windowed archive gives the same labels.
Replay ==
    LET rows == WindowRows(Newest) IN
    /\ disk.closed > 0 /\ ~disk.replayed
    /\ Loadable(Newest)
    /\ \A c \in Cells : CellVerified(rows, c)
    /\ disk' = [disk EXCEPT !.replayed = TRUE]
    /\ UNCHANGED <<proc, world>>

-----------------------------------------------------------------------------
\* Time is followed only for a campaign whose registration was completed; a
\* capture is over when its timeout is.
Tick ==
    /\ world.now < MaxTime /\ Loaded
    /\ proc.collector /\ Answer # -1 => world.probed
    /\ \A s \in Slots : proc.worker[s].at # "idle" => world.now < proc.worker[s].until
    /\ world' = [world EXCEPT !.now = @ + 1, !.probed = FALSE]
    /\ UNCHANGED <<disk, proc>>

Next ==
    \/ CollectStart \/ Probe \/ CollectEnd \/ CollectCrash
    \/ Preregister \/ RegistrySeal \/ RegistryCommit \/ PersistManifest \/ OperatorDies \/ CreateRoster
    \/ \E s \in Slots :
          \/ \E timed \in BOOLEAN : CaptureStart(s, timed)
          \/ CaptureRead(s) \/ CapturePersist(s) \/ CaptureDone(s) \/ CaptureFails(s) \/ WorkerDies(s)
    \/ \E r \in Readers :
          \/ \E c \in Cells, reconcile \in BOOLEAN : ObserveStart(r, c, reconcile)
          \/ ObserveLoad(r) \/ ObserveWrite(r)
    \/ AuditStart \/ Closeout \/ Replay
    \/ Tick

Spec == Init /\ [][Next]_vars

-----------------------------------------------------------------------------
\* Every quote the collector has recorded so far, sealed or not.
Recorded ==
    UNION { { [event |-> Segments[i].quotes[j].event, at |-> Segments[i].quotes[j].at]
              : j \in 1..Len(Segments[i].quotes) } : i \in 1..Newest }

\* A label, once written, is what every quote ever recorded gives, whatever
\* was sealed, lost, rotated or appended before or after it was taken: no
\* later segment changes it.  Its input was taken inside the slot's window
\* from a quote recorded after the registration, and its recorded prefix gives
\* that quote again at any later time.  A cohort is closed only over inputs
\* that were durable before any of their labels could be known (observe,
\* reconcile, verify_original_slot, audit, closeout).
CohortFinal ==
    /\ \A c \in Cells : disk.outcome[c] # NoLabel =>
          disk.outcome[c] = LabelAfter(Recorded, disk.input[c[1]].event, DueOf(c))
    /\ \A s \in Slots : disk.input[s] # NoInput =>
          /\ InWindow(s, disk.input[s].decision)
          /\ disk.registered < disk.input[s].at /\ disk.input[s].at <= disk.input[s].decision
          /\ VerifiedInput(s) => ReviewPasses(s)
    /\ disk.closed > 0 =>
          \A c \in Cells : /\ disk.closeout[c] = disk.outcome[c]
                           /\ disk.input[c[1]].durable < DueOf(c)
=============================================================================
