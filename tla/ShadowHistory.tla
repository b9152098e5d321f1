---------------------------- MODULE ShadowHistory ----------------------------
(***************************************************************************)
(* scripts/hepta_shadow_market_history.py: one segment of the SHADOW quote *)
(* history.  A WATCH exporter replaces three files one after the other;    *)
(* append reads them one after the other, publishes an immutable record    *)
(* and then the mutable head; recover rebuilds the head; materialize turns *)
(* the records into bars and replaces its outputs one after the other.     *)
(* Any of them may die between two file operations.  Time is counted in    *)
(* capture cadences; a minute is MinuteTicks of them, a "five minute" bar  *)
(* is two minutes, and time 1 begins one.                                  *)
(***************************************************************************)
EXTENDS Naturals, Sequences, FiniteSets

CONSTANTS
    MaxTime,       \* bound: captures
    MaxGeneration, \* bound: WATCH lease generations
    MaxGap         \* BUILDER_MAXIMUM_QUOTE_GAP_MS in cadences

VARIABLES
    disk,    \* [snap, lease, export, recs, tmp, extraLink, head, cursor, pending, bars, quotes, history]
    proc,    \* [at, snap, lease, rec, load]: the command that runs
    world    \* [at, t, gen, together, prev]: the exporter

MinuteTicks == 2
None == 0

\* A snapshot is its capture time, quote time and price; the price is fixed by the quote time.
NoSnap == [t |-> 0, q |-> 0]
NoLease == [gen |-> 0, op |-> "PROVISION"]
NoRecord == [t |-> 0, q |-> 0, gen |-> 0, op |-> "PROVISION", changed |-> FALSE]
NoOut == [upto |-> 0, bars |-> {}]
Idle == [at |-> "idle", snap |-> NoSnap, lease |-> NoLease, rec |-> NoRecord, load |-> NoOut]

Init ==
    /\ disk = [ snap |-> NoSnap, lease |-> NoLease, export |-> [t |-> 0, gen |-> 0], recs |-> <<>>,
                tmp |-> FALSE, extraLink |-> FALSE, head |-> 0, cursor |-> 0, pending |-> FALSE,
                bars |-> NoOut, quotes |-> 0, history |-> 0 ]
    /\ proc = Idle
    /\ \E gen \in {0, 1} :    \* a segment of its own, or one that continues another
         world = [at |-> "lease", t |-> 0, gen |-> gen, together |-> {},
                  prev |-> [NoRecord EXCEPT !.gen = gen]]

At(step) == proc.at = step
Go(step) == proc' = [proc EXCEPT !.at = step]
Last == disk.recs[Len(disk.recs)]

-----------------------------------------------------------------------------
(* The exporter: lease receipt, snapshot, and the export receipt that      *)
(* commits them.                                                           *)

ExportLease ==
    /\ world.at = "lease" /\ world.gen < MaxGeneration
    /\ world' = [world EXCEPT !.at = "snap", !.gen = @ + 1]
    /\ disk' = [disk EXCEPT !.lease = [gen |-> world.gen + 1,
                                       op |-> IF world.gen = 0 THEN "PROVISION" ELSE "ROTATE"]]
    /\ UNCHANGED proc

ExportSnapshot ==
    /\ world.at \in {"lease", "snap"} /\ disk.lease.gen > 0 /\ world.t < MaxTime
    /\ \E t \in {world.t + 1, world.t + 2}, q \in {0, 1} :
         /\ t <= MaxTime /\ t - q >= disk.snap.q     \* q: the quote was seen one cadence before
         /\ disk' = [disk EXCEPT !.snap = [t |-> t, q |-> t - q]]
         /\ world' = [world EXCEPT !.at = "export", !.t = t]
    /\ UNCHANGED proc

ExportReceipt ==
    /\ world.at = "export"
    /\ disk' = [disk EXCEPT !.export = [t |-> disk.snap.t, gen |-> disk.lease.gen]]
    /\ world' = [world EXCEPT !.at = "lease", !.together = @ \cup {[t |-> disk.snap.t, gen |-> disk.lease.gen]}]
    /\ UNCHANGED proc

-----------------------------------------------------------------------------
(* What the records of a segment must satisfy. *)

\* _quote_changed: the same time with another price cannot happen here.
QuoteChanged(p, r) == r.q > p.q

\* _validate_record_transition and _validate_authority_binding.
Transition(p, r) ==
    /\ r.t > p.t /\ r.q >= p.q
    /\ r.gen \in {p.gen, p.gen + 1}
    /\ IF r.gen = p.gen THEN r.t - p.t = 1 /\ (r.changed => r.q - p.q <= MaxGap)
       ELSE r.op = "ROTATE" /\ r.t - p.t <= MaxGap /\ (r.changed => r.q - p.q <= MaxGap)

\* _validate_segment_transition: a segment may continue another one after any gap.
SegmentTransition(p, r) ==
    /\ r.t > p.t /\ r.q >= p.q
    /\ IF r.gen = p.gen THEN TRUE ELSE r.gen = p.gen + 1 /\ r.op = "ROTATE"

\* The first record of a segment, with the record of the segment it continues.
FirstRecord(prev, r) ==
    IF r.op # "PROVISION" THEN prev.gen > 0 /\ SegmentTransition(prev, r) ELSE r.changed

\* _validate_record: of a record's own file, only the second link of an
\* interrupted publication can be wrong.
RecordReadable == ~disk.extraLink

\* _scan_history_unlocked: the directory holds records of one chain and nothing else.
Scannable(prev) ==
    /\ ~disk.tmp /\ RecordReadable
    /\ Len(disk.recs) > 0 => FirstRecord(prev, disk.recs[1])
    /\ \A i \in 2..Len(disk.recs) : Transition(disk.recs[i-1], disk.recs[i])

\* _validate_head, _validate_head_tail: the head describes the last record.
HeadMatches == disk.head = Len(disk.recs)

\* _load_fast_state: and no other record follows.
FastState == ~disk.pending /\ HeadMatches /\ RecordReadable

\* _advance_incremental_audit: two records further, from the first one again at the end.
Audited == LET n == disk.head IN IF n = 0 THEN 0 ELSE (disk.cursor + (IF n < 2 THEN n ELSE 2)) % n

-----------------------------------------------------------------------------
(* append_snapshot. *)

ReadSnapshot ==
    /\ At("idle") /\ disk.snap.t > 0
    /\ proc' = [Idle EXCEPT !.at = "lease", !.snap = disk.snap]
    /\ UNCHANGED <<disk, world>>

ReadLease ==
    /\ At("lease")
    /\ proc' = [proc EXCEPT !.at = "export", !.lease = disk.lease]
    /\ UNCHANGED <<disk, world>>

\* Fault: the receipt is not compared with the lease.
ReceiptOfSnapshot(x, s, l) == x.t = s.t

\* _validate_export_receipt: it names the very snapshot and lease that were read.
ExportBinds(x, s, l) == x.t = s.t /\ x.gen = l.gen

ReadExport ==
    /\ At("export")
    /\ IF ExportBinds(disk.export, proc.snap, proc.lease) THEN Go("append") ELSE proc' = Idle
    /\ UNCHANGED <<disk, world>>

RecordBody ==
    LET p == IF disk.recs = <<>> THEN world.prev ELSE Last
    IN [t |-> proc.snap.t, q |-> proc.snap.q, gen |-> proc.lease.gen, op |-> proc.lease.op,
        changed |-> IF p.gen = 0 THEN TRUE ELSE QuoteChanged(p, proc.snap)]

\* The last snapshot again changes nothing.
AppendDuplicate ==
    /\ At("append") /\ FastState /\ disk.recs # <<>> /\ Last.t = proc.snap.t
    /\ proc' = Idle
    /\ UNCHANGED <<disk, world>>

\* Under the lock: the record is built and judged, and its temporary file written.
AppendRecord ==
    /\ At("append") /\ FastState
    /\ disk.recs # <<>> => Last.t # proc.snap.t
    /\ IF disk.recs = <<>> THEN FirstRecord(world.prev, RecordBody) ELSE Transition(Last, RecordBody)
    /\ proc' = [proc EXCEPT !.at = "link", !.rec = RecordBody]
    /\ disk' = [disk EXCEPT !.tmp = TRUE]
    /\ UNCHANGED world

\* _atomic_publish.
LinkRecord ==
    /\ At("link")
    /\ disk' = [disk EXCEPT !.recs = Append(@, proc.rec), !.extraLink = TRUE]
    /\ Go("unlink")
    /\ UNCHANGED world

UnlinkTemporary ==
    /\ At("unlink")
    /\ disk' = [disk EXCEPT !.tmp = FALSE, !.extraLink = FALSE]
    /\ Go("head")
    /\ UNCHANGED world

\* _atomic_replace_head.
WritePendingHead ==
    /\ proc.at \in {"head", "rebuild"} /\ ~disk.pending
    /\ disk' = [disk EXCEPT !.pending = TRUE]
    /\ Go(IF At("head") THEN "replace" ELSE "rebuilt")
    /\ UNCHANGED world

\* _make_head.
ReplaceHead ==
    /\ proc.at \in {"replace", "rebuilt"}
    /\ disk' = [disk EXCEPT !.pending = FALSE, !.head = Len(disk.recs),
                            !.cursor = IF At("rebuilt") THEN 0 ELSE Audited]
    /\ proc' = Idle
    /\ UNCHANGED world

-----------------------------------------------------------------------------
(* recover_history_head: it knows of no segment before this one. *)

Recoverable == Scannable(NoRecord)

Recover ==
    /\ At("idle") /\ Recoverable
    /\ disk' = [disk EXCEPT !.pending = FALSE, !.head = IF disk.recs = <<>> THEN 0 ELSE @]
    /\ IF disk.recs = <<>> THEN UNCHANGED proc ELSE Go("rebuild")
    /\ UNCHANGED world

-----------------------------------------------------------------------------
(* materialize_bars. *)

Captures == { disk.recs[i].t : i \in 1..Len(disk.recs) }

\* Fault: only the beginning of an interval must be covered.
MinuteStarted(s) == s \in Captures

\* _quote_bar: no boundary uncovered, no gap, no sample missing.
MinuteComplete(s) == s..(s + MinuteTicks - 1) \subseteq Captures

\* _five_minute_bar and _complete_five_minute_suffix: the last bar and the
\* complete bars just before it.
Bars ==
    LET span == 2 * MinuteTicks
        whole(s) == MinuteComplete(s) /\ MinuteComplete(s + MinuteTicks)
        starts == { s \in 1..MaxTime : s % span = 1 /\ s + span <= Last.t }
    IN { s \in starts : \A u \in starts : u >= s => whole(u) }

\* _load_history_tail: records of one lock; the outputs are built from them.
Materialize ==
    /\ At("idle") /\ FastState /\ disk.recs # <<>> /\ Bars # {}
    /\ proc' = [Idle EXCEPT !.at = "history", !.load = [upto |-> Last.t, bars |-> Bars]]
    /\ UNCHANGED <<disk, world>>

\* _atomic_replace of the sampled history, the quote history and the bar history.
ReplaceHistory ==
    /\ At("history")
    /\ disk' = [disk EXCEPT !.history = proc.load.upto]
    /\ Go("quotes")
    /\ UNCHANGED world

ReplaceQuotes ==
    /\ At("quotes")
    /\ disk' = [disk EXCEPT !.quotes = proc.load.upto]
    /\ Go("bars")
    /\ UNCHANGED world

ReplaceBars ==
    /\ At("bars")
    /\ disk' = [disk EXCEPT !.bars = proc.load]
    /\ proc' = Idle
    /\ UNCHANGED world

-----------------------------------------------------------------------------
\* A refusal or an I/O error: the temporary file goes, a pending head stays.
Fail ==
    /\ ~At("idle") /\ ~At("unlink")
    /\ disk' = [disk EXCEPT !.tmp = IF At("link") THEN FALSE ELSE @]
    /\ proc' = Idle
    /\ UNCHANGED world

Die ==
    /\ ~At("idle")
    /\ proc' = Idle
    /\ UNCHANGED <<disk, world>>

Next ==
    \/ ExportLease \/ ExportSnapshot \/ ExportReceipt
    \/ ReadSnapshot \/ ReadLease \/ ReadExport \/ AppendDuplicate \/ AppendRecord \/ LinkRecord
    \/ UnlinkTemporary \/ WritePendingHead \/ ReplaceHead \/ Recover
    \/ Materialize \/ ReplaceHistory \/ ReplaceQuotes \/ ReplaceBars \/ Fail \/ Die

-----------------------------------------------------------------------------
\* However the exporter, append, recover and their crashes interleave, the
\* records are one chain: each binds a snapshot and a lease that were exported
\* together, no capture appears twice, and captures are skipped only where the
\* lease rotated.  The head never describes a record that is not there, and it
\* misses at most the last one.
OneChain ==
    /\ \A i \in 1..Len(disk.recs) : [t |-> disk.recs[i].t, gen |-> disk.recs[i].gen] \in world.together
    /\ \A i \in 2..Len(disk.recs) :
         /\ disk.recs[i].t > disk.recs[i-1].t
         /\ disk.recs[i].t # disk.recs[i-1].t + 1 => disk.recs[i].gen = disk.recs[i-1].gen + 1
    /\ disk.head \in {Len(disk.recs), Len(disk.recs) - 1}

\* A published bar has a record of every capture in it, all of them older than
\* the quotes that were published before it.
BarsSampled ==
    \A s \in disk.bars.bars :
        /\ s..(s + 2 * MinuteTicks - 1) \subseteq Captures
        /\ s + 2 * MinuteTicks <= disk.bars.upto /\ disk.bars.upto <= disk.quotes

\* The module's promise that recover repairs a crash between the publication of
\* a record and that of the head.
CrashRecovers == proc = Idle /\ disk.head # Len(disk.recs) => Recoverable
=============================================================================
