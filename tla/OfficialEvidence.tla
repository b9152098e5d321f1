-------------------------- MODULE OfficialEvidence --------------------------
(***************************************************************************)
(* From an official web page to a decision not to trade around it:         *)
(* scripts/hepta_official_source_capture.py fetches the sources and        *)
(* exports three documents, hepta_market_official_source_extractor.py      *)
(* derives events from the retained bytes,                                 *)
(* hepta_market_evidence_normalizer.py attests them,                       *)
(* hepta_market_context_builder.py decides whether an event window is      *)
(* open, and hepta_eurusd_confirmed_momentum_strategy.py decides.  The     *)
(* capture may die between two files.  Time is counted in quarters of an   *)
(* hour, the unit in which the sentinels of an all-day event are placed.   *)
(***************************************************************************)
EXTENDS Integers, FiniteSets, Sequences

CONSTANTS
    Day,          \* length of a calendar day
    LookAhead,    \* EVENT_LOOKAHEAD
    LookBehind,   \* EVENT_LOOKBEHIND
    MaxTime       \* bound: time

VARIABLES
    disk,    \* [tx, calendar, information]: the last transaction; an exported document is the transaction it came from
    proc,    \* the step of the capture
    world    \* [now, rev, age]: the official revision and its age

\* SENTINEL_LEAD, SENTINEL_STEP, the exclusion of the strategy and the age limits.
Lead == 2
SentinelStep == 3
Before == 2
After == 1
MaxAge == 1
Guard == Day \div 2

\* Two revisions of the official calendars: the second adds a release
\* and a meeting day.  A meeting is the first instant of its day.
Official(rev) ==
    [ releases |-> IF rev = 1 THEN {0, MaxTime} ELSE {0, Day, MaxTime},
      meetings |-> IF rev = 1 THEN {-Day, 2 * Day} ELSE {-Day, 2 * Day, 4 * Day} ]
\* A transaction: the age of its fetches and of its observation, and its files.
Transaction(f, rev) == [f |-> f, o |-> 0, rev |-> rev, files |-> {}]
NoTransaction == [f |-> 2, o |-> 2, rev |-> 1, files |-> {}]
Older(age) == IF age > MaxAge THEN age ELSE age + 1

Init ==
    /\ disk = [tx |-> NoTransaction, calendar |-> NoTransaction, information |-> NoTransaction]
    /\ proc = "idle"
    /\ world = [now |-> 0, rev |-> 1, age |-> MaxAge + 1]

-----------------------------------------------------------------------------
(* Extraction. *)

InEventWindow(t, o) == o - LookBehind <= t /\ t <= o + LookAhead

DayStart(d) == d - Guard
DayEnd(d) == d + Day + Guard

\* Fault: the first sentinel one step after the guarded day begins.
SentinelsLate(d, o) ==
    IF DayEnd(d) < o - LookBehind \/ DayStart(d) > o + LookAhead THEN {}
    ELSE { t \in DayStart(d)..(DayEnd(d) - 1) : t >= DayStart(d) + SentinelStep /\ (t - DayStart(d)) % SentinelStep = 0 }

\* _all_day_events: sentinels from Lead past the guarded start, one per step.
Sentinels(d, o) ==
    IF DayEnd(d) < o - LookBehind \/ DayStart(d) > o + LookAhead THEN {}
    ELSE { t \in DayStart(d)..(DayEnd(d) - 1) : t >= DayStart(d) + Lead /\ (t - DayStart(d) - Lead) % SentinelStep = 0 }

\* _parse_bls: the releases inside the window.
Releases(off, o) == { t \in off.releases : InEventWindow(t, o) }

\* derive: the events of all sources, from the retained bytes and the observation time.
Derive(rev, o) ==
    LET off == Official(rev) IN
    Releases(off, o) \cup UNION { Sentinels(d, o) : d \in off.meetings }

\* Completeness of the sources: the observation lies inside what they cover.
SetMin(S) == CHOOSE x \in S : \A y \in S : x <= y
SetMax(S) == CHOOSE x \in S : \A y \in S : x >= y
CoverageEnd(rev) ==
    SetMin({ SetMax(Official(rev).releases), SetMax({ DayEnd(d) : d \in Official(rev).meetings }) })
InCoverage(rev, o) ==
    /\ SetMin(Official(rev).releases) <= o /\ o <= SetMax(Official(rev).releases)
    /\ SetMin({ DayStart(d) : d \in Official(rev).meetings }) <= o
    /\ o <= SetMax({ DayEnd(d) : d \in Official(rev).meetings })

-----------------------------------------------------------------------------
(* The capture. *)

Observed(x) == world.now - x.o
Write(from, to, file) ==
    /\ proc = from /\ proc' = to
    /\ disk' = [disk EXCEPT !.tx.files = @ \cup {file}]
    /\ UNCHANGED world

\* fetch, once per source; a redirect, a status or a type other than the pinned one ends the capture.
Fetch ==
    /\ proc = "idle"
    /\ proc' = "fetched" /\ disk' = [disk EXCEPT !.tx = Transaction(0, world.rev)]
    /\ UNCHANGED world

\* The observation time is taken after the last fetch; the transaction
\* directory and the five payloads; the manifest that names them.
RetainPayloads ==
    /\ proc = "fetched" /\ proc' = "payloads"
    /\ disk' = [disk EXCEPT !.tx.o = 0, !.tx.files = {"payloads"}]
    /\ UNCHANGED world

WriteManifest == Write("payloads", "manifest", "manifest")

\* produce: derive, then the receipt and the bundle.
Produce == InCoverage(disk.tx.rev, Observed(disk.tx)) /\ Write("manifest", "receipt", "receipt")

ProduceBundle == Write("receipt", "bundle", "bundle")

\* The bundle cannot be created: the receipt is removed again.
BundleFails ==
    /\ proc = "receipt" /\ proc' = "idle"
    /\ disk' = [disk EXCEPT !.tx.files = @ \ {"receipt"}]
    /\ UNCHANGED world

\* _trusted_file_bytes: what the receipt names is still there.
Retained(x) == {"payloads", "receipt"} \subseteq x.files

\* _normalize_attested_sources: fetched before it was observed, inside the coverage.
SourcesAttested(x) == x.f >= x.o /\ CoverageEnd(x.rev) >= world.now - x.f

\* _validate_extraction_receipt: complete, and the events are the ones the payloads derive.
Attested(x) == Retained(x) /\ SourcesAttested(x)

\* normalize, then the three exports, one after another; the bundle is read by nobody here.
ExportBundle ==
    /\ proc = "bundle" /\ Attested(disk.tx)
    /\ proc' = "calendar" /\ UNCHANGED <<disk, world>>

ExportCalendar ==
    /\ proc = "calendar" /\ proc' = "information"
    /\ disk' = [disk EXCEPT !.calendar = disk.tx]
    /\ UNCHANGED world

ExportInformation ==
    /\ proc = "information" /\ proc' = "idle"
    /\ disk' = [disk EXCEPT !.information = disk.tx]
    /\ UNCHANGED world

\* A refusal, an exception, or a dead process.
Fail ==
    /\ proc # "idle"
    /\ proc' = "idle" /\ UNCHANGED <<disk, world>>

-----------------------------------------------------------------------------
(* The decision. *)

\* _provenance_sources: a calendar covers the evaluation; a press feed its retrieval.
Provenance(x) == Attested(x) /\ CoverageEnd(x.rev) >= world.now

\* present and source_fresh of _calendar and _information.
Fresh(x) == x.o <= MaxAge /\ x.f <= MaxAge

\* high_impact_event_window_active.
WindowActive(x) ==
    \E t \in Derive(x.rev, Observed(x)) : -After <= t - world.now /\ t - world.now <= Before

\* _evidence_reasons is empty.
EvidenceHolds ==
    /\ Provenance(disk.calendar) /\ Fresh(disk.calendar)
    /\ Attested(disk.information) /\ Fresh(disk.information)

\* evaluate: TRADE needs every piece of evidence, a regime other than "event",
\* and a setup (cost, momentum), which the model leaves open.
MayTrade == EvidenceHolds /\ ~ WindowActive(disk.calendar)

Tick ==
    /\ world.now < MaxTime
    /\ world' = [world EXCEPT !.now = @ + 1, !.age = Older(@)]
    /\ disk' = [d \in DOMAIN disk |-> [disk[d] EXCEPT !.f = Older(@), !.o = Older(@)]]
    /\ UNCHANGED proc

Revise ==
    /\ world.rev = 1
    /\ world' = [world EXCEPT !.rev = 2, !.age = 0]
    /\ UNCHANGED <<disk, proc>>

Next ==
    \/ Fetch \/ RetainPayloads \/ WriteManifest \/ Produce \/ ProduceBundle \/ BundleFails
    \/ ExportBundle \/ ExportCalendar \/ ExportInformation \/ Fail
    \/ Tick \/ Revise

-----------------------------------------------------------------------------
\* The revisions that were official at some time within MaxAge of now.
OfficialLately == { world.rev } \cup (IF world.rev = 2 /\ world.age <= MaxAge THEN {1} ELSE {})

Excluded(off, t) ==
    \/ \E r \in off.releases : r - Before <= t /\ t <= r + After
    \/ \E d \in off.meetings : DayStart(d) <= t /\ t < DayEnd(d)

\* A TRADE is never decided inside the exclusion of a release, nor at any time
\* of a guarded meeting day, that was official for the last MaxAge: the
\* sentinels leave no gap (_all_day_events, _calendar), and a calendar that the
\* capture replaced only in part is either attested and fresh or not used.
NoTradeInEvent ==
    MayTrade => \E rev \in OfficialLately : ~ Excluded(Official(rev), world.now)
=============================================================================
