--------------------------- MODULE SourceArchive ----------------------------
(***************************************************************************)
(* The quote archive of the research lane and its readers.  Collectors     *)
(* append quotes to numbered segments, one segment at a time; an older     *)
(* segment-recovery-live, which sorts after every number, may grow beside  *)
(* them with quotes of any earlier time.  laya_cell/source_archive.py      *)
(* seals ended segments into pages, each followed by a ledger line.  Five  *)
(* readers take less than a full pass over the archive:                    *)
(*   "cache"   verified_sealed_readiness_cache.py: reuses the conclusion   *)
(*             of an earlier pass for sealed segments older than its view; *)
(*   "recent"  resident_recent_source.py: the unsealed segments only;      *)
(*   "range"   resident_recent_source.py: the quotes of an outcome window; *)
(*   "paged"   train_v2/paged_*.py: the ended numbered segments, listed    *)
(*             again at the end;                                           *)
(*   "copy"    paged_crosshost_*.py and independent_frozen_12cell*.py: a   *)
(*             copy made file by file on another host.                     *)
(* A quote is its event time t, its price p and the time k it was known.   *)
(* Hash chains are abstracted to "the bytes are the original ones".        *)
(***************************************************************************)
EXTENDS Naturals, Sequences, FiniteSets, SequencesExt

CONSTANTS
    Readers,       \* the readers to consider
    Feeds,         \* the quote sequences the collectors may record
    Lives,         \* the quote sequences of segment-recovery-live
    PageSize,      \* PAGE_SIZE: ended segments of one page
    Unsealed,      \* UNSEALED_BOUND
    Span,          \* how far back a view of the recent quotes reaches
    From, To,      \* the outcome window of "range", "paged" and "copy"
    MaxSegments,   \* bound: numbered segments
    MaxPasses,     \* bound: passes of the cache, one of the others
    MaxAlter,      \* bound: rewrites of a sealed segment
    MaxTime        \* bound: the clock

VARIABLES disk, proc, world
vars == <<disk, proc, world>>

Live == 0                      \* segment-recovery-live
Sources == 0..MaxSegments

\* end is the time of the END record, 0 before it.
NoSegment == [there |-> FALSE, rows |-> <<>>, end |-> 0, altered |-> FALSE]

\* sorted(feed.glob("segment-*/quotes.jsonl")).
Listing(seg) ==
    LET n == Cardinality({ i \in Sources \ {Live} : seg[i].there })
    IN  [i \in 1..n |-> i] \o (IF seg[Live].there THEN <<Live>> ELSE <<>>)

\* The committed prefix of n quotes that read_source decodes.
RowsUpto(i, n) == { disk.seg[i].rows[j] : j \in 1..n }

-----------------------------------------------------------------------------
(* The collectors.                                                         *)

Open == Cardinality({ i \in Sources \ {Live} : disk.seg[i].there })

\* One producer at a time, under producer.lock, each with a new segment.
SegmentStart ==
    /\ ~world.collecting
    /\ Open < MaxSegments
    /\ disk' = [disk EXCEPT !.seg[Open + 1].there = TRUE]
    /\ world' = [world EXCEPT !.collecting = TRUE]
    /\ UNCHANGED proc

\* append('QUOTE', ...).
Record ==
    /\ world.collecting
    /\ world.fed < Len(world.feed)
    /\ world.feed[world.fed + 1].k = world.now
    /\ disk' = [disk EXCEPT !.seg[Open].rows = Append(@, world.feed[world.fed + 1])]
    /\ world' = [world EXCEPT !.fed = @ + 1]
    /\ UNCHANGED proc

\* append('END', ...).
SegmentEnd ==
    /\ world.collecting
    /\ disk' = [disk EXCEPT !.seg[Open].end = world.now]
    /\ world' = [world EXCEPT !.collecting = FALSE]
    /\ UNCHANGED proc

\* A killed collector leaves its segment without END.
CollectorCrash ==
    /\ world.collecting
    /\ world' = [world EXCEPT !.collecting = FALSE]
    /\ UNCHANGED <<disk, proc>>

LiveAppend ==
    LET n == Len(disk.seg[Live].rows)
    IN  /\ n < Len(world.live)
        /\ world.live[n + 1].k <= world.now
        /\ disk' = [disk EXCEPT !.seg[Live] = [@ EXCEPT !.there = TRUE, !.rows = Append(@, world.live[n + 1])]]
        /\ UNCHANGED <<proc, world>>

\* The clock.  The resident feed starts the next collector at once, and a
\* running collector records the quote of this time.
Tick ==
    /\ world.now < MaxTime
    /\ world.collecting \/ Open = MaxSegments
    /\ world.collecting /\ world.fed < Len(world.feed) => world.feed[world.fed + 1].k > world.now
    /\ world' = [world EXCEPT !.now = @ + 1]
    /\ UNCHANGED <<disk, proc>>

-----------------------------------------------------------------------------
(* The pages and the ledger.                                               *)

\* _page_source_paths, _covered_paths: what the pages speak for.
Covered(pages) == UNION { pages[j].pins \cup pages[j].skipped : j \in DOMAIN pages }
Pinned(pages) == UNION { pages[j].pins : j \in DOMAIN pages }

\* _load_pages and _checkpoint_ledger.
Loadable(d) ==
    /\ ~d.torn
    /\ d.ledger = Len(d.pages)

\* _verify_covered_inventory, and the bound of inventory_index.
Inventory(d, list) ==
    /\ Loadable(d)
    /\ Covered(d.pages) = { list[j] : j \in 1..Cardinality(Covered(d.pages)) }
    /\ Len(list) - Cardinality(Pinned(d.pages)) <= Unsealed

\* verify_prefix of a sealed pin.
Original(i) == disk.seg[i].end # 0 /\ ~disk.seg[i].altered

\* The next PageSize ended segments and the unsealed ones before them; never
\* segment-recovery-live.
NextPage(list, offset) ==
    LET numbered == SelectSeq(SubSeq(list, offset + 1, Len(list)), LAMBDA i : i # Live)
        ended    == SelectSeq(numbered, LAMBDA i : disk.seg[i].end # 0)
        pins     == { ended[j] : j \in 1..PageSize }
    IN  IF Len(ended) < PageSize THEN [pins |-> {}, skipped |-> {}]
        ELSE [pins |-> pins, skipped |-> { i \in 1..Max(pins) : i \notin pins /\ i > offset }]

NoPage == [pins |-> {}, skipped |-> {}]

\* seal under seal.lock, with no orphan page: the prior pages are verified and
\* the next one is chosen.
Seal ==
    LET list == Listing(disk.seg)
    IN  /\ proc.seal = NoPage
        /\ Loadable(disk)
        /\ \A i \in Pinned(disk.pages) : Original(i)
        /\ NextPage(list, Cardinality(Covered(disk.pages))) # NoPage
        /\ Cardinality(NextPage(list, Cardinality(Covered(disk.pages))).skipped) <= Unsealed
        /\ proc' = [proc EXCEPT !.seal = NextPage(list, Cardinality(Covered(disk.pages)))]
        /\ UNCHANGED <<disk, world>>

\* _write_once: page, whole or cut short by a crash.
WritePage ==
    /\ proc.seal # NoPage
    /\ Loadable(disk)
    /\ \/ /\ disk' = [disk EXCEPT !.pages = Append(@, proc.seal)]
          /\ UNCHANGED proc
       \/ /\ disk' = [disk EXCEPT !.torn = TRUE]
          /\ proc' = [proc EXCEPT !.seal = NoPage]
    /\ UNCHANGED world

\* _append_checkpoint: the ledger line, whole or cut short by a crash.
AppendCheckpoint ==
    /\ proc.seal # NoPage
    /\ ~disk.torn
    /\ Len(disk.pages) = disk.ledger + 1
    /\ \/ disk' = [disk EXCEPT !.ledger = @ + 1]
       \/ disk' = [disk EXCEPT !.torn = TRUE]
    /\ proc' = [proc EXCEPT !.seal = NoPage]
    /\ UNCHANGED world

SealCrash ==
    /\ proc.seal # NoPage
    /\ proc' = [proc EXCEPT !.seal = NoPage]
    /\ UNCHANGED <<disk, world>>

\* _recover_complete_orphan: a whole page whose ledger line was lost.
RecoverOrphan ==
    LET list == Listing(disk.seg)
    IN  /\ proc.seal = NoPage
        /\ ~disk.torn
        /\ Len(disk.pages) = disk.ledger + 1
        /\ \A i \in Pinned(disk.pages) : Original(i)
        /\ Covered(disk.pages) = { list[j] : j \in 1..Cardinality(Covered(disk.pages)) }
        /\ disk' = [disk EXCEPT !.ledger = @ + 1]
        /\ UNCHANGED <<proc, world>>

\* The bytes of a sealed segment are changed under the readers.
Alter ==
    /\ world.reader = "cache"
    /\ world.altered < MaxAlter
    /\ \E i \in Pinned(disk.pages) :
          /\ ~disk.seg[i].altered
          /\ disk' = [disk EXCEPT !.seg[i].altered = TRUE]
    /\ world' = [world EXCEPT !.altered = @ + 1, !.event = TRUE]
    /\ UNCHANGED proc

-----------------------------------------------------------------------------
(* What a full pass over the same bytes says.                              *)

Visible(S, now) == { r \in S : r.k <= now }
Conflict(S) == \E r \in S : \E q \in S : r.t = q.t /\ r.p # q.p
\* The earliest known quote of each event time.
Merge(S) == { r \in S : \A q \in S : q.t = r.t => r.k <= q.k }

\* _ReadinessQuoteWindow.rows: the recent quotes, else the latest older one.
WindowRows(S, earliest) ==
    LET recent == { r \in Merge(S) : r.t >= earliest }
    IN  IF recent # {} THEN recent
        ELSE { r \in Merge(S) : \A q \in S : q.t <= r.t }

\* read_original_quote_range: the window and the first quote after it.
RangeRows(S) ==
    LET later == { r.t : r \in { q \in S : q.t > To } }
    IN  { r \in S : \/ r.t \in From..To
                    \/ r.t \in later /\ \A t \in later : r.t <= t }

-----------------------------------------------------------------------------
(* A pass of the reader, one segment at a time.                            *)

NoHistory == [sealed |-> {}, retired |-> {}, latest |-> 0, asof |-> 0, earliest |-> 0,
              read |-> [i \in {} |-> 0]]
NoPass == [pc |-> "idle", now |-> 0, list |-> <<>>, sealed |-> {}, read |-> [i \in {} |-> 0], whole |-> {},
           force |-> TRUE, reuse |-> FALSE, wasAltered |-> FALSE, ok |-> FALSE, rows |-> {}]

Earliest(now) == IF now > Span THEN now - Span ELSE 0

\* _reusable_history.
Reusable(h, sealed, now) ==
    /\ h # NoHistory
    /\ h.sealed = sealed
    /\ now >= h.asof
    /\ Earliest(now) >= h.earliest

\* The segments are listed and the ledger is checked; _SealedOriginalProofs.begin
\* forgets its proofs after any change, a new page or the deadline.
Begin(force) ==
    LET list   == Listing(disk.seg)
        sealed == Pinned(disk.pages)
    IN  /\ proc.pass.pc = "idle"
        /\ world.passes < (IF world.reader = "cache" THEN MaxPasses ELSE 1)
        /\ list # <<>>
        /\ world.reader # "copy" => Inventory(disk, list)
        /\ proc' = [proc EXCEPT
              !.pass = [NoPass EXCEPT
                  !.pc = "read", !.now = world.now, !.list = list, !.sealed = sealed,
                  !.force = force \/ world.event \/ proc.proved # sealed,
                  !.reuse = world.reader = "cache" /\ Reusable(proc.history, sealed, world.now),
                  !.wasAltered = ~\A i \in sealed : Original(i)],
              !.proved = IF force \/ world.event \/ @ # sealed THEN {} ELSE @]
        /\ world' = [world EXCEPT !.passes = @ + 1, !.event = FALSE]
        /\ UNCHANGED disk

NextSource == proc.pass.list[Cardinality(DOMAIN proc.pass.read) + 1]

\* _SealedOriginalProofs.verify: the digest again, unless it is still proved.
Proved(i) == (~proc.pass.force /\ i \in proc.proved) \/ Original(i)

\* _sealed_end_timestamp: the END of a sealed segment bounds its quotes.
EndTime(i) == disk.seg[i].end

\* _summary: the quotes of source i at or before the boundary of the retired
\* history, as read up to n.
Overlap(i, n, cut) == { r \in RowsUpto(i, n) : r.t <= cut }

\* An unsealed source says something about the retired time that the kept
\* conclusion has not seen: it is new, or it grew there, or what it said was
\* not yet known.
OverlapNew(h, i, n) ==
    /\ Overlap(i, n, h.latest) # {}
    /\ ~(/\ i \in DOMAIN h.read
         /\ Overlap(i, n, h.latest) = Overlap(i, h.read[i], h.latest)
         /\ \A r \in Overlap(i, n, h.latest) : r.k <= h.asof)

\* One source: a retired one is only verified, the others are parsed.
ReadSource ==
    LET i == NextSource
        n == Len(disk.seg[i].rows)
    IN  /\ proc.pass.pc = "read"
        /\ Len(proc.pass.list) > Cardinality(DOMAIN proc.pass.read)
        /\ (world.reader = "cache" /\ i \in proc.pass.sealed) => Proved(i)
        /\ ~(proc.pass.reuse /\ i \notin proc.history.retired /\ OverlapNew(proc.history, i, n))
        /\ proc' = [proc EXCEPT 
              !.pass.read = [j \in DOMAIN @ \cup {i} |-> IF j = i THEN n ELSE @[j]],
              !.pass.whole = IF disk.seg[i].end # 0 /\ ~disk.seg[i].altered THEN @ \cup {i} ELSE @]
        /\ UNCHANGED <<disk, world>>

\* The kept conclusion is dropped and the pass begins again without it.
Fallback ==
    LET i == NextSource
    IN  /\ proc.pass.pc = "read"
        /\ proc.pass.reuse
        /\ Len(proc.pass.list) > Cardinality(DOMAIN proc.pass.read)
        /\ i \notin proc.history.retired
        /\ OverlapNew(proc.history, i, Len(disk.seg[i].rows))
        /\ Inventory(disk, Listing(disk.seg))
        /\ proc' = [proc EXCEPT
              !.history = NoHistory,
              !.pass = [@ EXCEPT !.read = [j \in {} |-> 0], !.reuse = FALSE,
                                 !.list = Listing(disk.seg), !.sealed = Pinned(disk.pages),
                                 !.wasAltered = ~\A j \in Pinned(disk.pages) : Original(j)],
              !.proved = {}]
        /\ UNCHANGED <<disk, world>>

\* The caller takes the answer.
Take ==
    /\ proc.pass.pc = "done"
    /\ proc' = [proc EXCEPT !.pass = NoPass]
    /\ UNCHANGED <<disk, world>>

\* Any check that fails ends the pass without an answer.
Refuse ==
    /\ proc.pass.pc = "read"
    /\ proc' = [proc EXCEPT !.pass = NoPass, !.proved = {}]
    /\ UNCHANGED <<disk, world>>

AllRead == proc.pass.pc = "read" /\ Len(proc.pass.list) = Cardinality(DOMAIN proc.pass.read)

Parsed(S) == UNION { RowsUpto(i, proc.pass.read[i]) : i \in S }
Answer(rows) == [NoPass EXCEPT !.pc = "done", !.now = proc.pass.now, !.list = proc.pass.list,
                    !.sealed = proc.pass.sealed, !.read = proc.pass.read, !.whole = proc.pass.whole,
                    !.wasAltered = proc.pass.wasAltered, !.ok = TRUE, !.rows = rows]

\* _retired_sources: wholly older than the view, and known.
Retired(now) ==
    { i \in proc.pass.sealed :
        \A r \in RowsUpto(i, proc.pass.read[i]) : r.t < Earliest(now) /\ r.k <= now }

\* _commit_history.
Committed ==
    LET p    == proc.pass
        old  == proc.history
        gone == IF p.reuse THEN old.retired ELSE Retired(p.now)
        rows == Parsed(gone)
    IN  IF gone = {} THEN NoHistory
        ELSE [sealed |-> p.sealed, retired |-> gone,
              latest |-> IF p.reuse THEN old.latest ELSE IF rows = {} THEN 0 ELSE Max({ r.t : r \in rows }),
              asof |-> p.now, earliest |-> Earliest(p.now), read |-> p.read]

\* What the cache merges: every parsed source, and of the retired ones only the
\* latest quote.
CacheRows ==
    LET p     == proc.pass
        gone  == IF p.reuse THEN proc.history.retired ELSE {}
        bound == { r \in Parsed(gone) : r.t = proc.history.latest }
    IN  Visible(Parsed(DOMAIN p.read \ gone) \cup bound, p.now)

\* VerifiedSealedReadinessCache.read_quotes; the proofs hold only if nothing
\* changed during the pass.
FinishCache ==
    /\ world.reader = "cache"
    /\ AllRead
    /\ ~world.event
    /\ ~Conflict(CacheRows)
    /\ proc' = [proc EXCEPT !.pass = Answer(WindowRows(CacheRows, Earliest(proc.pass.now))),
                            !.history = Committed,
                            !.proved = proc.pass.sealed]
    /\ UNCHANGED <<disk, world>>

\* _archive_unchanged.
ArchiveUnchanged ==
    /\ Listing(disk.seg) = proc.pass.list
    /\ Inventory(disk, proc.pass.list)
    /\ Pinned(disk.pages) = proc.pass.sealed
    /\ \A i \in proc.pass.sealed : Original(i)

\* read_recent_original_quotes: sealed segments are skipped when they ended
\* before the view.
FinishRecent ==
    LET p   == proc.pass
        S   == Visible(Parsed(DOMAIN p.read \ p.sealed), p.now)
        cut == Earliest(p.now)
    IN  /\ world.reader = "recent"
        /\ AllRead
        /\ S # {}
        /\ (\E r \in S : r.t <= cut) = TRUE
        /\ ~Conflict(S)
        /\ \A i \in p.sealed : EndTime(i) < cut
        /\ ArchiveUnchanged
        /\ proc' = [proc EXCEPT !.pass = Answer({ r \in Merge(S) : r.t >= cut })]
        /\ UNCHANGED <<disk, world>>

\* read_original_quote_range.
FinishRange ==
    LET p == proc.pass
        S == Visible(Parsed({ i \in DOMAIN p.read : ~(i \in p.sealed /\ EndTime(i) < From) }), p.now)
    IN  /\ world.reader = "range"
        /\ AllRead
        /\ To <= p.now
        /\ ~Conflict(RangeRows(S))
        /\ ArchiveUnchanged
        /\ proc' = [proc EXCEPT !.pass = Answer(Merge(RangeRows(S)))]
        /\ UNCHANGED <<disk, world>>

Numbered(list) == { list[j] : j \in DOMAIN list } \ {Live}

\* verify_three_windows_once: every numbered segment but the newest has ended,
\* and the listing is the same at the end.
FinishPaged ==
    LET p   == proc.pass
        all == Numbered(p.list)
        S   == Visible(Parsed(all \cap p.whole), p.now)
    IN  /\ world.reader = "paged"
        /\ AllRead
        /\ \A i \in all : i \in p.whole \/ \A j \in all : j <= i
        /\ ~Conflict(S)
        /\ ArchiveUnchanged
        /\ proc' = [proc EXCEPT !.pass = Answer(Merge(RangeRows(S)))]
        /\ UNCHANGED <<disk, world>>

\* Fault: a segment that was still open when it was copied is accepted.
CopyWholeLoose(p) == Pinned(disk.pages) \subseteq p.whole

\* original_segment: every copied segment is complete and ended.
CopyWhole(p) == Numbered(p.list) \subseteq p.whole

\* copied_original_inventory: the pages copied last speak for exactly the first
\* copied segments, in order and without a gap.
CopyPages(p) ==
    /\ Loadable(disk)
    /\ Pinned(disk.pages) = Covered(disk.pages)
    /\ Pinned(disk.pages) \subseteq Numbered(p.list)

FinishCopy ==
    LET p == proc.pass
        S == Parsed(Numbered(p.list))
    IN  /\ world.reader = "copy"
        /\ AllRead
        /\ CopyWhole(p)
        /\ CopyPages(p)
        /\ ~Conflict(S)
        /\ proc' = [proc EXCEPT !.pass = Answer(Merge(RangeRows(S)))]
        /\ UNCHANGED <<disk, world>>

-----------------------------------------------------------------------------
Init ==
    /\ disk = [seg |-> [i \in Sources |-> NoSegment], pages |-> <<>>, ledger |-> 0, torn |-> FALSE]
    /\ proc = [seal |-> NoPage, pass |-> NoPass, history |-> NoHistory, proved |-> {}]
    /\ \E r \in Readers : \E f \in Feeds : \E l \in Lives :
          world = [reader |-> r, feed |-> f, live |-> l, fed |-> 0, collecting |-> FALSE, now |-> 1,
                   passes |-> 0, altered |-> 0, event |-> FALSE]

\* A step between the answer and its use changes neither.
Step ==
    \/ SegmentStart \/ Record \/ SegmentEnd \/ CollectorCrash \/ LiveAppend \/ Tick
    \/ Seal \/ WritePage \/ AppendCheckpoint \/ SealCrash \/ RecoverOrphan \/ Alter
    \/ (\E force \in BOOLEAN : Begin(force)) \/ ReadSource \/ Fallback \/ Refuse
    \/ FinishCache \/ FinishRecent \/ FinishRange \/ FinishPaged \/ FinishCopy

\* A torn page or ledger line is never repaired and answers nobody.
Next == Take \/ (proc.pass.pc # "done" /\ ~disk.torn /\ Step)

Spec == Init /\ [][Next]_vars

-----------------------------------------------------------------------------
\* An answer is what a full pass over the same committed bytes says, whatever
\* was skipped: the cache reports a conflict between any two segments it was
\* shown, and its quotes are those of the complete merge, also when it reuses
\* an earlier conclusion while segments grow, end, are sealed or appear with
\* older quotes; the recent and the range reader lose no quote of their window
\* in the sealed segments they skip; the paged reader and the copy answer from
\* the finished segments only; and no answer rests on a sealed segment whose
\* bytes had changed before the pass (verified_sealed_readiness_cache.py,
\* resident_recent_source.py, paged_batch_original.py, paged_crosshost_*.py).
ViewFaithful ==
    proc.pass.pc = "done" =>
        LET p    == proc.pass
            all  == Visible(Parsed(DOMAIN p.read), p.now)
            done == UNION { { disk.seg[i].rows[j] : j \in DOMAIN disk.seg[i].rows } :
                            i \in Numbered(p.list) \cap p.whole }
        IN  /\ ~p.wasAltered
            /\ world.reader = "cache" => ~Conflict(all) /\ p.rows = WindowRows(all, Earliest(p.now))
            /\ world.reader = "recent" =>
                   p.rows = { r \in Merge(all) : r.t >= Earliest(p.now) }
            /\ world.reader = "range" => p.rows = Merge(RangeRows(all))
            /\ world.reader = "paged" => p.rows = Merge(RangeRows(Visible(done, p.now)))
            /\ world.reader = "copy" => p.rows = Merge(RangeRows(done))
=============================================================================
