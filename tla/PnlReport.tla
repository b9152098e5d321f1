----------------------------- MODULE PnlReport -----------------------------
(***************************************************************************)
(* The resident producer of the strategy report and the reader of its last *)
(* snapshot (scripts/hepta_pnl_report.py with hepta_pnl_watch.py,          *)
(* hepta_change_watch.py and hepta_native_reader.py).  The producer keeps  *)
(* the parsed journal and the replayed ledgers in memory: an append that   *)
(* it has verified and that holds only lines without effect on the ledger  *)
(* keeps them, anything else drops them.  While it works the coordinator   *)
(* appends, the journal is rewritten by maintenance, the operator opens a  *)
(* new period, the drivers follow, fills change the broker's position      *)
(* before their line is written, and the clock is set back.                *)
(*                                                                         *)
(* A line of the journal is [kind, at, period]: a fill, a terminal witness *)
(* that takes effect when the clock reaches it, or a line ledger_noop      *)
(* knows.  proc.cache is the parser with its ledger.                       *)
(***************************************************************************)
EXTENDS Integers, Sequences, SequencesExt, FiniteSets

CONSTANTS MaxTime,      \* bound: clock readings
          MaxLines,     \* bound: lines of the journal
          MaxVersion,   \* bound: writes of the journal
          Validity      \* readings for which a report may be shown

VARIABLES disk, proc, world

vars == <<disk, proc, world>>

None == [kind |-> "none"]

\* replay of hepta_pnl_accounting for one period: a fill of the future is an
\* error, a witness of the future is passed over.
Replayed(events, period, at) ==
    LET lines == { i \in DOMAIN events : events[i].period = period }
    IN  [ kind |-> IF \E i \in lines : events[i].kind = "fill" /\ events[i].at > at THEN "refused" ELSE "ledger",
          fills |-> Cardinality({ i \in lines : events[i].kind = "fill" }),
          settled |-> \E i \in lines : events[i].kind = "witness" /\ events[i].at <= at ]

Latest(events) == IF events = <<>> THEN 0
                  ELSE LET i == CHOOSE i \in DOMAIN events : \A j \in DOMAIN events : events[j].at <= events[i].at
                       IN  events[i].at

EmptyCache == [events |-> <<>>, known |-> FALSE, scope |-> 0, clock |-> 0, ledger |-> None]

Init ==
    /\ disk = [journal |-> <<>>, version |-> 0, period |-> 1, driver |-> 1, snapshot |-> None]
    /\ proc = [step |-> "idle", cache |-> EmptyCache, period |-> 0, version |-> 0, seen |-> <<>>]
    /\ world = [now |-> 1, position |-> 0, unwritten |-> 0, rewound |-> FALSE]

-----------------------------------------------------------------------------
(* The rest of the machine. *)

Write(journal) == disk' = [disk EXCEPT !.journal = journal, !.version = @ + 1]

\* The broker fills an order of the period: its position moves at once.
Fill ==
    /\ world.unwritten = 0 /\ Len(disk.journal) < MaxLines /\ disk.version < MaxVersion
    /\ world' = [world EXCEPT !.position = @ + 1, !.unwritten = disk.period]
    /\ UNCHANGED <<disk, proc>>

AppendLine ==
    /\ Len(disk.journal) < MaxLines /\ disk.version < MaxVersion
    /\ \E kind \in {"fill", "witness", "noop"}, skew \in 0..1 :
        /\ kind = "fill" <=> world.unwritten # 0
        /\ Write(Append(disk.journal, [kind |-> kind, at |-> world.now + skew,
                                       period |-> IF kind = "fill" THEN world.unwritten ELSE disk.period]))
        /\ world' = [world EXCEPT !.unwritten = 0]
    /\ UNCHANGED proc

\* Stopped-state maintenance writes a journal without its oldest line.
Rewrite ==
    /\ disk.journal # <<>> /\ disk.version < MaxVersion
    /\ Write(Tail(disk.journal))
    /\ UNCHANGED <<proc, world>>

\* The reset opens a period at a flat position; each driver takes it over later.
NewPeriod ==
    /\ disk.period = 1 /\ world.unwritten = 0
    /\ disk' = [disk EXCEPT !.period = 2]
    /\ world' = [world EXCEPT !.position = 0]
    /\ UNCHANGED proc

DriverFollows ==
    /\ disk.driver # disk.period
    /\ disk' = [disk EXCEPT !.driver = disk.period]
    /\ UNCHANGED <<proc, world>>

Tick ==
    /\ world.now < MaxTime
    /\ world' = [world EXCEPT !.now = @ + 1]
    /\ UNCHANGED <<disk, proc>>

ClockSetBack ==
    /\ world.now > 1 /\ ~world.rewound
    /\ world' = [world EXCEPT !.now = @ - 1, !.rewound = TRUE]
    /\ UNCHANGED <<disk, proc>>

-----------------------------------------------------------------------------
(* IncrementalOMSParser. *)

\* Fault: a terminal witness is taken for a line without effect.
NoopOrWitness(line) == line.kind \in {"noop", "witness"}

LedgerNoop(line) == line.kind = "noop"

\* parse: the same bytes, a verified append, or a rebuild.  A new ledger
\* revision leaves the ledgers without a scope (0).
Parsed(cache, raw) ==
    IF cache.known /\ raw = cache.events THEN cache
    ELSE LET appended == cache.known /\ Len(raw) > Len(cache.events) /\ IsPrefix(cache.events, raw)
             fresh    == SubSeq(raw, Len(cache.events) + 1, Len(raw))
             keeps    == appended /\ \A i \in DOMAIN fresh : LedgerNoop(fresh[i])
         IN  [cache EXCEPT !.events = raw, !.known = TRUE, !.scope = IF keeps THEN @ ELSE 0]

\* _cached_ledger.
CachedLedger(cache, period, at) ==
    LET held  == IF period # cache.scope \/ at < cache.clock THEN None ELSE cache.ledger
        fresh == Replayed(cache.events, period, at)
        keep  == IF Latest(cache.events) > at \/ fresh.kind = "refused" THEN None
                 ELSE IF held = None THEN fresh ELSE held
    IN  [cache EXCEPT !.scope = period, !.clock = at, !.ledger = keep]

LedgerOf(cache, period, at) ==
    LET after == CachedLedger(cache, period, at)
    IN  IF after.ledger = None THEN Replayed(cache.events, period, at) ELSE after.ledger

-----------------------------------------------------------------------------
(* collect and the loop of main. *)

\* The period and the journal, with their fingerprints; the drivers must have
\* taken the period over.
ReadSources ==
    /\ proc.step = "idle" /\ disk.driver = disk.period
    /\ proc' = [proc EXCEPT !.step = "observe", !.cache = Parsed(@, disk.journal),
                            !.period = disk.period, !.version = disk.version, !.seen = <<>>]
    /\ UNCHANGED <<disk, world>>

\* observe: orders and positions, then both again.
ReadPosition ==
    /\ proc.step = "observe" /\ Len(proc.seen) < 2
    /\ proc' = [proc EXCEPT !.seen = Append(@, world.position)]
    /\ UNCHANGED <<disk, world>>

\* The two reads agree and nothing was written meanwhile.
SourcesHold ==
    /\ Len(proc.seen) = 2 /\ proc.seen[1] = proc.seen[2]
    /\ proc.version = disk.version /\ proc.period = disk.period /\ disk.driver = disk.period

\* build_report: complete when the ledger has the broker's position.
BuildReport ==
    /\ proc.step = "observe" /\ SourcesHold
    /\ LET ledger == LedgerOf(proc.cache, proc.period, world.now) IN
        /\ disk' = [disk EXCEPT !.snapshot =
              [ kind |-> "report", period |-> proc.period, version |-> proc.version, at |-> world.now,
                ledger |-> ledger, complete |-> ledger.kind = "ledger" /\ ledger.fills = proc.seen[1] ]]
        /\ proc' = [proc EXCEPT !.step = "idle", !.seen = <<>>, !.period = 0, !.version = 0,
                                !.cache = CachedLedger(@, proc.period, world.now)]
    /\ UNCHANGED world

\* Any refusal: the snapshot says so.
Unavailable ==
    /\ proc.step = "observe" \/ disk.driver # disk.period
    /\ disk' = [disk EXCEPT !.snapshot = None]
    /\ proc' = [proc EXCEPT !.step = "idle", !.seen = <<>>, !.period = 0, !.version = 0]
    /\ UNCHANGED world

Restart ==
    /\ proc.cache.known
    /\ proc' = [step |-> "idle", cache |-> EmptyCache, period |-> 0, version |-> 0, seen |-> <<>>]
    /\ UNCHANGED <<disk, world>>

Next ==
    \/ Fill \/ AppendLine \/ Rewrite \/ NewPeriod \/ DriverFollows \/ Tick \/ ClockSetBack
    \/ ReadSources \/ ReadPosition \/ BuildReport \/ Unavailable \/ Restart

Spec == Init /\ [][Next]_vars

-----------------------------------------------------------------------------
\* cached: what the reader may show of the last snapshot.
Shown ==
    /\ disk.snapshot # None
    /\ disk.snapshot.period = disk.period /\ disk.driver = disk.period
    /\ disk.snapshot.at <= world.now /\ world.now < disk.snapshot.at + Validity
    /\ disk.snapshot.version = disk.version

\* A report that the reader shows is what a replay of the journal on disk, for
\* the period in force and at the time of the report, says: no ledger kept in
\* the producer's memory survives a line that changes it, a rewritten journal,
\* a new period or a clock set back.  If it is complete, it has the position
\* the broker reported.
ShownIsReplay ==
    Shown => /\ disk.snapshot.ledger = Replayed(disk.journal, disk.period, disk.snapshot.at)
             /\ disk.snapshot.complete => disk.snapshot.ledger.kind = "ledger"
=============================================================================
