----------------------------- MODULE CostReplay -----------------------------
(***************************************************************************)
(* The cost-aware research pipeline: the read-only observer                *)
(* (hepta_cost_observer.py) whose main thread polls quotes while a model   *)
(* thread produces forecasts (hepta_cost_driver.py), the append-only       *)
(* capture both write (hepta_cost_capture.py), the replay of the capture   *)
(* through independent position paths (hepta_cost_replay.py with the       *)
(* rules of hepta_cost_policy.py), and the preregistered out-of-sample     *)
(* plan (hepta_cost_oos.py).  Every assessment is computed from the        *)
(* capture as it stands when the tool runs; the observer keeps appending   *)
(* between two runs.                                                       *)
(*                                                                         *)
(* Prices are small integers, a position is -1, 0 or 1 unit, and spread,   *)
(* slippage and commission of one side are one number, doubled in the      *)
(* stressed case.  Hashes are the values they hash.  Drawdown and turnover *)
(* budgets, confidence and the day count of a cohort are left out.         *)
(***************************************************************************)
EXTENDS Integers, FiniteSets, SequencesExt

CONSTANTS
    PricePaths,   \* mid prices of the market by time: a set of sequences from time 0 on
    Actions,      \* directions the model answers
    Move,         \* the move a forecast predicts, in price units
    Side,         \* cost of one side of a trade
    QuoteTtl,     \* quote_ttl_ms
    EntryTtl,     \* forecast_entry_ttl_ms
    Horizon,      \* horizon_sec of a forecast
    Gap,          \* longest gap between two marks of an observed path
    Cutoff,       \* training_end_ms of the plan
    FitCutoff,    \* fit_cutoff_ms of a local calibration
    Start,        \* decision_start_ms
    DecisionEnd,  \* decision_end_ms
    OutcomeEnd,   \* outcome_end_ms
    MaxTime,      \* bound: the clock
    MaxForecasts, \* bound: forecasts requested
    MaxStarts     \* bound: starts of the observer

VARIABLES disk, proc, world

vars == <<disk, proc, world>>

NoQuote    == [observed |-> -1, mid |-> 0]
NoForecast == [action |-> "NONE", issued |-> -1, ref |-> 0, known |-> -1]
NoPlan     == [registered |-> -1, prefix |-> <<>>]
NoArtifact == [completed |-> -1, samples |-> {}]

\* One record of the capture.
Event(at, kind, quote, forecast) ==
    [at |-> at, kind |-> kind, quote |-> quote, forecast |-> forecast]

\* The observer is down; the operator uses one of the two assessments.
Init ==
    /\ disk = [capture |-> <<>>, torn |-> FALSE, plan |-> NoPlan, reports |-> {}, artifact |-> NoArtifact]
    /\ proc = [up |-> FALSE, polled |-> 0, history |-> NoQuote, worker |-> NoForecast]
    /\ \E prices \in PricePaths, t \in {"oos", "local"} :
          world = [now |-> 0, prices |-> prices, feed |-> [observed |-> 0, mid |-> prices[1]], asked |-> 0, starts |-> 0, tool |-> t]

-----------------------------------------------------------------------------
(* The rules of the policy. *)

\* quote_values: the quote is no newer than the clock and no older than its ttl.
Fresh(q, at) == q.observed >= 0 /\ q.observed <= at /\ at <= q.observed + QuoteTtl

Sign(action) == IF action = "BUY" THEN 1 ELSE IF action = "SELL" THEN -1 ELSE 0

\* commission, and the touch and slippage of estimate_round_trip, for one side.
CostOf(stress) == Side * stress

\* expected_round_trip: what is left of the predicted move at the current mid,
\* after a haircut and the cost of both sides.
NetEdge(f, mid, haircut, stress) ==
    (f.ref + Sign(f.action) * (Move - haircut) - mid) * Sign(f.action) - 2 * CostOf(stress)

\* The price at which the forecast is void (validate_forecast).
Invalidation(f) == f.ref - Sign(f.action)

Invalidated(f, mid) == (mid - Invalidation(f)) * Sign(f.action) <= 0

\* The checks entry_admission and remote_entry_admission share.
EntryOpen(f, q, at) ==
    /\ f.action # "HOLD"
    /\ Fresh(q, at)
    /\ at >= f.issued /\ at - f.issued <= EntryTtl
    /\ ~Invalidated(f, q.mid)

\* remote_entry_admission.
RemoteEntry(f, q, at, stress) == EntryOpen(f, q, at) /\ NetEdge(f, q.mid, 0, stress) > 0

\* calibrated_move: an artifact completed before the forecast was issued whose
\* cohort has a sample; the haircut is the worst overprediction of the cohort.
Cohort(a, f) == { s \in a.samples : s.action = f.action }

Haircut(a, f) ==
    LET over == { Move - s.moved : s \in Cohort(a, f) }
    IN  CHOOSE h \in over \cup {0} : h >= 0 /\ \A o \in over : o <= h

\* entry_admission.
CalibratedEntry(f, q, at, a, stress) ==
    /\ EntryOpen(f, q, at)
    /\ a.completed < f.issued
    /\ Cohort(a, f) # {}
    /\ NetEdge(f, q.mid, Haircut(a, f), stress) > 0

\* risk_exit: the position moved against its entry, its forecast is void, or
\* its horizon is over.
RiskExit(p, q, at) ==
    /\ p.qty # 0
    /\ \/ (q.mid - p.entry) * p.qty < 0
       \/ Invalidated(p.fc, q.mid)
       \/ at >= p.fc.issued + Horizon

\* remote_discretionary_exit and discretionary_exit: a reversal has to pay for
\* the exit.
ReversalExit(p, f, q, at, a, gate, stress) ==
    /\ f.action = (IF p.qty > 0 THEN "SELL" ELSE "BUY")
    /\ Fresh(q, at) /\ at - f.issued <= EntryTtl
    /\ gate = "calibrated" => a.completed < f.issued /\ Cohort(a, f) # {}
    /\ LET cut == IF gate = "calibrated" THEN Haircut(a, f) ELSE 0
       IN  (f.ref + Sign(f.action) * (Move - cut) - q.mid) * Sign(f.action) > CostOf(stress)

-----------------------------------------------------------------------------
(* From the capture to a tape. *)

\* Rows carry the quote they are evaluated with.
Row(at, q, f) == [at |-> at, quote |-> q, forecast |-> f]

\* A completed forecast waits for a fresh observed quote.
Evaluated(pending, q, at) == [i \in DOMAIN pending |-> Row(at, q, pending[i])]

TapeStep(t, e) ==
    CASE e.kind = "QUOTE" ->
            LET run == IF Fresh(e.quote, e.at) THEN Evaluated(t.pending, e.quote, e.at) ELSE <<>>
            IN  [t EXCEPT !.quote = e.quote,
                          !.rows = @ \o <<Row(e.at, e.quote, NoForecast)>> \o run,
                          !.pending = IF Fresh(e.quote, e.at) THEN <<>> ELSE @]
      [] e.kind = "CANDIDATE" ->
            LET f == [e.forecast EXCEPT !.known = e.at]
            IN  IF Fresh(t.quote, e.at) THEN [t EXCEPT !.rows = Append(@, Row(e.at, t.quote, f))]
                ELSE [t EXCEPT !.pending = Append(@, f)]
      [] OTHER -> t

\* capture_to_tape: what still waits at the end is kept as a row of the last event.
Tape(capture) ==
    LET upto[i \in 0..Len(capture)] ==
            IF i = 0 THEN [rows |-> <<>>, quote |-> NoQuote, pending |-> <<>>]
            ELSE LET t == upto[i - 1] IN TapeStep(t, capture[i])
        t == upto[Len(capture)]
    IN  t.rows \o Evaluated(t.pending, t.quote, Last(capture).at)

Candidates(capture) == SelectSeq(capture, LAMBDA e : e.kind = "CANDIDATE")

\* capture_to_tape refuses a forecast captured twice or before any quote.
TapeReadable(capture) ==
    /\ \E i \in DOMAIN capture : capture[i].kind = "QUOTE"
    /\ \A i, j \in DOMAIN Candidates(capture) :
           Candidates(capture)[i].forecast = Candidates(capture)[j].forecast => i = j
    /\ \A i \in DOMAIN capture :
           capture[i].kind = "CANDIDATE" => \E j \in 1..(i - 1) : capture[j].kind = "QUOTE"

\* validate_tape.
TapeValid(rows) ==
    /\ rows # <<>>
    /\ \A i \in 1..(Len(rows) - 1) : rows[i].at <= rows[i + 1].at
    /\ \A i \in DOMAIN rows : rows[i].forecast # NoForecast =>
           rows[i].forecast.issued <= rows[i].forecast.known /\ rows[i].forecast.known <= rows[i].at

-----------------------------------------------------------------------------
(* Outcomes of the candidates. *)

\* Source quotes usable on the tape, with the first time each was known.
Sources(rows) ==
    { i \in DOMAIN rows :
        /\ Fresh(rows[i].quote, rows[i].at)
        /\ \A j \in 1..(i - 1) : rows[j].quote.observed = rows[i].quote.observed
                                    => ~Fresh(rows[j].quote, rows[j].at) }

\* candidate_outcomes for one forecast: the first source quote at or after the
\* target, within its ttl, when the anchor and every gap up to it are observed.
Outcome(rows, f) ==
    LET src   == Sources(rows)
        due   == f.issued + Horizon
        at(i) == rows[i].quote.observed
        ends  == { i \in src : at(i) >= due /\ \A j \in src : at(j) >= due => at(i) <= at(j) }
        mids  == { i \in src : at(i) >= f.issued /\ \A e \in ends : at(i) <= at(e) }
        gapless == \A i \in mids : \/ i \in ends
                                   \/ \E j \in mids : at(j) > at(i) /\ at(j) - at(i) <= Gap
        anchored == \E i \in mids : at(i) = f.issued /\ rows[i].quote.mid = f.ref
    IN  { [action |-> f.action, issued |-> f.issued, known |-> f.known,
           seen |-> at(e), available |-> rows[e].at,
           moved |-> (rows[e].quote.mid - f.ref) * Sign(f.action)] :
           e \in { x \in ends : at(x) <= due + QuoteTtl /\ anchored /\ gapless } }

Forecasts(rows) == { rows[i].forecast : i \in { k \in DOMAIN rows : rows[k].forecast # NoForecast } }

\* An outcome is known when the row that brought it was recorded.
KnownBefore(o, cutoff) == o.available < cutoff

\* fit_from_tape and build_calibration: past, timely, directional outcomes.
Fit(rows, cutoff) ==
    [completed |-> cutoff,
     samples |-> { o \in UNION { Outcome(rows, f) : f \in Forecasts(rows) } :
                     /\ o.action # "HOLD"
                     /\ KnownBefore(o, cutoff)
                     /\ o.known - o.issued <= EntryTtl
                     /\ o.known < o.seen }]

-----------------------------------------------------------------------------
(* The position paths. *)

NoPosition == [qty |-> 0, entry |-> 0, fc |-> NoForecast, cash |-> 0, exit |-> -1, last |-> -1,
               whole |-> TRUE, net |-> 0, opens |-> {}, trips |-> 0]

Open(p, f, q, at, stress) ==
    [p EXCEPT !.qty = Sign(f.action), !.entry = q.mid, !.fc = f,
              !.cash = @ - Sign(f.action) * q.mid - CostOf(stress),
              !.opens = @ \cup { [at |-> at, observed |-> q.observed,
                                  issued |-> f.issued, known |-> f.known] }]

Close(p, q, at, stress) ==
    [p EXCEPT !.qty = 0, !.entry = 0, !.fc = NoForecast, !.exit = at, !.trips = @ + 1,
              !.cash = @ + p.qty * q.mid - CostOf(stress)]

\* PathState.step, where name is the path, gate the kind of admission and a the
\* calibration a calibrated gate uses.
Decide(p, row, name, gate, a, stress) ==
    LET f == row.forecast
        q == row.quote
        admitted == CASE name = "DIRECTION_BASELINE" -> TRUE
                      [] gate = "remote" -> RemoteEntry(f, q, row.at, stress)
                      [] OTHER -> CalibratedEntry(f, q, row.at, a, stress)
        rested == name = "COST_GATE_BAND" /\ p.exit >= 0 => row.at > p.exit + 1
    IN  IF f = NoForecast \/ row.at - f.issued > EntryTtl THEN p
        ELSE IF p.qty # 0
        THEN IF \/ name = "COST_GATE_BAND" /\ ReversalExit(p, f, q, row.at, a, gate, stress)
                \/ name # "COST_GATE_BAND" /\ Sign(f.action) = -p.qty
             THEN Close(p, q, row.at, stress) ELSE p
        ELSE IF f.action # "HOLD" /\ admitted /\ rested THEN Open(p, f, q, row.at, stress) ELSE p

PathStep(p, row, name, gate, a, stress) ==
    LET gap  == p.qty # 0 /\ row.at - p.last > Gap
        base == [p EXCEPT !.last = row.at, !.whole = @ /\ ~gap]
    IN  IF ~Fresh(row.quote, row.at) THEN [base EXCEPT !.whole = @ /\ p.qty = 0]
        ELSE LET q    == row.quote
                 done == IF RiskExit(base, q, row.at) THEN Close(base, q, row.at, stress)
                         ELSE Decide(base, row, name, gate, a, stress)
             IN  [done EXCEPT !.net = done.cash + done.qty * q.mid
                                        - (IF done.qty = 0 THEN 0 ELSE CostOf(stress))]

Path(rows, name, gate, a, stress) ==
    LET upto[i \in 0..Len(rows)] ==
            IF i = 0 THEN NoPosition
            ELSE LET p == upto[i - 1] IN PathStep(p, rows[i], name, gate, a, stress)
    IN  upto[Len(rows)]

Names == {"COST_GATE", "COST_GATE_BAND"}

\* compare for the plain and the stressed cost case: three independent paths each.
Paths(rows, gate, a) ==
    [n \in Names \cup {"DIRECTION_BASELINE"}, stress \in {1, 2} |-> Path(rows, n, gate, a, stress)]

\* The checks of every cost case on the gated paths against the baseline.
CasesPassed(paths) ==
    \A stress \in {1, 2} :
        LET base == paths["DIRECTION_BASELINE", stress]
        IN  /\ base.whole
            /\ \A n \in Names : LET p == paths[n, stress]
                                IN  p.whole /\ p.trips > 0 /\ p.qty = 0 /\ p.net > 0 /\ p.net >= base.net

Opens(paths) == UNION { paths[k].opens : k \in DOMAIN paths }

-----------------------------------------------------------------------------
(* The two assessments. *)

\* Fault: evidence after the end of the outcome window is replayed too.
RowsFrom(rows, first, last) == SelectSeq(rows, LAMBDA r : r.at >= first)

\* The rows of the window.
RowsWithin(rows, first, last) == SelectSeq(rows, LAMBDA r : r.at >= first /\ r.at <= last)

\* A forecast outside the declared window loses its candidate, not its quote.
Held(rows, first, decided) ==
    [i \in DOMAIN rows |->
        LET f == rows[i].forecast
        IN  IF f.issued < first \/ f.known > decided \/ rows[i].at > decided
            THEN [rows[i] EXCEPT !.forecast = NoForecast] ELSE rows[i]]

Observed(rows) == \A f \in Forecasts(rows) : Outcome(rows, f) # {}

\* chronological_assessment and evaluate_plan: raw forecasts, no training.
EvaluatePlan(capture) ==
    LET tape == Tape(capture)
        held == Held(RowsWithin(tape, Start, OutcomeEnd), Start, DecisionEnd)
        end  == Last(tape).at
        paths == Paths(held, "remote", NoArtifact)
        marked == held # <<>> /\ Fresh(Last(held).quote, OutcomeEnd)
        accepted == /\ Forecasts(held) # {}
                    /\ Observed(held)
                    /\ marked
                    /\ CasesPassed(paths)
    IN  [kind |-> "oos", over |-> end > OutcomeEnd,
         opens |-> Opens(paths),
         status |-> IF accepted THEN "PASS" ELSE "FAIL"]

\* local_training_assessment: one artifact fitted before the cutoff, decisions after it.
LocalTraining(capture) ==
    LET tape == Tape(capture)
        art  == Fit(SelectSeq(tape, LAMBDA r : r.at < FitCutoff), FitCutoff)
        held == Held(SelectSeq(tape, LAMBDA r : r.at > FitCutoff), FitCutoff + 1, DecisionEnd)
        paths == Paths(held, "calibrated", art)
    IN  [kind |-> "local", over |-> FALSE, opens |-> Opens(paths),
         status |-> IF /\ art.samples # {} /\ Forecasts(held) # {} /\ Observed(held)
                       /\ CasesPassed(paths)
                    THEN "PASS" ELSE "FAIL"]

-----------------------------------------------------------------------------
(* The observer. *)

Write(event) == disk' = [disk EXCEPT !.capture = Append(@, event)]

\* The market: a new quote, or none in this interval.  The sampler polls
\* in every interval, and time begins with its first start.
Tick ==
    /\ world.now < MaxTime /\ world.starts > 0
    /\ proc.up => proc.polled = world.now
    /\ \E q \in {world.feed, [observed |-> world.now + 1, mid |-> world.prices[world.now + 2]]} :
          world' = [world EXCEPT !.now = @ + 1, !.feed = q]
    /\ UNCHANGED <<disk, proc>>

\* main and first_authoritative_quote: the capture is opened with a fresh quote,
\* and only when every record of it is readable (Capture.__init__).
StartObserver ==
    /\ ~proc.up /\ world.starts < MaxStarts
    /\ ~disk.torn
    /\ Fresh(world.feed, world.now)
    /\ Write(Event(world.now, "QUOTE", world.feed, NoForecast))
    /\ proc' = [proc EXCEPT !.up = TRUE, !.polled = world.now]
    /\ world' = [world EXCEPT !.starts = @ + 1]

\* Sampler.poll, once in a sampling interval: only_quote records what was read,
\* stale or not; a fresh one is a model feature.  A read that took long shows as
\* a market without a new quote.
Poll ==
    /\ proc.up /\ proc.polled < world.now
    /\ Write(Event(world.now, "QUOTE", world.feed, NoForecast))
    /\ proc' = [proc EXCEPT !.polled = world.now,
                            !.history = IF Fresh(world.feed, world.now) THEN world.feed ELSE @]
    /\ UNCHANGED world

\* A model slot with a fresh quote and no busy worker.
StartForecast ==
    /\ proc.up /\ proc.worker = NoForecast
    /\ Fresh(proc.history, world.now)
    /\ world.asked < MaxForecasts
    /\ \E a \in Actions :
          proc' = [proc EXCEPT !.worker = [action |-> a, issued |-> proc.history.observed,
                                           ref |-> proc.history.mid, known |-> -1]]
    /\ world' = [world EXCEPT !.asked = @ + 1]
    /\ UNCHANGED disk

\* build_model_candidate: the answer is recorded from the model thread.
Candidate ==
    /\ proc.up /\ proc.worker # NoForecast
    /\ Write(Event(world.now, "CANDIDATE", NoQuote, proc.worker))
    /\ proc' = [proc EXCEPT !.worker = NoForecast]
    /\ UNCHANGED world

\* model_decision: no answer, recorded as a failure.
ModelFailure ==
    /\ proc.up /\ proc.worker # NoForecast
    /\ Write(Event(world.now, "MODEL_FAILURE", NoQuote, NoForecast))
    /\ proc' = [proc EXCEPT !.worker = NoForecast]
    /\ UNCHANGED world

\* A stop, a refusal of the lifecycle guard or a crash; a crash may leave part
\* of a record at the end of the file.
StopObserver ==
    /\ proc.up
    /\ \E torn \in BOOLEAN : disk' = [disk EXCEPT !.torn = torn]
    /\ proc' = [up |-> FALSE, polled |-> 0, history |-> NoQuote, worker |-> NoForecast]
    /\ UNCHANGED world

-----------------------------------------------------------------------------
(* The offline tools. *)

Readable == ~disk.torn /\ disk.capture # <<>> /\ TapeReadable(disk.capture) /\ TapeValid(Tape(disk.capture))

\* Fault: a plan may be registered once decisions have begun.
RegisteredInTime(now) == Cutoff <= now

\* make_plan refuses to backdate.
PlanPrecedes(now) == Cutoff <= now /\ now < Start

Register ==
    /\ world.tool = "oos"
    /\ disk.plan = NoPlan
    /\ PlanPrecedes(world.now)
    /\ Readable = TRUE
    /\ Last(disk.capture).at <= Cutoff
    /\ Sources(Tape(disk.capture)) # {}
    /\ disk' = [disk EXCEPT !.plan = [registered |-> world.now, prefix |-> disk.capture]]
    /\ UNCHANGED <<proc, world>>

\* evaluate_plan on the capture of the moment; the registered prefix is bound.
\* Before the end of the outcome window the report is PENDING and decides
\* nothing.
Evaluate ==
    /\ disk.plan # NoPlan
    /\ Last(disk.capture).at >= OutcomeEnd
    /\ Readable = TRUE
    /\ IsPrefix(disk.plan.prefix, disk.capture)
    /\ disk' = [disk EXCEPT !.reports = @ \cup { EvaluatePlan(disk.capture) }]
    /\ UNCHANGED <<proc, world>>

\* The local-training branch of the replay tool.
AssessLocal ==
    /\ world.tool = "local"
    /\ disk.capture # <<>>
    /\ Head(disk.capture).at < FitCutoff /\ Last(disk.capture).at > DecisionEnd
    /\ Readable = TRUE
    /\ disk' = [disk EXCEPT !.reports = @ \cup { LocalTraining(disk.capture) },
                            !.artifact = Fit(SelectSeq(Tape(disk.capture), LAMBDA r : r.at < FitCutoff), FitCutoff)]
    /\ UNCHANGED <<proc, world>>

Next ==
    \/ Tick \/ StartObserver \/ Poll \/ StartForecast \/ Candidate
    \/ ModelFailure \/ StopObserver \/ Register \/ Evaluate \/ AssessLocal

Spec == Init /\ [][Next]_vars

-----------------------------------------------------------------------------
\* No assessment of the capture looks ahead.  An entry of any simulated path
\* uses a forecast that was complete and a quote that was observed and fresh by
\* the time of the entry; an out-of-sample entry comes from a forecast issued
\* after the plan was registered and is decided inside the declared window; a
\* calibrated entry from a forecast issued after the calibration's cutoff,
\* which no sample of it was known after.  And a verdict is final: once the
\* capture has passed the end of the outcome window, whatever the observer
\* appends, later runs of the same plan report the same entries and status.
NoLookAhead ==
    /\ \A r \in disk.reports : \A o \in r.opens :
          /\ o.known <= o.at
          /\ o.observed <= o.at /\ o.at <= o.observed + QuoteTtl
          /\ o.at <= DecisionEnd
          /\ r.kind = "oos" => disk.plan.registered < o.issued
          /\ r.kind = "local" => FitCutoff < o.issued
    /\ \A s \in disk.artifact.samples : s.available < disk.artifact.completed
    /\ \A r, q \in disk.reports :
          r.kind = "oos" /\ q.kind = "oos" /\ r.over /\ q.over
             => r.status = q.status /\ r.opens = q.opens
=============================================================================
