------------------------- MODULE ResidentEvaluation -------------------------
(***************************************************************************)
(* The independent evaluator of one registered forward trial:              *)
(* laya_cell/resident_evaluate.py with its worker (resident_predict.py),   *)
(* its rule (promotion.py, promotion_power.py), the operator's stop        *)
(* (resident_trial_stop.py) and the closeout of a plan of an older version *)
(* (resident_retained_closeout.py).                                        *)
(*                                                                         *)
(* The plan fixes Slots future windows.  A step of the evaluator reaps its *)
(* workers, reads the clock once, visits the slots, and assesses the plan  *)
(* with a second reading of the clock; a worker predicts one slot.  Every  *)
(* record is written once.  The clock moves between any two of these       *)
(* steps, and the evaluator and its workers may die at any of them.        *)
(* Prices are left out: a measured slot is a win, a loss or a tie, or it   *)
(* is censored.  Only the power-planned rule is modelled.                  *)
(***************************************************************************)
EXTENDS Integers, FiniteSets, FiniteSetsExt, Sequences, SequencesExt

CONSTANTS
    Slots,         \* slots of the plan; planned_rule: MinObserved + MaxCensored
    MinObserved,   \* min_observed and min_non_ties
    MaxCensored,
    Odds,          \* 20 t (t + 1): the trial's share of the alpha budget, inverted
    Spacing, Horizon, Grace, Prewarm, Budget,   \* times of the rule, scaled
    MaxTime        \* bound: the clock

VARIABLES disk, proc, world
vars == <<disk, proc, world>>

Slot == 1..Slots
Never == -1
Opens(s) == Prewarm + (s - 1) * Spacing
Ends(s) == Opens(s) + Grace
OutcomeEnd == Ends(Slots) + Horizon
InWindow(s, t) == Opens(s) - Prewarm <= t /\ t <= Ends(s)

Off == [at |-> "off", now |-> 0, todo |-> <<>>, tasks |-> {}, route |-> FALSE, closeout |-> FALSE]
NoWorker == [at |-> "none", since |-> 0]

Init ==
    /\ disk = [ input |-> [s \in Slot |-> Never], prediction |-> {},
                published |-> [s \in Slot |-> "no"], failure |-> {},
                suppression |-> [s \in Slot |-> {}], outcome |-> [s \in Slot |-> "none"],
                verdict |-> "none", stop |-> FALSE ]
    /\ proc = Off
    /\ world = [ now |-> 0, worker |-> [s \in Slot |-> NoWorker] ]

Live(s) == world.worker[s].at \notin {"none", "exited"}
Due(s) == disk.input[s] + Horizon
Idle == proc' = [proc EXCEPT !.at = "idle", !.now = 0, !.todo = <<>>, !.closeout = FALSE]
Next1 == proc' = [proc EXCEPT !.todo = Tail(@)]

-----------------------------------------------------------------------------
(* The rule: what the recorded outcomes can still become. *)

Observed == {"win", "loss", "tie"}
Censored == {"failed", "missed", "suppressed", "unmeasured"}
With(outcomes, S) == { s \in S : disk.outcome[s] \in outcomes }

\* _non_tie_budget: every slot that is not known to be lost may still be a win.
MaxNonTies(S) == Slots - Cardinality(With(Censored, S)) - Cardinality(With({"tie"}, S))

\* Fault: a trial that has used its allowance of censored slots is given up.
FutileAtLimit(S) ==
    \/ Cardinality(With(Censored, S)) >= MaxCensored
    \/ MaxNonTies(S) < MinObserved
\* suppress_new_work_for_frozen_failure on the outcomes of the slots S.
Futile(S) ==
    \/ Cardinality(With(Censored, S)) > MaxCensored
    \/ Slots - Cardinality(With(Censored, S)) < MinObserved
    \/ MaxNonTies(S) < MinObserved

\* The first n members of S, as the sorted file names give them.
FirstOf(S, n) == { s \in S : Cardinality({ u \in S : u < s }) < n }

\* _futility_suppression_receipt: censored slots if there are enough of them,
\* else censored and tied ones; never a slot that was itself suppressed.
Basis ==
    LET censors == FirstOf(With(Censored \ {"suppressed"}, Slot), MaxCensored + 1)
        losses  == FirstOf(With((Censored \ {"suppressed"}) \cup {"tie"}, Slot), Slots - MinObserved + 1)
    IN  IF Cardinality(censors) > MaxCensored THEN censors ELSE losses

\* critical_wins: the fewest wins of n that the sign test accepts.
Choose[n \in 0..Slots, k \in 0..Slots] ==
    IF k = 0 THEN 1 ELSE IF n = 0 THEN 0 ELSE Choose[n - 1, k - 1] + Choose[n - 1, k]
CriticalWins(n) ==
    Min({ n + 1 } \cup { k \in 0..n : Odds * MapThenSumSet(LAMBDA i : Choose[n, i], k..n) <= 2 ^ n })

-----------------------------------------------------------------------------
(* Evaluator.__init__ and main; stop_workers. *)

\* evaluator.lock is also held by every worker of an earlier evaluator.  The
\* configuration may route the plan to its original evaluator.
Start(route) ==
    /\ proc.at = "off" /\ \A s \in Slot : ~Live(s)
    /\ proc' = [Off EXCEPT !.at = "idle", !.route = route]
    /\ UNCHANGED <<disk, world>>

Expired(s) == world.now - world.worker[s].since > Budget

\* Fault: the prediction file is looked up before the worker is gone.
ReapUnwaited(s) ==
    /\ proc.at = "idle" /\ s \in proc.tasks
    /\ ~Live(s) \/ Expired(s)
    /\ proc' = [proc EXCEPT !.tasks = @ \ {s}]
    /\ disk' = [disk EXCEPT !.failure = IF s \in disk.prediction THEN @ ELSE @ \cup {s}]
    /\ UNCHANGED world

\* reap: a worker that exited, or one over its budget, which is killed first.
Reap(s) ==
    /\ proc.at = "idle" /\ s \in proc.tasks
    /\ ~Live(s) \/ Expired(s)
    /\ proc' = [proc EXCEPT !.tasks = @ \ {s}]
    /\ disk' = [disk EXCEPT !.failure = IF s \in disk.prediction THEN @ ELSE @ \cup {s}]
    /\ world' = [world EXCEPT !.worker[s] = NoWorker]

Reaped == \A s \in proc.tasks : Live(s) /\ ~Expired(s)

\* _slot_order: known misses, then due slots, then predicted ones.
Priority(s) ==
    IF disk.outcome[s] # "none" THEN 4
    ELSE IF s \in disk.prediction THEN 2
    ELSE IF s \in disk.failure \/ world.now > Ends(s) THEN 0
    ELSE IF InWindow(s, world.now) THEN 1 ELSE 3
Order ==
    FlattenSeq([p \in 1..5 |-> SelectSeq([i \in Slot |-> i], LAMBDA s : Priority(s) = p - 1)])

Visiting(closeout) ==
    proc' = [proc EXCEPT !.at = "visit", !.now = world.now, !.todo = Order, !.closeout = closeout]

\* The plan is the evaluator's own: no stop, no route.
StepVisits ==
    /\ proc.at = "idle" /\ Reaped
    /\ disk.verdict = "none" /\ ~proc.route /\ ~disk.stop
    /\ Visiting(FALSE)
    /\ UNCHANGED <<disk, world>>

\* run_retained, close_original: the original evaluator in a process without
\* workers, for an operator's stop or a futile plan with nothing left to score.
StepRetained ==
    /\ proc.at = "idle" /\ Reaped
    /\ disk.verdict = "none" /\ proc.route
    /\ disk.stop \/ (Futile(Slot) /\ \A s \in disk.prediction : disk.outcome[s] # "none")
    /\ Visiting(TRUE)
    /\ UNCHANGED <<disk, world>>

\* A closed plan, a stop without a route, and a route that its plan does not
\* allow: nothing is done this time.
StepSkips ==
    /\ proc.at = "idle" /\ Reaped
    /\ \/ disk.verdict # "none"
       \/ ~proc.route /\ disk.stop
       \/ proc.route /\ ~disk.stop /\ (~Futile(Slot) \/ \E s \in disk.prediction : disk.outcome[s] = "none")
    /\ UNCHANGED vars

\* The pinned sources of the plan have changed.
SourceChanged ==
    /\ proc.at = "idle" /\ Reaped /\ disk.verdict = "none" /\ ~proc.route /\ ~disk.stop
    /\ disk' = [disk EXCEPT !.verdict = "REJECTED"]
    /\ Idle
    /\ UNCHANGED world

\* SIGTERM: workers are terminated and reaped.
Stop ==
    /\ proc.at = "idle"
    /\ proc' = Off
    /\ disk' = [disk EXCEPT !.failure = @ \cup (proc.tasks \ disk.prediction)]
    /\ world' = [world EXCEPT !.worker = [s \in Slot |-> IF s \in proc.tasks THEN NoWorker ELSE @[s]]]

-----------------------------------------------------------------------------
(* The visit of one slot. *)

Visits(s) == proc.at = "visit" /\ proc.todo # <<>> /\ Head(proc.todo) = s
Open(s) == Visits(s) /\ disk.outcome[s] = "none" /\ s \notin disk.prediction
Tasks == IF proc.closeout THEN {} ELSE proc.tasks
Decide(s, o) == disk' = [disk EXCEPT !.outcome[s] = o]

VisitFailed(s) ==
    /\ Open(s) /\ s \notin Tasks /\ s \in disk.failure
    /\ Decide(s, "failed") /\ Next1
    /\ UNCHANGED world

\* first_admission_provenance and the suppression receipt say why.
VisitMissed(s) ==
    /\ Open(s) /\ s \notin Tasks /\ s \notin disk.failure /\ proc.now > Ends(s)
    /\ Decide(s, IF disk.suppression[s] # {} THEN "suppressed" ELSE "missed") /\ Next1
    /\ UNCHANGED world

Dispatchable(s) ==
    /\ Open(s) /\ s \notin Tasks /\ s \notin disk.failure
    /\ InWindow(s, proc.now) /\ Cardinality(Tasks) < 2

VisitSuppressed(s) ==
    /\ Dispatchable(s) /\ Futile(Slot)
    /\ InWindow(s, world.now) => Futile(Basis)
    /\ disk' = [disk EXCEPT !.suppression[s] = IF InWindow(s, world.now) /\ @ = {} THEN Basis ELSE @]
    /\ Next1
    /\ UNCHANGED world

\* launch, with inherited_worker_locks.
Launch(s) ==
    /\ Dispatchable(s) /\ ~Futile(Slot) /\ ~proc.closeout
    /\ InWindow(s, world.now)
    /\ proc' = [proc EXCEPT !.todo = Tail(@), !.tasks = @ \cup {s}]
    /\ world' = [world EXCEPT !.worker[s] = [at |-> "started", since |-> world.now]]
    /\ UNCHANGED disk

\* record_admission_deferral: the guard refuses the worker, or the slot has
\* ended meanwhile; the receipt of it decides nothing.  A stopped trial starts
\* no worker either.
Deny(s) ==
    /\ Dispatchable(s) /\ ~Futile(Slot)
    /\ Next1
    /\ UNCHANGED <<disk, world>>

VisitNothing(s) ==
    /\ Visits(s)
    /\ \/ disk.outcome[s] # "none"
       \/ Open(s) /\ s \in Tasks
       \/ Open(s) /\ s \notin disk.failure /\ proc.now <= Ends(s) /\ ~Dispatchable(s)
       \/ disk.outcome[s] = "none" /\ s \in disk.prediction /\ proc.now < Due(s)
    /\ Next1
    /\ UNCHANGED <<disk, world>>

-----------------------------------------------------------------------------
(* measure. *)

Mature(s) ==
    /\ Visits(s) /\ disk.outcome[s] = "none" /\ s \in disk.prediction /\ proc.now >= Due(s)

Lookahead(s) == disk.published[s] = "late"

\* The end of the window has no quote yet, or the publication no record.
MeasureLater(s) ==
    /\ Mature(s) /\ world.now <= Due(s)
    /\ Next1
    /\ UNCHANGED <<disk, world>>

\* No publication record, lookahead, or a gap in the quotes.
MeasureCensored(s) ==
    /\ Mature(s) /\ (disk.published[s] = "no" => world.now > Due(s))
    /\ Decide(s, "unmeasured") /\ Next1
    /\ UNCHANGED world

MeasureObserved(s) ==
    /\ Mature(s) /\ disk.published[s] # "no" /\ ~Lookahead(s)
    /\ \E o \in Observed : Decide(s, o)
    /\ Next1
    /\ UNCHANGED world

-----------------------------------------------------------------------------
(* assess, progress_with_coverage. *)

Qualifies ==
    LET nonTies == Cardinality(With({"win", "loss"}, Slot))
    IN  /\ \A s \in Slot : disk.outcome[s] # "none"
        /\ Cardinality(With(Observed, Slot)) >= MinObserved
        /\ Slots - Cardinality(With(Observed, Slot)) <= MaxCensored
        /\ nonTies >= MinObserved
        /\ Cardinality(With({"win"}, Slot)) >= CriticalWins(nonTies)

AssessPending ==
    /\ proc.at = "visit" /\ proc.todo = <<>> /\ world.now < OutcomeEnd
    /\ Idle
    /\ UNCHANGED <<disk, world>>

\* Mean improvement, outcome variation and hit rate may reject what qualifies.
AssessFinal(verdict) ==
    /\ proc.at = "visit" /\ proc.todo = <<>> /\ world.now >= OutcomeEnd
    /\ verdict = "QUALIFIED" => Qualifies
    /\ disk' = [disk EXCEPT !.verdict = verdict]
    /\ Idle
    /\ UNCHANGED world

-----------------------------------------------------------------------------
(* The prediction worker: predict. *)

Work(s, at) ==
    world' = [world EXCEPT !.worker[s] = [at |-> at, since |-> IF at = "exited" THEN 0 ELSE @.since]]

\* Candidate, base and adapters are verified and loaded before the slot ends.
LoadModel(s) ==
    /\ world.worker[s].at = "started" /\ world.now <= Ends(s)
    /\ Work(s, "ready")
    /\ UNCHANGED <<disk, proc>>

\* forecast_input: a quote of the slot; input-NNN is written once.
SelectInput(s, anchor) ==
    /\ world.worker[s].at = "ready" /\ world.now <= Ends(s)
    /\ Opens(s) <= anchor /\ anchor <= world.now
    /\ disk.input[s] = Never
    /\ disk' = [disk EXCEPT !.input[s] = anchor]
    /\ Work(s, "selected")
    /\ UNCHANGED proc

\* The forward pass and the runtime proof, then the deadline once more.
PublishPrediction(s) ==
    /\ world.worker[s].at = "selected" /\ world.now < Due(s)
    /\ disk' = [disk EXCEPT !.prediction = @ \cup {s}]
    /\ Work(s, "written")
    /\ UNCHANGED proc

RecordPublication(s) ==
    /\ world.worker[s].at = "written"
    /\ disk' = [disk EXCEPT !.published[s] = IF world.now < Due(s) THEN "in time" ELSE "late"]
    /\ Work(s, "exited")
    /\ UNCHANGED proc

\* A missed deadline, a changed artifact, a lost process.
WorkerEnds(s) ==
    /\ Live(s)
    /\ Work(s, "exited")
    /\ UNCHANGED <<disk, proc>>

-----------------------------------------------------------------------------
OperatorStop ==
    /\ ~disk.stop
    /\ disk' = [disk EXCEPT !.stop = TRUE]
    /\ UNCHANGED <<proc, world>>

Crash ==
    /\ proc.at # "off"
    /\ proc' = Off
    /\ UNCHANGED <<disk, world>>

Tick ==
    /\ world.now < MaxTime
    /\ world' = [world EXCEPT !.now = @ + 1]
    /\ UNCHANGED <<disk, proc>>

SlotNext(s) ==
    \/ Reap(s) \/ VisitFailed(s) \/ VisitMissed(s) \/ VisitSuppressed(s) \/ Launch(s) \/ Deny(s)
    \/ VisitNothing(s) \/ MeasureLater(s) \/ MeasureCensored(s) \/ MeasureObserved(s)
    \/ LoadModel(s) \/ (\E a \in 0..MaxTime : SelectInput(s, a)) \/ PublishPrediction(s)
    \/ RecordPublication(s) \/ WorkerEnds(s)

Next ==
    \/ \E s \in Slot : SlotNext(s)
    \/ \E route \in BOOLEAN : Start(route)
    \/ StepVisits \/ StepRetained \/ StepSkips \/ SourceChanged \/ Stop
    \/ AssessPending \/ \E v \in {"QUALIFIED", "REJECTED"} : AssessFinal(v)
    \/ OperatorStop \/ Crash \/ Tick

Spec == Init /\ [][Next]_vars

-----------------------------------------------------------------------------
\* Even if every other slot is won, the outcomes of S leave too few of them.
Hopeless(S) == Slots - Cardinality(With(Censored \cup {"tie"}, S)) < MinObserved

\* What the records of a trial say stays true of it.  A slot closed for want of
\* a prediction never gets one, although workers outlive the slot's end and the
\* evaluator.  A scored slot was predicted inside its window and published
\* before its outcome.  A suppressed launch rests on outcomes that alone make
\* the trial impossible to qualify, and every futile trial has such a basis, so
\* the evaluator never fails while it writes the receipt; no trial with a
\* suppressed launch qualifies.
OutcomesFounded ==
    /\ \A s \in Slot : disk.outcome[s] \in {"failed", "missed", "suppressed"} => s \notin disk.prediction
    /\ \A s \in With(Observed, Slot) :
          /\ Opens(s) <= disk.input[s] /\ disk.input[s] <= Ends(s)
          /\ disk.published[s] = "in time"
    /\ \A s \in Slot : disk.suppression[s] # {} => Hopeless(disk.suppression[s])
    /\ Hopeless(Slot) => Hopeless(Basis)
    /\ (disk.verdict = "QUALIFIED" \/ Qualifies) => \A s \in Slot : disk.suppression[s] = {}

\* resident_evaluate.py: "A snapshot collected before a long GPU call must never
\* decide maturity."  Maturity is decided by the clock of the step's start and
\* the verdict by a later one: a published prediction can be left unscored.
ScoredBeforeVerdict ==
    proc.at = "visit" /\ proc.todo = <<>> /\ world.now >= OutcomeEnd =>
        \A s \in disk.prediction : disk.outcome[s] # "none"
=============================================================================
