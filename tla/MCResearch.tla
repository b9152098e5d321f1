---------------------------- MODULE MCResearch ----------------------------
(***************************************************************************)
(* The research lane: training, forward trials, evaluation, the advisory   *)
(* to the owner, cost replay and the price-only cohort.  Which of them is  *)
(* modelled is chosen at the start (part); they share no state.            *)
(***************************************************************************)
EXTENDS Integers, Sequences

VARIABLES disk, proc, world, part

Training == INSTANCE ResidentTraining WITH Rows <- {1, 2}, Batch <- 1, MaxJobs <- 2
Trials   == INSTANCE ForwardTrials
            WITH Jobs <- {1, 2}, Enrolled <- {2}, MaxAttempt <- 1, MaxTime <- 5, Open <- 0..4,
                 Validity <- 5, Samples <- 2
Trial    == INSTANCE ResidentEvaluation
            WITH Slots <- 3, MinObserved <- 2, MaxCensored <- 1, Odds <- 4, Spacing <- 3, Horizon <- 2,
                 Grace <- 0, Prewarm <- 1, Budget <- 1, MaxTime <- 8
Advisory == INSTANCE OwnerAdvisory
            WITH Enrollments <- {1, 2}, Controllers <- {"c1", "c2"}, Expires <- 2, MaxVersion <- 2,
                 MaxTime <- 2
Cost     == INSTANCE CostReplay
            WITH PricePaths <- { <<4, 10, 4, 4, 10, 10>> }, Actions <- {"BUY"}, Move <- 5, Side <- 1,
                 QuoteTtl <- 1, EntryTtl <- 2, Horizon <- 1, Gap <- 2, Cutoff <- 1, FitCutoff <- 2,
                 Start <- 2, DecisionEnd <- 3, OutcomeEnd <- 4, MaxTime <- 5, MaxForecasts <- 1,
                 MaxStarts <- 1

\* Feeds that repeat a quote, and that fall silent.
Cohort   == INSTANCE PriceCohort
            WITH Slots <- {0}, Horizons <- {2}, Readers <- {"r1"}, Spacing <- 4, Lead <- 1, MinLead <- 1,
                 Last <- 1, Ttl <- 2, Grace <- 2, EndpointDelay <- 2, Gap <- 2, Lookback <- 2, Timeout <- 1,
                 Margin <- 5, MaxTime <- 7, MaxSegments <- 2,
                 Feeds <- { <<1, 2, 3, 3, 5, 6, 7>>, <<1, 1, -1, -1, 5, 6, 7>> }

Init ==
    \/ part = "training" /\ Training!Init
    \/ part = "trials" /\ Trials!Init
    \/ part = "trial" /\ Trial!Init
    \/ part = "advisory" /\ Advisory!Init
    \/ part = "cost" /\ Cost!Init
    \/ part = "cohort" /\ Cohort!Init

Next ==
    /\ \/ part = "training" /\ Training!Next
       \/ part = "trials" /\ Trials!Next
       \/ part = "trial" /\ Trial!Next
       \/ part = "advisory" /\ Advisory!Next
       \/ part = "cost" /\ Cost!Next
       \/ part = "cohort" /\ Cohort!Next
    /\ UNCHANGED part

Spec == Init /\ [][Next]_<<disk, proc, world, part>>

\* No job is given its verdict under a live worker (resident.py); every trial counted
\* is the plan of one key, published or reserved (resident_plan_admission.py); and a
\* trial's outcomes, suppressed launches included, stay true of it
\* (resident_evaluate.py).
TrialsHonest ==
    /\ part = "training" => Training!VerdictsFinal
    /\ part = "trials" => Trials!TrialsAccounted
    /\ part = "trial" => Trial!OutcomesFounded

\* An enrollment publishes one plan, and a request is answered once, after its receipt
\* is durable and before it expires (resident_owner.py, resident_owner_consume.py).
AdvisoryFounded == part = "advisory" => Advisory!AdvisoryFounded

\* A replayed entry uses only forecasts and quotes known by then, and verdicts are
\* final (hepta_cost_replay.py, hepta_cost_oos.py); a cohort's label is what every
\* quote ever recorded gives (price_only_cohort_audit.py).
NoLookAhead ==
    /\ part = "cost" => Cost!NoLookAhead
    /\ part = "cohort" => Cohort!CohortFinal
===========================================================================
