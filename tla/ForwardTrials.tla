---------------------------- MODULE ForwardTrials ----------------------------
(***************************************************************************)
(* How a trained candidate gets its forward trial: the registration of     *)
(* laya_cell/resident_plan_admission.py with its queue (resident_queue.py),*)
(* calendar (resident_plan_calendar.py), later attempts                    *)
(* (resident_forward_attempt.py), the frozen policy of old records         *)
(* (resident_retained_registration.py), the supervisor that drives them    *)
(* (resident.py) and the stability samples of the resource guard.          *)
(*                                                                         *)
(* Every trial spends part of one error budget, so the counter of trials,  *)
(* the database records and the plan files have to agree whatever is       *)
(* interrupted.  A key is a job with the number of its attempt: the        *)
(* request of an attempt names the plan before it, so there is one for     *)
(* each plan.  Time is a small clock; Open holds the instants of regular   *)
(* session.  A plan is its trial, the time it was decided and its end.     *)
(* Candidate, policy and source identities only refuse, as does the        *)
(* source, which may be unready at any time.                               *)
(***************************************************************************)
EXTENDS Naturals, FiniteSets

CONSTANTS
    Jobs,         \* trained candidates, in the order of their numbers
    Enrolled,     \* the jobs admitted under FUTILE_BOOKKEEPING_OVERLAP_V1
    MaxAttempt,   \* bound: attempts after the first plan
    MaxTime,      \* bound: the clock
    Open,         \* instants of an open regular session
    Validity,     \* length of a candidate's validation window
    Samples       \* healthy samples before a registration

VARIABLES disk, proc, world
vars == <<disk, proc, world>>

Lead == 1      \* FORWARD_LEAD_MS
Length == 1    \* from the first slot to the last outcome
Keys == Jobs \X (0..MaxAttempt)
First(j) == <<j, 0>>
NoPlan == [trial |-> 0, decided |-> 0, end |-> 0]
NoRecord == [state |-> "none", plan |-> NoPlan, policy |-> 0]
Off == [at |-> "off", key |-> <<0, 0>>, todo |-> {}, samples |-> 0, subject |-> <<0, 0>>, attempt |-> FALSE]

Init ==
    /\ disk = [ done |-> {}, counter |-> 0, record |-> [k \in Keys |-> NoRecord],
                plan |-> [k \in Keys |-> NoPlan], receipt |-> {}, verdict |-> [k \in Keys |-> "none"] ]
    /\ proc = Off
    /\ world = [ now |-> 0, trained |-> [j \in Jobs |-> 0], tied |-> {}, futile |-> {}, policy |-> 1 ]

Planned == { k \in Keys : disk.plan[k] # NoPlan }
Reserved == { k \in Keys : disk.record[k].state = "RESERVED" }

-----------------------------------------------------------------------------
(* calendar_admission. *)

Window(j) == world.trained[j] + Validity
\* A plan decided at t starts after the lead and runs in one open session.
Fits(j, t) == /\ t \in Open /\ (t + Lead)..(t + Lead + Length) \subseteq Open
              /\ t + Lead + Length <= Window(j)
Calendar(j) ==
    IF Fits(j, world.now) THEN "READY"
    ELSE IF \E t \in (world.now + 1)..MaxTime : Fits(j, t) THEN "DEFERRED"
    ELSE "NO_FORWARD_TRIAL"

(* The queue: inspect and registration_policy. *)

Pending == { k \in Planned : disk.verdict[k] = "none" }
Viable == Pending \ world.futile
\* An enrolled candidate may pass trials that can no longer succeed.
Blocking(j) == IF j \in Enrolled THEN Viable ELSE Pending

-----------------------------------------------------------------------------
(* register. *)

\* Fault: a reservation that has no plan yet is not looked for.
HistoryOfPlans == \A k, l \in Planned : k # l => disk.plan[k].trial # disk.plan[l].trial
\* _unreserved_history: the plans are exactly the trials counted, and none is
\* still to be published.
UnreservedHistory ==
    /\ { disk.plan[k].trial : k \in Planned } = 1..disk.counter
    /\ Cardinality(Planned) = disk.counter
    /\ Reserved = {}

\* original_policy_required: the record was made under another policy.
Retained(k) == disk.record[k].state = "DEFERRED" /\ disk.record[k].policy # world.policy

\* _exact_required_prior, then the queue, then the calendar.
Decision(k) ==
    IF k[1] \in world.tied THEN "NO_FORWARD_TRIAL"
    ELSE IF Blocking(k[1]) # {} THEN "DEFERRED"
    ELSE Calendar(k[1])

Settled(k, state) ==
    disk' = [disk EXCEPT !.record[k] = [state |-> state, plan |-> NoPlan, policy |-> world.policy]]

\* _evaluation_plan and the transaction that reserves it with its trial.
Reserve(k) ==
    disk' = [disk EXCEPT
        !.counter = @ + 1,
        !.record[k] = [ state |-> "RESERVED", policy |-> world.policy,
                        plan |-> [ trial |-> disk.counter + 1, decided |-> world.now,
                                   end |-> world.now + Lead + Length ] ] ]

\* After the transaction: _publish, or back to what the controller was doing.
Then(at, k) == proc' = [proc EXCEPT !.at = at, !.key = k, !.samples = 0, !.subject = <<0, 0>>]
Back == IF proc.attempt THEN "off" ELSE IF proc.todo # {} THEN "recover" ELSE "loop"

\* _stable_registration: a healthy sample of the same subject counts, any other
\* starts over; the transaction of an unstable one is rolled back.
Stable(k) == proc.subject = k /\ proc.samples >= Samples
Sample(k) ==
    proc' = [proc EXCEPT !.at = Back, !.subject = k,
                         !.samples = IF proc.subject = k /\ @ < Samples THEN @ + 1 ELSE IF proc.subject = k THEN @ ELSE 1]

\* A key whose plan or final record is there: its publication is completed.
RegisterAgain(k) ==
    /\ disk.record[k].state \in {"RESERVED", "PUBLISHED", "NO_FORWARD_TRIAL"}
    /\ Then(CASE disk.record[k].state = "RESERVED" -> "link plan"
              [] disk.record[k].state = "NO_FORWARD_TRIAL" -> "link receipt"
              [] OTHER -> Back, k)
    /\ UNCHANGED <<disk, world>>

\* resume_retained_deferred, run_original, resume_original: an old record is
\* only closed when no interval is left; it never allocates a trial.
RegisterRetained(k) ==
    /\ Retained(k)
    /\ \/ /\ UnreservedHistory /\ Calendar(k[1]) = "NO_FORWARD_TRIAL"
          /\ disk' = [disk EXCEPT !.record[k].state = "NO_FORWARD_TRIAL"] /\ Then("link receipt", k)
       \/ /\ Calendar(k[1]) # "NO_FORWARD_TRIAL"
          /\ Then(Back, k) /\ UNCHANGED disk
    /\ UNCHANGED world

\* capture_source, check_source: the original quote behind the plan's input is
\* missing, or no longer fresh when the transaction commits.
RegisterUnready(k) ==
    /\ disk.record[k].state \in {"none", "DEFERRED"} /\ ~Retained(k) /\ UnreservedHistory
    /\ Decision(k) = "READY" /\ Stable(k)
    /\ Settled(k, "DEFERRED") /\ Then(Back, k)
    /\ UNCHANGED world

RegisterNew(k) ==
    /\ disk.record[k].state \in {"none", "DEFERRED"} /\ ~Retained(k) /\ UnreservedHistory
    /\ \/ Decision(k) = "READY" /\ Stable(k) /\ Reserve(k) /\ Then("link plan", k)
       \/ Decision(k) = "READY" /\ Sample(k) /\ UNCHANGED disk
       \/ Decision(k) = "DEFERRED" /\ Settled(k, "DEFERRED") /\ Then(Back, k)
       \/ Decision(k) = "NO_FORWARD_TRIAL" /\ Settled(k, "NO_FORWARD_TRIAL") /\ Then("link receipt", k)
    /\ UNCHANGED world

\* A history that does not add up refuses: recovery and an attempt end, a step
\* of the loop is tried again later.
RegisterRefuses(k) ==
    /\ disk.record[k].state \in {"none", "DEFERRED"} /\ ~UnreservedHistory
    /\ ~Retained(k) \/ Calendar(k[1]) = "NO_FORWARD_TRIAL"
    /\ proc' = IF proc.at = "loop" THEN proc ELSE Off
    /\ UNCHANGED <<disk, world>>

Register(k) ==
    RegisterAgain(k) \/ RegisterRetained(k) \/ RegisterUnready(k) \/ RegisterNew(k) \/ RegisterRefuses(k)

(* _publish and publish_immutable: the file never exists in part. *)

LinkPlan ==
    /\ proc.at = "link plan"
    /\ disk.plan[proc.key] \in {NoPlan, disk.record[proc.key].plan}
    /\ disk' = [disk EXCEPT !.plan[proc.key] = disk.record[proc.key].plan]
    /\ proc' = [proc EXCEPT !.at = "mark published"]
    /\ UNCHANGED world

MarkPublished ==
    /\ proc.at = "mark published"
    /\ disk' = [disk EXCEPT !.record[proc.key].state = "PUBLISHED"]
    /\ proc' = [proc EXCEPT !.at = Back]
    /\ UNCHANGED world

LinkReceipt ==
    /\ proc.at = "link receipt"
    /\ disk' = [disk EXCEPT !.receipt = @ \cup {proc.key}]
    /\ proc' = [proc EXCEPT !.at = Back]
    /\ UNCHANGED world

-----------------------------------------------------------------------------
(* The supervisor. *)

Start ==
    /\ proc.at = "off"
    /\ proc' = [Off EXCEPT !.at = IF disk.done = {} THEN "loop" ELSE "recover", !.todo = disk.done]
    /\ UNCHANGED <<disk, world>>

\* recover: every completed job is registered again.
RecoverTakes(j) ==
    /\ proc.at = "recover" /\ j \in proc.todo
    /\ proc' = [proc EXCEPT !.at = "register", !.key = First(j), !.todo = @ \ {j}]
    /\ UNCHANGED <<disk, world>>
RecoverRegisters == proc.at = "register" /\ Register(proc.key)

\* waiting_candidates: no plan and no published terminal receipt.
Waiting == { j \in disk.done : First(j) \notin Planned /\ ~(First(j) \in disk.receipt
                               /\ disk.record[First(j)].state = "NO_FORWARD_TRIAL") }

\* reconcile_evaluation_queue: reservations first, then an impossible window,
\* then the first waiting candidate that nothing blocks.
ResumeReservation(k) ==
    /\ proc.at = "loop" /\ Reserved = {k}
    /\ Then("link plan", k)
    /\ UNCHANGED <<disk, world>>

\* _finish_impossible_forward_registration.
FinishImpossible(j) ==
    /\ proc.at = "loop" /\ Reserved = {} /\ j \in Waiting /\ Pending # {}
    /\ disk.record[First(j)].state = "DEFERRED" /\ UnreservedHistory /\ Calendar(j) = "NO_FORWARD_TRIAL"
    /\ disk' = [disk EXCEPT !.record[First(j)].state = "NO_FORWARD_TRIAL"]
    /\ Then("link receipt", First(j))
    /\ UNCHANGED world

ReconcileRegisters(j) ==
    /\ proc.at = "loop" /\ Reserved = {} /\ j \in Waiting /\ Blocking(j) = {}
    /\ j \in Enrolled \/ ~\E i \in Waiting \cap Enrolled : Blocking(i) = {}
    /\ Register(First(j))

\* A new candidate is trained only when none waits and no trial is viable; it
\* may turn out to reproduce the prior.
TrainCandidate(j, tied) ==
    /\ proc.at = "loop" /\ Reserved = {} /\ j \notin disk.done
    /\ \A i \in Jobs : i < j => i \in disk.done
    /\ { i \in Waiting : ~(Retained(First(i)) /\ i \notin Enrolled) } = {} /\ Viable = {}
    /\ disk' = [disk EXCEPT !.done = @ \cup {j}]
    /\ world' = [world EXCEPT !.trained[j] = world.now, !.tied = IF tied THEN @ \cup {j} ELSE @]
    /\ proc' = [proc EXCEPT !.at = "register", !.key = First(j)]

\* The operator's run_request, in the place of the trainer: check_request and
\* readiness bind it to a published, rejected plan that is the job's latest.
AttemptReady(k) ==
    LET prior == <<k[1], k[2] - 1>> IN
    /\ disk.record[prior].state = "PUBLISHED" /\ disk.plan[prior] = disk.record[prior].plan
    /\ world.now >= disk.plan[prior].end /\ disk.verdict[prior] = "REJECTED"
    /\ \A l \in Keys \ {k} : l[1] = k[1] => disk.record[l].plan.trial <= disk.plan[prior].trial

RunAttempt(k) ==
    /\ proc.at = "off" /\ k[2] > 0 /\ k[1] \in disk.done /\ AttemptReady(k)
    /\ proc' = [Off EXCEPT !.at = "attempt", !.key = k, !.attempt = TRUE]
    /\ UNCHANGED <<disk, world>>

\* The request is retried every thirty seconds within its bound.
AttemptRegisters ==
    /\ proc.at = "attempt"
    /\ \/ Register(proc.key)
       \/ /\ Decision(proc.key) = "READY" /\ UnreservedHistory /\ ~Stable(proc.key)
          /\ disk.record[proc.key].state \in {"none", "DEFERRED"}
          /\ proc' = [proc EXCEPT !.subject = proc.key, !.samples = IF proc.subject = proc.key THEN @ + 1 ELSE 1]
          /\ UNCHANGED <<disk, world>>

\* A check of the guard denies: the samples start over.
GuardDenies ==
    /\ proc.at \in {"loop", "attempt"} /\ proc.samples > 0
    /\ proc' = [proc EXCEPT !.samples = 0, !.subject = <<0, 0>>]
    /\ UNCHANGED <<disk, world>>

Crash ==
    /\ proc.at # "off"
    /\ proc' = Off
    /\ UNCHANGED <<disk, world>>

-----------------------------------------------------------------------------
(* The evaluator, the clock and the installer. *)

Tick ==
    /\ world.now < MaxTime
    /\ world' = [world EXCEPT !.now = @ + 1]
    /\ UNCHANGED <<disk, proc>>

\* The outcomes so far exclude success, or the operator stopped the trial.
BecomeFutile(k) ==
    /\ k \in Viable
    /\ world' = [world EXCEPT !.futile = @ \cup {k}]
    /\ UNCHANGED <<disk, proc>>

Qualify(k, verdict) ==
    /\ k \in Pending /\ world.now >= disk.plan[k].end
    /\ k \in world.futile => verdict = "REJECTED"
    /\ disk' = [disk EXCEPT !.verdict[k] = verdict]
    /\ UNCHANGED <<proc, world>>

\* A new release changes the policy that new records are made under.
Upgrade ==
    /\ proc.at = "off" /\ world.policy = 1
    /\ world' = [world EXCEPT !.policy = 2]
    /\ UNCHANGED <<disk, proc>>

-----------------------------------------------------------------------------
Next ==
    \/ Start \/ RecoverRegisters \/ LinkPlan \/ MarkPublished \/ LinkReceipt
    \/ \E j \in Jobs : RecoverTakes(j) \/ FinishImpossible(j) \/ ReconcileRegisters(j)
    \/ \E j \in Jobs, tied \in BOOLEAN : TrainCandidate(j, tied)
    \/ \E k \in Keys : ResumeReservation(k) \/ RunAttempt(k) \/ BecomeFutile(k)
    \/ \E k \in Keys, v \in {"REJECTED", "QUALIFIED"} : Qualify(k, v)
    \/ AttemptRegisters \/ GuardDenies \/ Crash \/ Tick \/ Upgrade

Spec == Init /\ [][Next]_vars

-----------------------------------------------------------------------------
\* Every trial counted is the plan of exactly one key, published or reserved;
\* a published plan is its reservation, decided in an open session inside the
\* candidate's window; at most one reservation is unpublished and at most one
\* trial that can still succeed is pending, across crashes, retries of old
\* records and attempts ("Allocated exactly once").
TrialsAccounted ==
    LET allocated == { k \in Keys : disk.record[k].plan # NoPlan }
    IN  /\ { disk.record[k].plan.trial : k \in allocated } = 1..disk.counter
        /\ Cardinality(allocated) = disk.counter
        /\ \A k \in Planned : disk.plan[k] = disk.record[k].plan
        /\ \A k \in allocated :
              /\ disk.record[k].state = "PUBLISHED" => k \in Planned
              /\ Fits(k[1], disk.record[k].plan.decided)
        /\ Cardinality(Reserved) <= 1
        /\ Cardinality(Viable \cup Reserved) <= 1
=============================================================================
