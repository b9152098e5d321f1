-------------------------- MODULE ResidentTraining --------------------------
(***************************************************************************)
(* The resident learner: laya_cell/resident.py with its job table          *)
(* (resident_store.py), its worker (resident_launch.py, resident_train.py) *)
(* and the resource guard that both research controllers run under         *)
(* (historical_training/resident_resource_guard.py).                       *)
(*                                                                         *)
(* A controller of each role (trainer, evaluator) holds its own lock file, *)
(* and the two share the heavy-worker lease.  Both are flocks on an open   *)
(* file description: a worker that inherits the descriptor keeps the lock  *)
(* when its controller is gone.  Controllers and workers may die at any    *)
(* step.  What a job trains, and every check that only refuses, is left    *)
(* out; registration for evaluation is the subject of ForwardTrials.       *)
(***************************************************************************)
EXTENDS Naturals, FiniteSets

CONSTANTS
    Rows,      \* mature labelled rows
    Batch,     \* rows of one job (at least 16 in the code)
    MaxJobs    \* bound: jobs of the database

VARIABLES disk, proc, world
vars == <<disk, proc, world>>

Roles == {"trainer", "evaluator"}
Jobs == 1..MaxJobs
NoJob == 0

Off == [at |-> "off", job |-> NoJob, lease |-> FALSE, rows |-> {}, todo |-> {}, rc |-> 0, draining |-> FALSE]
NoWorker == [live |-> FALSE, at |-> "none", job |-> NoJob, holds |-> {}, rc |-> 0]

Init ==
    /\ disk = [ status |-> [j \in Jobs |-> "none"], rows |-> [j \in Jobs |-> {}],
                out |-> [j \in Jobs |-> "none"], failure |-> {} ]
    /\ proc = [ ctl |-> [r \in Roles |-> Off], worker |-> [r \in Roles |-> NoWorker] ]
    /\ world = [ hold |-> FALSE ]   \* the operator's resource hold exists

At(r, at) == proc.ctl[r].at = at
Goto(r, at) == proc' = [proc EXCEPT !.ctl[r].at = at]
Consumed == UNION { disk.rows[j] : j \in Jobs }

-----------------------------------------------------------------------------
(* The two flocks. *)

\* scheduler.lock, evaluator.lock: held by the controller and by every worker
\* that inherited its descriptor.
ControllerLocked(r) ==
    \/ proc.ctl[r].at # "off"
    \/ proc.worker[r].live /\ "controller" \in proc.worker[r].holds

\* heavy-worker.lock (Lease.acquire).
LeaseHeld ==
    \E r \in Roles : \/ proc.ctl[r].lease
                     \/ proc.worker[r].live /\ "lease" \in proc.worker[r].holds

\* Fault: the controller's own lock is not passed on.
LeaseOnly(r) == { k \in {"lease"} : proc.ctl[r].lease }
\* Fault: the lease is not passed on.
ControllerOnly(r) == {"controller"}
\* inherited_worker_locks, and retain_worker_locks in the worker.
inherited_worker_locks(r) == {"controller"} \cup { k \in {"lease"} : proc.ctl[r].lease }

\* Gate.check, _priority_negative_preflight, _prioritize_background: resources
\* and value priority may deny at any time; a manual hold and a drain do.
Admits(r) == ~world.hold /\ ~proc.ctl[r].draining

-----------------------------------------------------------------------------
(* main, recover. *)

Start(r) ==
    /\ At(r, "off") /\ ~ControllerLocked(r)
    /\ proc' = [proc EXCEPT
          !.ctl[r] = [Off EXCEPT !.at = IF r = "trainer" THEN "recover" ELSE "loop",
                                 !.todo = { j \in Jobs : disk.status[j] \in {"ADMITTED", "RUNNING", "COMPLETED"} }],
          !.worker[r] = IF @.live THEN @ ELSE NoWorker]
    /\ UNCHANGED <<disk, world>>

\* candidate_done and complete_job: the candidate is read and bound to the job.
CandidateDone(j) ==
    /\ disk.out[j] = "candidate"
    /\ disk' = [disk EXCEPT !.status[j] = "COMPLETED"]

Recovered(j) == proc' = [proc EXCEPT !.ctl["trainer"].todo = @ \ {j}]

RecoverDone(j) ==
    /\ At("trainer", "recover") /\ j \in proc.ctl["trainer"].todo
    /\ CandidateDone(j) /\ Recovered(j)
    /\ UNCHANGED world

\* A lost worker's job is failed, and only then its failure is recorded.
RecoverFailed(j) ==
    /\ At("trainer", "recover") /\ j \in proc.ctl["trainer"].todo
    /\ disk.out[j] \in {"none", "dir"} /\ disk.status[j] # "COMPLETED"
    /\ disk' = [disk EXCEPT !.status[j] = "FAILED"]
    /\ proc' = [proc EXCEPT !.ctl["trainer"].todo = @ \ {j},
                            !.ctl["trainer"].at = "recover failure", !.ctl["trainer"].job = j]
    /\ UNCHANGED world

RecoverFailure ==
    /\ At("trainer", "recover failure")
    /\ disk' = [disk EXCEPT !.failure = @ \cup {proc.ctl["trainer"].job}]
    /\ proc' = [proc EXCEPT !.ctl["trainer"].at = "recover", !.ctl["trainer"].job = NoJob]
    /\ UNCHANGED world

\* A candidate file that cannot be read ends the controller.
RecoverRaises(j) ==
    /\ At("trainer", "recover") /\ j \in proc.ctl["trainer"].todo
    /\ disk.out[j] = "partial" \/ (disk.out[j] # "candidate" /\ disk.status[j] = "COMPLETED")
    /\ proc' = [proc EXCEPT !.ctl["trainer"] = Off]
    /\ UNCHANGED <<disk, world>>

RecoverEnds ==
    /\ At("trainer", "recover") /\ proc.ctl["trainer"].todo = {}
    /\ Goto("trainer", "loop")
    /\ UNCHANGED <<disk, world>>

-----------------------------------------------------------------------------
(* GuardedTrainer.step and GuardedEvaluator.launch: the lease around a step. *)

\* Gate.acquire: admission, the lease, admission once more.
Acquire(r) ==
    /\ At(r, "loop") /\ Admits(r) /\ ~LeaseHeld
    /\ proc' = [proc EXCEPT !.ctl[r].at = "acquired", !.ctl[r].lease = TRUE]
    /\ UNCHANGED <<disk, world>>

\* The second check denies, or the step ends with nothing to train: release.
Denied(r) ==
    /\ At(r, "acquired")
    /\ proc' = [proc EXCEPT !.ctl[r].at = "loop", !.ctl[r].lease = FALSE]
    /\ UNCHANGED <<disk, world>>

\* Supervisor.step: rows no job has consumed, the dataset and job files.
Choose(rows) ==
    /\ At("trainer", "acquired") /\ Admits("trainer")
    /\ rows \subseteq Rows \ Consumed /\ Cardinality(rows) = Batch
    /\ proc' = [proc EXCEPT !.ctl["trainer"].at = "chosen", !.ctl["trainer"].rows = rows]
    /\ UNCHANGED <<disk, world>>

\* admit_job: one transaction.
Admit(j) ==
    /\ At("trainer", "chosen") /\ disk.status[j] = "none"
    /\ \A i \in 1..(j - 1) : disk.status[i] # "none"
    /\ proc.ctl["trainer"].rows \cap Consumed = {}
    /\ disk' = [disk EXCEPT !.status[j] = "ADMITTED", !.rows[j] = proc.ctl["trainer"].rows]
    /\ proc' = [proc EXCEPT !.ctl["trainer"].at = "admitted", !.ctl["trainer"].job = j,
                            !.ctl["trainer"].rows = {}]
    /\ UNCHANGED world

Running ==
    /\ At("trainer", "admitted")
    /\ disk' = [disk EXCEPT !.status[proc.ctl["trainer"].job] = "RUNNING"]
    /\ Goto("trainer", "running")
    /\ UNCHANGED world

\* Popen with pass_fds.
Spawn(r) ==
    /\ At(r, IF r = "trainer" THEN "running" ELSE "acquired")
    /\ r = "evaluator" => Admits(r)
    /\ proc' = [proc EXCEPT
          !.ctl[r].at = "wait",
          !.worker[r] = [live |-> TRUE, at |-> "started", job |-> proc.ctl[r].job,
                         holds |-> inherited_worker_locks(r), rc |-> 0]]
    /\ UNCHANGED <<disk, world>>

\* The log cannot be opened or the worker cannot be started.
SpawnFails ==
    /\ At("trainer", "running")
    /\ proc' = [proc EXCEPT !.ctl["trainer"].at = "reaped", !.ctl["trainer"].rc = 1]
    /\ UNCHANGED <<disk, world>>

\* The controller waits for its worker, or, after the budget and terminate_worker,
\* polls it (reap_pending_worker, Evaluator.reap): the lease stays taken.
Reap(r) ==
    /\ At(r, "wait") /\ ~proc.worker[r].live
    /\ proc' = [proc EXCEPT !.ctl[r].at = "reaped", !.ctl[r].rc = proc.worker[r].rc,
                            !.worker[r] = NoWorker]
    /\ UNCHANGED <<disk, world>>

\* Gate.record_native_exit: a fatal signal leaves a receipt and the hold, which
\* never replaces one that is there; if it cannot be written this controller
\* drains.
RecordNativeExit(r) ==
    /\ At(r, "reaped")
    /\ \/ /\ proc.ctl[r].rc = 2
          /\ world' = [world EXCEPT !.hold = TRUE]
          /\ Goto(r, "recorded")
       \/ /\ proc.ctl[r].rc = 2 /\ ~world.hold
          /\ proc' = [proc EXCEPT !.ctl[r].at = "recorded", !.ctl[r].draining = TRUE]
          /\ UNCHANGED world
       \/ /\ proc.ctl[r].rc # 2
          /\ Goto(r, "recorded") /\ UNCHANGED world
    /\ UNCHANGED disk

\* The step is over and no worker is left: Gate.release.
Released(r) == [proc.ctl[r] EXCEPT !.at = "loop", !.job = NoJob, !.lease = FALSE, !.rc = 0]

\* _complete_worker.
CompleteDone ==
    /\ At("trainer", "recorded") /\ CandidateDone(proc.ctl["trainer"].job)
    /\ proc' = [proc EXCEPT !.ctl["trainer"] = Released("trainer")]
    /\ UNCHANGED world

CompleteFailed ==
    /\ At("trainer", "recorded") /\ disk.out[proc.ctl["trainer"].job] \in {"none", "dir"}
    /\ disk' = [disk EXCEPT !.status[proc.ctl["trainer"].job] = "FAILED"]
    /\ Goto("trainer", "failed")
    /\ UNCHANGED world

CompleteFailure ==
    /\ At("trainer", "failed")
    /\ disk' = [disk EXCEPT !.failure = @ \cup {proc.ctl["trainer"].job}]
    /\ proc' = [proc EXCEPT !.ctl["trainer"] = Released("trainer")]
    /\ UNCHANGED world

\* An unreadable candidate raises out of the step: the job stays RUNNING.
CompleteRaises ==
    /\ At("trainer", "recorded") /\ disk.out[proc.ctl["trainer"].job] = "partial"
    /\ proc' = [proc EXCEPT !.ctl["trainer"] = Released("trainer")]
    /\ UNCHANGED <<disk, world>>

EvaluatorReleases ==
    /\ At("evaluator", "recorded")
    /\ proc' = [proc EXCEPT !.ctl["evaluator"] = Released("evaluator")]
    /\ UNCHANGED <<disk, world>>

\* SIGTERM, or the drain of SIGUSR1 or of a lost hold: main's finally.  Only a
\* reaped worker releases the lease; an unreaped one keeps both descriptors.
Exit(r) ==
    /\ proc.ctl[r].at \in {"loop", "wait"}
    /\ proc' = [proc EXCEPT !.ctl[r] = Off]
    /\ UNCHANGED <<disk, world>>

Crash(r) ==
    /\ proc.ctl[r].at # "off"
    /\ proc' = [proc EXCEPT !.ctl[r] = Off]
    /\ UNCHANGED <<disk, world>>

-----------------------------------------------------------------------------
(* The worker: run_job. *)

Working(r, at) == proc.worker[r].live /\ proc.worker[r].at = at
Work(r, at) == proc' = [proc EXCEPT !.worker[r].at = at]

\* resident_launch: the configuration is checked again and the sandbox entered;
\* run_job: the output must be new, the dataset and its rows are the job's own.
LoadJob ==
    /\ Working("trainer", "started") /\ disk.out[proc.worker["trainer"].job] = "none"
    /\ Work("trainer", "loaded")
    /\ UNCHANGED <<disk, world>>

\* The parent is measured and the rows are presented, batch after batch.
Train ==
    /\ Working("trainer", "loaded")
    /\ Work("trainer", "fitted")
    /\ UNCHANGED <<disk, world>>

\* The output directory with the adapter.
MakeOutput ==
    /\ Working("trainer", "fitted")
    /\ disk' = [disk EXCEPT !.out[proc.worker["trainer"].job] = "dir"]
    /\ Work("trainer", "trained")
    /\ UNCHANGED world

\* immutable(candidate.json): opened, then written and synced.
OpenCandidate ==
    /\ Working("trainer", "trained")
    /\ disk' = [disk EXCEPT !.out[proc.worker["trainer"].job] = "partial"]
    /\ Work("trainer", "writing")
    /\ UNCHANGED world

WriteCandidate ==
    /\ Working("trainer", "writing")
    /\ disk' = [disk EXCEPT !.out[proc.worker["trainer"].job] = "candidate"]
    /\ Work("trainer", "written")
    /\ UNCHANGED world

\* The worker ends: with its result, by an exception, a timeout, a native crash.
WorkerEnds(r, rc) ==
    /\ proc.worker[r].live
    /\ proc' = [proc EXCEPT !.worker[r].live = FALSE, !.worker[r].rc = rc]
    /\ UNCHANGED <<disk, world>>

\* The operator sets the hold, or removes it after diagnosis.
OperatorHold ==
    /\ world' = [world EXCEPT !.hold = ~@]
    /\ UNCHANGED <<disk, proc>>

-----------------------------------------------------------------------------
Next ==
    \/ \E r \in Roles :
          \/ Start(r) \/ Acquire(r) \/ Denied(r) \/ Spawn(r) \/ Reap(r)
          \/ RecordNativeExit(r) \/ Exit(r) \/ Crash(r)
          \/ \E rc \in 0..2 : WorkerEnds(r, rc)
    \/ \E j \in Jobs : RecoverDone(j) \/ RecoverFailed(j) \/ RecoverRaises(j) \/ Admit(j)
    \/ RecoverFailure \/ RecoverEnds
    \/ \E rows \in SUBSET Rows : Choose(rows)
    \/ Running \/ SpawnFails
    \/ CompleteDone \/ CompleteFailed \/ CompleteFailure \/ CompleteRaises \/ EvaluatorReleases
    \/ LoadJob \/ Train \/ MakeOutput \/ OpenCandidate \/ WriteCandidate
    \/ OperatorHold

Spec == Init /\ [][Next]_vars

-----------------------------------------------------------------------------
\* At most one heavy worker lives in the two roles together, and no job is
\* given its verdict under a live worker: whatever dies and restarts, a job
\* recorded as FAILED ("INTERRUPTED_JOB_NO_COMMITTED_CANDIDATE") never has a
\* candidate, a COMPLETED one has it, and a row is trained on by one job only.
VerdictsFinal ==
    /\ ~\A r \in Roles : proc.worker[r].live
    /\ proc.worker["trainer"].live => disk.status[proc.worker["trainer"].job] = "RUNNING"
    /\ \A j \in Jobs : /\ disk.status[j] = "FAILED" => disk.out[j] # "candidate"
                       /\ disk.status[j] = "COMPLETED" => disk.out[j] = "candidate"
                       /\ \A i \in Jobs \ {j} : disk.rows[i] \cap disk.rows[j] = {}
=============================================================================
