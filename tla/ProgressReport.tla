--------------------------- MODULE ProgressReport ---------------------------
(***************************************************************************)
(* hepta_progress.py: the read-only progress report.  It discovers the     *)
(* systemd units once, then reads one file after another while their       *)
(* writers go on: the driver's state.json (written by the loop of          *)
(* heptatrader_paper_driver.py), the kill-switch marker, the status and    *)
(* the admission record of a resident learning supervisor, the manual      *)
(* hold, and the status and admission record of the finite predictor.      *)
(* What it calls current has to belong to one subject: one process, one    *)
(* marker, one hold, one worker run.                                       *)
(*                                                                         *)
(* A behaviour follows one of the four views of the report.  Messages are  *)
(* the kind of failure they name; configuration, argv and inventory        *)
(* bindings are taken to hold (a refused one leaves the unit out of the    *)
(* report); the text format is left out.                                   *)
(***************************************************************************)
EXTENDS Integers, FiniteSets

CONSTANTS
    Lanes,     \* the drivers: paper, crypto
    MaxAge,    \* --max-age-seconds
    MaxTime,   \* bound: the clock
    MaxStarts, \* bound: starts of a process
    MaxIterations, \* bound: iterations of one driver process
    MaxIds     \* bound: markers, holds and trials created

VARIABLES disk, proc, world

vars == <<disk, proc, world>>

Never == -1

NoDriver ==
    [ loop |-> [pid |-> 0, iteration |-> 0, at |-> Never], phase |-> "NONE", checked |-> Never,
      observed |-> 0, last_error |-> "NONE", error |-> [message |-> "NONE", at |-> Never],
      completion |-> [outcome |-> "NONE", at |-> Never], success |-> 0, pause |-> Never, halt |-> FALSE,
      wrote |-> [pid |-> 0, failed |-> FALSE], model |-> "NONE" ]
NoMarker    == [id |-> 0, bytes |-> "ABSENT"]
NoStatus    == [at |-> Never, state |-> "NONE", hold |-> 0]
NoAdmission == [at |-> Never, admit |-> TRUE, reasons |-> {}, run |-> 0]
NoWorker    == [at |-> Never, started |-> Never, run |-> 0]
NoReport    ==
    [ pc |-> "idle", pid |-> 0, lanes |-> [l \in Lanes |-> [fault |-> "NONE", blockers |-> {}]],
      seen |-> NoMarker, origin |-> "UNREADABLE", present |-> "UNKNOWN",
      status |-> NoStatus, at |-> Never, admission |-> NoAdmission, hold |-> 0, blockers |-> {},
      projected |-> FALSE, forward |-> "NONE", resume |-> "NONE", worker |-> NoWorker, denied |-> FALSE,
      truth |-> [l \in Lanes |-> NoDriver], there |-> 0 ]

Init ==
    /\ \E v \in {"driver", "marker", "trainer", "evaluator", "predictor"} :
          world = [view |-> v, now |-> 1, starts |-> 0, ids |-> 0]
    /\ disk = [ driver |-> [l \in Lanes |-> NoDriver], marker |-> NoMarker, status |-> NoStatus,
                admission |-> NoAdmission, hold |-> 0, closed |-> FALSE, worker |-> NoWorker ]
    /\ proc = [ driver |-> [l \in Lanes |-> [pid |-> 0, iteration |-> 0, started |-> Never]],
                pid |-> 1, run |-> NoWorker, report |-> NoReport ]

View(v) == world.view = v
Learning == world.view \in {"trainer", "evaluator"}
Rep == proc.report

Tick ==
    /\ world.now < MaxTime
    /\ world' = [world EXCEPT !.now = @ + 1]
    /\ UNCHANGED <<disk, proc>>

-----------------------------------------------------------------------------
(* The loop of the driver. *)

DriverStart(l) ==
    /\ View("driver") /\ proc.driver[l].pid = 0 /\ world.starts < MaxStarts
    /\ proc' = [proc EXCEPT !.driver[l] = [pid |-> world.starts + 1, iteration |-> 0, started |-> Never]]
    /\ world' = [world EXCEPT !.starts = @ + 1]
    /\ UNCHANGED disk

\* The process ends between or inside iterations; its state file stays.
DriverStop(l) ==
    /\ View("driver") /\ proc.driver[l].pid # 0
    /\ proc' = [proc EXCEPT !.driver[l] = [pid |-> 0, iteration |-> 0, started |-> Never]]
    /\ UNCHANGED <<disk, world>>

IterationBegin(l) ==
    /\ View("driver") /\ proc.driver[l].pid # 0 /\ proc.driver[l].started = Never
    /\ proc.driver[l].iteration < MaxIterations
    /\ proc' = [proc EXCEPT !.driver[l].started = world.now, !.driver[l].iteration = @ + 1]
    /\ UNCHANGED <<disk, world>>

\* What the iteration does with a finished model call: the decision is used,
\* or discarded with a dated "model HOLD" error.
ModelCompletion(f, model) ==
    CASE model = "NONE" -> f
      [] model = "USED" -> [f EXCEPT !.completion = [outcome |-> "USED", at |-> world.now],
                                     !.success = world.now, !.last_error = "NONE", !.model = "USED"]
      [] model = "DISCARDED" -> [f EXCEPT !.completion = [outcome |-> "DISCARDED", at |-> world.now],
                                          !.last_error = "MODEL", !.model = "DISCARDED",
                                          !.error = [message |-> "MODEL", at |-> world.now]]

\* How the iteration ends: it paused before the quote was read, an order is
\* active, it raised, or it came to its end.
IterationOutcome(f, end) ==
    CASE end = "PAUSED" -> [f EXCEPT !.phase = "INFERENCE_PAUSED", !.pause = world.now]
      [] end = "ACTIVE" -> [f EXCEPT !.phase = "OBSERVING", !.pause = Never, !.last_error = "OTHER"]
      [] end = "ERROR"  -> [f EXCEPT !.phase = "ERROR", !.last_error = "LOOP",
                                     !.error = [message |-> "LOOP", at |-> world.now]]
      [] OTHER -> [f EXCEPT !.phase = "OBSERVING", !.pause = Never]

\* The state file is replaced as a whole when the iteration ends.  wrote and
\* model say who wrote it and how the latest model call came out.
IterationEnd(l) ==
    LET d == proc.driver[l] IN
    /\ View("driver") /\ d.started # Never
    /\ \E model \in {"NONE", "USED", "DISCARDED"}, end \in {"PAUSED", "ACTIVE", "ERROR", "OK"}, h \in BOOLEAN :
          /\ end = "PAUSED" => model = "NONE"
          /\ h => end = "OK"
          /\ disk' = [disk EXCEPT !.driver[l] =
                [IterationOutcome(ModelCompletion(@, model), end) EXCEPT
                    !.loop = [pid |-> d.pid, iteration |-> d.iteration, at |-> d.started],
                    !.observed = d.iteration, !.checked = world.now, !.halt = h,
                    !.wrote = [pid |-> d.pid, failed |-> end = "ERROR"]]]
    /\ proc' = [proc EXCEPT !.driver[l].started = Never]
    /\ UNCHANGED world

-----------------------------------------------------------------------------
(* The marker, the hold and the writers of the learning view. *)

\* The native owner, the command line or an operator creates, replaces or
\* removes the kill-switch marker.
MarkerWrite ==
    /\ View("marker") /\ world.ids < MaxIds
    /\ \E b \in {"INDEPENDENT_EMPTY_NATIVE", "CLI_TAGGED_PAUSE"} :
          disk' = [disk EXCEPT !.marker = [id |-> world.ids + 1, bytes |-> b]]
    /\ world' = [world EXCEPT !.ids = @ + 1]
    /\ UNCHANGED proc

MarkerRemove ==
    /\ View("marker") /\ disk.marker # NoMarker
    /\ disk' = [disk EXCEPT !.marker = NoMarker]
    /\ UNCHANGED <<proc, world>>

HoldPlace ==
    /\ Learning /\ disk.hold = 0 /\ world.ids < MaxIds
    /\ disk' = [disk EXCEPT !.hold = world.ids + 1]
    /\ world' = [world EXCEPT !.ids = @ + 1]
    /\ UNCHANGED proc

HoldRelease ==
    /\ Learning /\ disk.hold # 0
    /\ disk' = [disk EXCEPT !.hold = 0]
    /\ UNCHANGED <<proc, world>>

\* The supervisor ends; a report taken before or after it finds its files.
SupervisorStop ==
    /\ Learning /\ proc.pid # 0
    /\ proc' = [proc EXCEPT !.pid = 0]
    /\ UNCHANGED <<disk, world>>

\* The supervisor writes its status: it holds for resources, its queue waits
\* for a forward trial, or (evaluator) no viable work is left.
\* The diagnostic snapshot names the hold in place.
SupervisorStatus ==
    /\ Learning /\ proc.pid # 0
    /\ \E s \in {"HOLD", IF View("trainer") THEN "QUEUE" ELSE "NO_WORK"} :
          disk' = [disk EXCEPT !.status =
                         [at |-> world.now, state |-> s, hold |-> disk.hold]]
    /\ UNCHANGED <<proc, world>>

\* The guard answers a request for new heavy work.
SupervisorAdmission ==
    /\ Learning /\ proc.pid # 0
    /\ \E r \in SUBSET {"MEMORY"} :
          LET reasons == r \cup IF disk.hold # 0 THEN {"OPERATOR_HOLD"} ELSE {}
          IN  disk' = [disk EXCEPT !.admission =
                         [at |-> world.now, admit |-> reasons = {}, reasons |-> reasons, run |-> 0]]
    /\ UNCHANGED <<proc, world>>

\* The evaluator closes the trial the trainer's queue waits for.
TrialClose ==
    /\ View("trainer") /\ ~disk.closed
    /\ disk' = [disk EXCEPT !.closed = TRUE]
    /\ UNCHANGED <<proc, world>>

\* The predictor: a timer starts one run at a time; the guard's answer is
\* written inside the run, the status at its end.  Starting a process takes
\* longer than one step of the clock.
WorkerStart ==
    /\ View("predictor") /\ proc.run = NoWorker /\ world.starts < MaxStarts
    /\ world.now > disk.worker.at /\ world.now > disk.admission.at
    /\ proc' = [proc EXCEPT !.run = [at |-> Never, started |-> world.now, run |-> world.starts + 1]]
    /\ world' = [world EXCEPT !.starts = @ + 1]
    /\ UNCHANGED disk

WorkerAdmission ==
    /\ View("predictor") /\ proc.run # NoWorker
    /\ \E deny \in BOOLEAN :
          disk' = [disk EXCEPT !.admission = [at |-> world.now, admit |-> ~deny, run |-> proc.run.run,
                                              reasons |-> IF deny THEN {"MEMORY"} ELSE {}]]
    /\ UNCHANGED <<proc, world>>

\* The run ends with its status, or is killed without one.
WorkerEnd ==
    /\ View("predictor") /\ proc.run # NoWorker
    /\ \E killed \in BOOLEAN :
          disk' = [disk EXCEPT !.worker = IF killed THEN @ ELSE [proc.run EXCEPT !.at = world.now]]
    /\ proc' = [proc EXCEPT !.run = NoWorker]
    /\ UNCHANGED world

-----------------------------------------------------------------------------
(* The report. *)

Goto(r, pc) == proc' = [proc EXCEPT !.report = [r EXCEPT !.pc = pc]]

\* freshness
Freshness(at) == IF at = Never THEN "UNKNOWN" ELSE IF world.now - at <= MaxAge THEN "FRESH" ELSE "STALE"

Fresh(at) == Freshness(at) = "FRESH"

\* discover_units: one snapshot of the processes, taken before any file.
DiscoverUnits ==
    /\ Rep.pc = "idle"
    /\ Goto([NoReport EXCEPT !.pid = proc.pid,
                             !.lanes = [l \in Lanes |-> [fault |-> "NONE", blockers |-> {}]],
                             !.truth = [l \in Lanes |-> [NoDriver EXCEPT !.loop.pid = proc.driver[l].pid]]],
            IF View("driver") THEN "drivers" ELSE IF View("marker") THEN "stat"
            ELSE IF View("predictor") THEN "worker" ELSE "status")
    /\ UNCHANGED <<disk, world>>

\* Fault: any fresh heartbeat is taken for the running process.
HeartbeatFresh(f, pid) == Fresh(f.loop.at)

\* The heartbeat is fresh and of the process systemd named.
CurrentLoop(f, pid) == Fresh(f.loop.at) /\ pid # 0 /\ f.loop.pid = pid

\* driver_loop_error_progress: the dated error is the one the latest iteration
\* of the current process ended with.
LoopError(f, current) ==
    IF f.last_error # f.error.message \/ f.phase # "ERROR" \/ ~Fresh(f.error.at) THEN "NONE"
    ELSE IF /\ current
            /\ f.observed = f.loop.iteration
            /\ f.loop.at <= f.error.at /\ f.error.at <= f.checked
    THEN "LOOP_FAILED" ELSE "UNCONFIRMED"

\* driver_error_progress: a dated model failure is current while no later
\* success is on record and its completion is the one it was raised for.
DriverError(f, current) ==
    LET live  == f.error.message = "MODEL" /\ f.last_error = "MODEL" /\ Fresh(f.error.at)
        later == f.error.at <= f.success \/ (f.completion.outcome = "USED" /\ f.error.at <= f.completion.at)
    IN  IF ~live THEN LoopError(f, current)
        ELSE IF later THEN "NONE"
        ELSE IF /\ current
                /\ f.completion.outcome = "DISCARDED" /\ f.completion.at <= f.error.at
                /\ f.success < f.error.at
        THEN "MODEL_FAILED" ELSE "UNCONFIRMED"

\* trading_progress, one lane: faults, dated pauses and undated flags of the
\* state file, the last two only under a current heartbeat.
LaneProgress(f, pid) ==
    LET current == CurrentLoop(f, pid) IN
    [ fault |-> DriverError(f, current),
      blockers |-> (IF current /\ Fresh(f.pause) THEN {"PAUSE"} ELSE {})
                   \cup (IF current /\ f.halt THEN {"HALT_NEW_ENTRIES"} ELSE {})
                   \cup (IF pid = 0 THEN {"SERVICE_NOT_ACTIVE"} ELSE {}) ]

\* The driver files are read one after the other.
ReadDriver(l) ==
    LET pid == Rep.truth[l].loop.pid
        f   == disk.driver[l]
        r   == [Rep EXCEPT !.lanes[l] = LaneProgress(f, pid), !.at = world.now,
                           !.truth[l] = [f EXCEPT !.loop.pid = pid], !.seen.id = @ + 1]
    IN
    /\ Rep.pc = "drivers" /\ Rep.truth[l].checked = Never
    /\ disk.driver[l].checked # Never
    /\ Goto(r, IF \A m \in Lanes \ {l} : Rep.truth[m].checked # Never THEN "done" ELSE "drivers")
    /\ UNCHANGED <<disk, world>>

\* native_stop_observation: the marker's identity is taken before it is opened
\* and compared after it was read.
StatMarker ==
    /\ Rep.pc = "stat"
    /\ IF disk.marker = NoMarker
       THEN Goto([Rep EXCEPT !.present = "FALSE", !.origin = "ABSENT", !.there = 0], "done")
       ELSE Goto([Rep EXCEPT !.present = "TRUE", !.seen.id = disk.marker.id], "read")
    /\ UNCHANGED <<disk, world>>

\* Fault: the bytes count whatever file they were read from.
AnyMarker(a, b) == TRUE

SameMarker(a, b) == a = b

ReadMarker ==
    /\ Rep.pc = "read"
    /\ IF disk.marker = NoMarker THEN Goto([Rep EXCEPT !.present = "UNKNOWN"], "done")
       ELSE IF ~SameMarker(Rep.seen.id, disk.marker.id) THEN Goto(Rep, "done")
       ELSE Goto([Rep EXCEPT !.seen.bytes = disk.marker.bytes], "confirm")
    /\ UNCHANGED <<disk, world>>

ConfirmMarker ==
    /\ Rep.pc = "confirm"
    /\ IF disk.marker = NoMarker THEN Goto([Rep EXCEPT !.present = "UNKNOWN"], "done")
       ELSE IF ~SameMarker(Rep.seen.id, disk.marker.id) THEN Goto(Rep, "done")
       ELSE Goto([Rep EXCEPT !.origin = Rep.seen.bytes, !.there = disk.marker.id], "done")
    /\ UNCHANGED <<disk, world>>

\* learning_progress: the status first; the clock of its freshness is read
\* after its bytes.
ReadStatus ==
    /\ Rep.pc = "status"
    /\ Goto([Rep EXCEPT !.status = disk.status, !.at = IF Fresh(disk.status.at) THEN disk.status.at ELSE Never],
            IF View("trainer") THEN "forward" ELSE "admission")
    /\ UNCHANGED <<disk, world>>

\* candidate_progress: the forward record of the latest allocated trial the
\* status names.
ReadForward ==
    /\ Rep.pc = "forward"
    /\ Goto([Rep EXCEPT !.forward = IF Rep.status.state # "QUEUE" THEN "NONE"
                                    ELSE IF disk.closed THEN "CLOSED" ELSE "PENDING"], "admission")
    /\ UNCHANGED <<disk, world>>

\* The status is fresh and its supervisor was running when the units were read.
Running(r) == r.pid # 0 /\ r.at # Never

\* An admission record is historical when its supervisor is gone, it is stale,
\* or a newer complete status of the evaluator has no viable work left.
Historical(r, a) ==
    \/ r.pid = 0
    \/ ~Fresh(a.at)
    \/ /\ View("evaluator") /\ Running(r)
       /\ r.status.state = "NO_WORK" /\ a.at < r.status.at

ReadAdmission ==
    /\ Rep.pc = "admission"
    /\ Goto([Rep EXCEPT !.admission = IF Historical(Rep, disk.admission) THEN NoAdmission ELSE disk.admission], "hold")
    /\ UNCHANGED <<disk, world>>

\* Fault: the blockers of the status stand whatever the marker says now.
StatusOutranks(codes, present) == codes \cup (IF present THEN {"OPERATOR_HOLD"} ELSE {})

\* A fresh check of the hold outranks an earlier diagnostic snapshot.
HoldChecked(codes, present) ==
    (codes \ {"OPERATOR_HOLD"}) \cup (IF present THEN {"OPERATOR_HOLD"} ELSE {})

\* The codes of a fresh status of a running supervisor.
StatusBlockers(r) ==
    IF ~Running(r) THEN {}
    ELSE (IF r.status.hold # 0 THEN {"OPERATOR_HOLD"} ELSE {})
         \cup (IF r.status.state \in {"HOLD", "QUEUE"} THEN {r.status.state} ELSE {})

\* learning_hold_recovery: conditions are named for a fresh HOLD of a running
\* supervisor whose reasons, with those of a denial no newer than it, are known.
RecoveryKnown(r) ==
    /\ Running(r)
    /\ r.status.state = "HOLD" \/ (View("evaluator") /\ r.status.state # "NO_WORK")
    /\ ~r.admission.admit /\ r.admission.at <= r.status.at
    /\ r.admission.reasons \ {"OPERATOR_HOLD"} # {}

\* The next action: the hold's, the queue's, or the recovery of a HOLD.
Resume(r) ==
    IF r.projected THEN "PROJECTED_HOLD_ACTION"
    ELSE IF r.there # 0 THEN "OWNER_REVIEW_HOLD"
    ELSE IF Running(r) /\ r.status.state = "QUEUE"
         THEN IF r.forward = "CLOSED" THEN "RECHECK_QUEUE" ELSE "WAIT_FOR_CLOSEOUT"
    ELSE IF RecoveryKnown(r) THEN "CONTROLLER_RECHECKS" ELSE "READ_ORIGINAL_STATUS"

\* The hold's presence, the blockers, and the admission's reasons other than
\* the hold itself.
CheckHold ==
    LET r == [Rep EXCEPT !.there = disk.hold,
                         !.blockers = HoldChecked(StatusBlockers(Rep), disk.hold # 0)
                                      \cup (Rep.admission.reasons \ {"OPERATOR_HOLD"})]
    IN
    /\ Rep.pc = "hold"
    /\ IF disk.hold # 0 THEN Goto(r, "content") ELSE Goto([r EXCEPT !.resume = Resume(r)], "done")
    /\ UNCHANGED <<disk, world>>

\* Fault: the projection of any earlier hold is shown for the present one.
AnyProjection(a, b) == a # 0

SameHold(a, b) == a # 0 /\ a = b

\* The record of the hold is read after its presence; the status's projection
\* of the hold is used only when it is about the same bytes.
ReadHold ==
    LET r == [Rep EXCEPT !.hold = disk.hold, !.projected = Rep.at # Never /\ SameHold(Rep.status.hold, disk.hold)]
    IN
    /\ Rep.pc = "content"
    /\ Goto([r EXCEPT !.resume = Resume(r)], "done")
    /\ UNCHANGED <<disk, world>>

\* forward_hold_progress: the predictor's status, then the guard's latest
\* answer for its role.
ReadWorker ==
    /\ Rep.pc = "worker" /\ disk.worker # NoWorker
    /\ Goto([Rep EXCEPT !.worker = disk.worker, !.at = IF Fresh(disk.worker.at) THEN disk.worker.at ELSE Never], "denial")
    /\ UNCHANGED <<disk, world>>

WithinInterval(w, a) == w.started <= a.at /\ a.at <= w.at

ReadDenial ==
    /\ Rep.pc = "denial"
    /\ Goto([Rep EXCEPT !.admission = disk.admission,
                        !.denied = /\ ~disk.admission.admit
                                   /\ Rep.at # Never /\ Fresh(disk.admission.at)
                                   /\ WithinInterval(Rep.worker, disk.admission)], "done")
    /\ UNCHANGED <<disk, world>>

Collect ==
    \/ DiscoverUnits
    \/ \E l \in Lanes : ReadDriver(l)
    \/ StatMarker \/ ReadMarker \/ ConfirmMarker
    \/ ReadStatus \/ ReadForward \/ ReadAdmission \/ CheckHold \/ ReadHold
    \/ ReadWorker \/ ReadDenial

\* A behaviour ends with the report.
Next ==
    /\ Rep.pc # "done"
    /\ \/ Tick
       \/ \E l \in Lanes : DriverStart(l) \/ DriverStop(l) \/ IterationBegin(l) \/ IterationEnd(l)
       \/ MarkerWrite \/ MarkerRemove \/ HoldPlace \/ HoldRelease
       \/ SupervisorStop \/ SupervisorStatus \/ SupervisorAdmission \/ TrialClose
       \/ WorkerStart \/ WorkerAdmission \/ WorkerEnd
       \/ Collect

Spec == Init /\ [][Next]_vars

-----------------------------------------------------------------------------
(* What the report says. *)

\* A driver fault or lane blocker reported as current was written by the
\* process systemd named: the iteration that ended in the error, or the
\* process whose latest model call was discarded.
FaultsCurrent ==
    \A l \in Lanes :
        LET f == Rep.truth[l] IN
        /\ Rep.lanes[l].fault = "LOOP_FAILED" => f.wrote = [pid |-> f.loop.pid, failed |-> TRUE]
        /\ Rep.lanes[l].fault = "MODEL_FAILED" => f.wrote.pid = f.loop.pid /\ f.model = "DISCARDED"
        /\ Rep.lanes[l].blockers \cap {"PAUSE", "HALT_NEW_ENTRIES"} # {} => f.wrote.pid = f.loop.pid

\* Everything the report presents as current belongs to one subject, whatever
\* its writers did between two of its reads: driver faults to the process
\* systemd named, the origin of the stop marker to the marker that was there,
\* the operator hold to the check of its own file, a projected release
\* condition to the hold that was read, and a denial of the predictor to the
\* worker run whose status is shown.
ReportOfOneSubject ==
    Rep.pc = "done" =>
        /\ FaultsCurrent
        /\ (View("marker") /\ Rep.origin \notin {"UNREADABLE", "ABSENT"}) => Rep.there = Rep.seen.id
        /\ Learning => ("OPERATOR_HOLD" \in Rep.blockers <=> Rep.there # 0)
        /\ Rep.projected => Rep.status.hold = Rep.hold
        /\ Rep.resume = "RECHECK_QUEUE" => disk.closed
        /\ Rep.denied => Rep.admission.run = Rep.worker.run
=============================================================================
