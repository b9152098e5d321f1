--------------------------- MODULE OwnerAdvisory ----------------------------
(***************************************************************************)
(* What happens to a model that qualified: laya_cell/resident_owner.py     *)
(* hands it to the canonical owner for publication, and                    *)
(* resident_owner_consume.py answers a product's request with one output   *)
(* of the selected model, computed by a worker under the heavy-worker      *)
(* lease.                                                                  *)
(*                                                                         *)
(* The evaluator runs the handoff, once per pinned enrollment; two         *)
(* controllers may be started for the same request.  The owner's native    *)
(* registry is external: it publishes, selects and withdraws versions.     *)
(* Evaluator and controllers may die at any step; a controller's unit      *)
(* takes the processes it started with it.                                 *)
(***************************************************************************)
EXTENDS Naturals, Sequences

CONSTANTS
    Enrollments,   \* operator-pinned enrollments of the owner, 1..n in order
    Controllers,   \* processes started for the request
    Expires,       \* expires_at_ms of the request
    MaxVersion,    \* bound: selections of the registry
    MaxTime        \* bound: the clock

VARIABLES disk, proc, world
vars == <<disk, proc, world>>

None == 0
Idle == [at |-> "idle", e |-> None, result |-> "none"]
Off == [at |-> "off", loaded |-> None, made |-> None, cancelled |-> FALSE]

Init ==
    /\ disk = [ enrolled |-> 1, attempt |-> {}, handoff |-> [e \in Enrollments |-> "none"],
                prepared |-> FALSE, tried |-> FALSE, receipt |-> "none", hold |-> FALSE ]
    /\ proc = [ eval |-> Idle, ctl |-> [c \in Controllers |-> Off] ]
    /\ world = [ now |-> 0, published |-> [e \in Enrollments |-> 0], version |-> None,
                 trial |-> FALSE, lease |-> "free", released |-> <<>> ]

-----------------------------------------------------------------------------
(* handoff: the evaluator's terminal hook for a qualified plan. *)

Handing(at) == proc.eval.at = at
Hand(at) == proc' = [proc EXCEPT !.eval.at = at]
Result(r) == proc' = [proc EXCEPT !.eval.at = "receipt", !.eval.result = r]

\* Fault: the attempt is only recorded with its receipt.
AttemptUnsaved ==
    /\ Handing("idle") /\ disk.handoff[disk.enrolled] = "none"
    /\ proc' = [proc EXCEPT !.eval = [Idle EXCEPT !.at = "prepare", !.e = disk.enrolled]]
    /\ UNCHANGED <<disk, world>>

\* A receipt is cached; an attempt without one stays blocked.
Attempt ==
    /\ Handing("idle") /\ disk.handoff[disk.enrolled] = "none" /\ disk.enrolled \notin disk.attempt
    /\ disk' = [disk EXCEPT !.attempt = @ \cup {disk.enrolled}]
    /\ proc' = [proc EXCEPT !.eval = [Idle EXCEPT !.at = "prepare", !.e = disk.enrolled]]
    /\ UNCHANGED world

\* _qualification, _registration, validate_payload, manifest_for: the payload
\* of the reproduced qualification, accepted by the native verifier.
Prepare ==
    /\ Handing("prepare")
    /\ disk' = [disk EXCEPT !.prepared = TRUE]
    /\ Hand("publish")
    /\ UNCHANGED world

\* Any check of check_config, prepare and publish refuses.
HandoffBlocked ==
    /\ Handing("prepare") \/ Handing("publish")
    /\ Result("blocked")
    /\ UNCHANGED <<disk, world>>

\* No publication request is pinned for the plan.
AwaitSignature ==
    /\ Handing("publish")
    /\ Result("awaiting")
    /\ UNCHANGED <<disk, world>>

\* publish: the native owner publishes; its answer may be lost.
Publish ==
    /\ Handing("publish")
    /\ world' = [world EXCEPT !.published[proc.eval.e] = @ + 1]
    /\ \E r \in {"published", "blocked"} : Result(r)
    /\ UNCHANGED disk

WriteHandoff ==
    /\ Handing("receipt")
    /\ disk' = [disk EXCEPT !.handoff[proc.eval.e] = proc.eval.result]
    /\ proc' = [proc EXCEPT !.eval = Idle]
    /\ UNCHANGED world

EvaluatorCrash ==
    /\ ~Handing("idle")
    /\ proc' = [proc EXCEPT !.eval = Idle]
    /\ UNCHANGED <<disk, world>>

-----------------------------------------------------------------------------
(* controller: one request, in its own systemd unit. *)

At(c, at) == proc.ctl[c].at = at
Goto(c, at) == proc' = [proc EXCEPT !.ctl[c].at = at]
End(c) == proc' = [proc EXCEPT !.ctl[c] = Off]

\* request.lock, inside a verified bounded unit.
Locked == \E c \in Controllers : ~At(c, "off") /\ ~At(c, "retained")

Fresh == disk.receipt = "none" /\ ~disk.tried

Begin(c) ==
    /\ At(c, "off") /\ disk.prepared /\ ~Locked /\ Fresh
    /\ disk' = [disk EXCEPT !.tried = TRUE]
    /\ Goto(c, "load")
    /\ UNCHANGED world

\* consume: load_laya_selected.
Load(c) ==
    /\ At(c, "load") /\ world.now < Expires /\ world.version # None
    /\ proc' = [proc EXCEPT !.ctl[c].at = "queue", !.ctl[c].loaded = world.version]
    /\ UNCHANGED <<disk, world>>

\* check_queue and Gate.acquire: original trials have priority.
Acquire(c) ==
    /\ At(c, "queue") /\ ~world.trial /\ world.lease = "free" /\ ~disk.hold
    /\ world' = [world EXCEPT !.lease = c]
    /\ Goto(c, "admitted")
    /\ UNCHANGED disk

Deferred(c) ==
    /\ At(c, "queue")
    /\ Goto(c, "blocked")
    /\ UNCHANGED <<disk, world>>

\* check_queue once more under the lease, then Popen.
Spawn(c) ==
    /\ At(c, "admitted") /\ ~world.trial /\ ~proc.ctl[c].cancelled /\ world.now < Expires
    /\ Goto(c, "running")
    /\ UNCHANGED <<disk, world>>

\* predict_payload in the worker.
WorkerOutput(c) ==
    /\ At(c, "running") /\ world.now < Expires
    /\ proc' = [proc EXCEPT !.ctl[c].at = "stopping", !.ctl[c].made = world.version]
    /\ UNCHANGED <<disk, world>>

\* It fails, runs out of time, is cancelled or yields to a registered trial.
WorkerStopped(c) ==
    /\ At(c, "running")
    /\ Goto(c, "stopping")
    /\ UNCHANGED <<disk, world>>

Release(c) == world' = [world EXCEPT !.lease = "free"]

\* stop_and_reap returned tree_reaped; record_native_exit may hold.
Reaped(c, fatal) ==
    /\ At(c, "stopping")
    /\ disk' = [disk EXCEPT !.hold = @ \/ fatal]
    /\ Goto(c, IF proc.ctl[c].made # None /\ ~fatal THEN "output" ELSE "blocked")
    /\ Release(c)

\* The request ends under the lease without a worker.
NotSpawned(c) ==
    /\ At(c, "admitted")
    /\ Goto(c, "blocked")
    /\ Release(c)
    /\ UNCHANGED disk

\* Some descendant does not end: hold_unreaped.
Unreaped(c) ==
    /\ At(c, "stopping")
    /\ Goto(c, "unreaped")
    /\ UNCHANGED <<disk, world>>

HoldUnreaped(c) ==
    /\ At(c, "unreaped")
    /\ disk' = [disk EXCEPT !.hold = TRUE]
    /\ Goto(c, "retained")
    /\ UNCHANGED world

\* _output: bound to the request and not expired.
OutputValid(c) ==
    /\ At(c, "output") /\ world.now < Expires
    /\ Goto(c, "revalidate")
    /\ UNCHANGED <<disk, world>>

\* Fault: the loaded version is not compared with the selected one again.
StillEnrolled(c) == world.version # None
\* revalidate_laya_output: CURRENT is the selection that was loaded.
Current(c) == world.version = proc.ctl[c].loaded

Revalidate(c) ==
    /\ At(c, "revalidate") /\ Current(c) /\ world.now < Expires
    /\ Goto(c, "consumed")
    /\ UNCHANGED <<disk, world>>

Blocked(c) ==
    /\ \E at \in {"load", "output", "revalidate"} : At(c, at)
    /\ Goto(c, "blocked")
    /\ UNCHANGED <<disk, world>>

WriteBlocked(c) ==
    /\ At(c, "blocked")
    /\ disk' = [disk EXCEPT !.receipt = "blocked"]
    /\ End(c)
    /\ UNCHANGED world

\* The receipt is durable before the output is returned.
WriteConsumed(c) ==
    /\ At(c, "consumed")
    /\ disk' = [disk EXCEPT !.receipt = IF proc.ctl[c].cancelled THEN "blocked" ELSE "consumed"]
    /\ Goto(c, IF proc.ctl[c].cancelled THEN "withheld" ELSE "deliver")
    /\ UNCHANGED world

\* Fault: a slow write of the receipt does not count against the deadline.
DeliverLate(c) ==
    /\ At(c, "deliver") /\ ~proc.ctl[c].cancelled
    /\ world' = [world EXCEPT !.released = Append(@,
                    [loaded |-> proc.ctl[c].loaded, made |-> proc.ctl[c].made, at |-> world.now])]
    /\ End(c)
    /\ UNCHANGED disk
Deliver(c) ==
    /\ At(c, "deliver") /\ ~proc.ctl[c].cancelled /\ world.now < Expires
    /\ world' = [world EXCEPT !.released = Append(@,
                    [loaded |-> proc.ctl[c].loaded, made |-> proc.ctl[c].made, at |-> world.now])]
    /\ End(c)
    /\ UNCHANGED disk

\* Cancelled or expired meanwhile: only the receipt remains.
Withhold(c) ==
    /\ At(c, "withheld") \/ (At(c, "deliver") /\ (proc.ctl[c].cancelled \/ world.now >= Expires))
    /\ End(c)
    /\ UNCHANGED <<disk, world>>

Cancel(c) ==
    /\ ~At(c, "off") /\ ~proc.ctl[c].cancelled
    /\ proc' = [proc EXCEPT !.ctl[c].cancelled = TRUE]
    /\ UNCHANGED <<disk, world>>

\* The process dies or its unit's time is over; its locks go with it.
UnitEnds(c) ==
    /\ ~At(c, "off")
    /\ End(c)
    /\ world' = [world EXCEPT !.lease = IF @ = c THEN "free" ELSE @]
    /\ UNCHANGED disk

-----------------------------------------------------------------------------
(* The registry, the operator and the other users of the lease. *)

Select ==
    /\ \E e \in Enrollments : world.published[e] > 0
    /\ world.version < MaxVersion
    /\ world' = [world EXCEPT !.version = @ + 1]
    /\ UNCHANGED <<disk, proc>>

Enroll ==
    /\ disk.enrolled + 1 \in Enrollments
    /\ disk' = [disk EXCEPT !.enrolled = @ + 1]
    /\ UNCHANGED <<proc, world>>

Trial ==
    /\ world' = [world EXCEPT !.trial = ~@]
    /\ UNCHANGED <<disk, proc>>

\* The operator has seen that the tree is gone.
Unhold ==
    /\ disk.hold
    /\ disk' = [disk EXCEPT !.hold = FALSE]
    /\ UNCHANGED <<proc, world>>

Tick ==
    /\ world.now < MaxTime
    /\ world' = [world EXCEPT !.now = @ + 1]
    /\ UNCHANGED <<disk, proc>>

ControllerNext(c) ==
    \/ Begin(c) \/ Load(c) \/ Acquire(c) \/ Deferred(c) \/ Spawn(c) \/ WorkerOutput(c)
    \/ WorkerStopped(c) \/ (\E fatal \in BOOLEAN : Reaped(c, fatal)) \/ NotSpawned(c) \/ Unreaped(c)
    \/ HoldUnreaped(c) \/ OutputValid(c) \/ Revalidate(c) \/ Blocked(c) \/ WriteBlocked(c)
    \/ WriteConsumed(c) \/ Deliver(c) \/ Withhold(c) \/ Cancel(c) \/ UnitEnds(c)

Next ==
    \/ Attempt \/ Prepare \/ HandoffBlocked \/ AwaitSignature \/ Publish \/ WriteHandoff
    \/ EvaluatorCrash
    \/ \E c \in Controllers : ControllerNext(c)
    \/ Select \/ Enroll \/ Trial \/ Unhold \/ Tick

Spec == Init /\ [][Next]_vars

-----------------------------------------------------------------------------
\* Each enrollment is asked to publish a plan at most once, whatever answers
\* are lost and whenever the evaluator restarts.  A request is answered at most
\* once, only after its receipt is durable, before it expires, and with an
\* output of a version that was still the selected one when the worker had
\* finished.
AdvisoryFounded ==
    /\ \A e \in Enrollments :
          /\ world.published[e] <= 1
          /\ disk.handoff[e] = "published" => world.published[e] = 1
    /\ Len(world.released) <= 1
    /\ \A i \in 1..Len(world.released) :
          /\ disk.receipt = "consumed"
          /\ world.released[i].loaded = world.released[i].made
          /\ world.released[i].at < Expires
=============================================================================
