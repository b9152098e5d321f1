-------------------------- MODULE DriverActivation --------------------------
(***************************************************************************)
(* scripts/activate_prepared_driver.py: replace the release of one driver  *)
(* lane under the maintenance hold.  An audited stop, a new ExecStart      *)
(* drop-in, a verified start, and the same sequence backwards when it      *)
(* fails.  systemd works from the configuration it has loaded, which is    *)
(* not the files until daemon-reload.  Every read, check and systemctl     *)
(* call may refuse; the tool may die; there is no checkpoint.              *)
(***************************************************************************)
EXTENDS Naturals

CONSTANT MaxInvocations   \* bound: driver processes

VARIABLES
    disk,    \* [exec, guard]: the two drop-ins of the unit
    proc,    \* the tool: [at, orig, target, roll, inv, corr, attempt, receipt]
    world    \* [loaded, drv, flat, ready, corr, changed, audited, stops]

NONE == "none"
Releases == {"a", "b"}

Idle == [at |-> "idle", orig |-> NONE, target |-> NONE, roll |-> "no", inv |-> 0, corr |-> 0, attempt |-> 0,
         receipt |-> [status |-> NONE, rollback |-> NONE, guard |-> FALSE]]

Init ==
    /\ disk = [exec |-> "a", guard |-> "yes"]
    /\ proc = Idle
    /\ \E flat, ready \in BOOLEAN :
         world = [ loaded |-> [exec |-> "a", guard |-> "yes"], drv |-> [at |-> "up", bin |-> "a", inv |-> 1],
                   flat |-> flat, ready |-> ready, corr |-> 0, changed |-> NONE, audited |-> {}, stops |-> {} ]

At(step) == proc.at = step
Go(step) == proc' = [proc EXCEPT !.at = step]

\* running_driver: the live process is the one of the loaded ExecStart.
Running(bin) == world.drv.at = "up" /\ world.drv.bin = bin /\ world.loaded.exec = bin
SameDriver == world.drv.at = "up" /\ world.drv.inv = proc.inv /\ world.loaded.exec = world.drv.bin

\* What must stay as it was at the start: the two maintenance markers, the
\* other risk units, the interactive Broker's process and its connections.
MarkersUnchanged == world.changed # "markers"
PeersUnchanged == world.changed # "peers"
BrokerIdentity == IF world.changed = "broker" THEN 2 ELSE 1
BrokerUnchanged == BrokerIdentity = 1

Context(guard) ==
    /\ MarkersUnchanged /\ PeersUnchanged /\ BrokerUnchanged
    /\ disk.guard = guard /\ world.loaded.guard = guard

Wanted == IF proc.roll = "no" THEN proc.target ELSE proc.orig

StateUnchanged == world.corr = proc.corr

Reloaded == [world EXCEPT !.loaded = disk']

-----------------------------------------------------------------------------
\* verify_prepared: the candidate derives from what is installed.
Candidate == CHOOSE r \in Releases : r # disk.exec

Begin ==
    /\ At("idle") /\ Running(disk.exec) /\ Context("yes")
    /\ proc' = [Idle EXCEPT !.at = "audit", !.orig = disk.exec, !.inv = world.drv.inv, !.corr = world.corr,
                            !.target = Candidate]
    /\ UNCHANGED <<disk, world>>

\* check_owner_zero: recovery complete, no order, no position.
OwnerZero == world.ready /\ world.flat

\* fresh_audit: the audit lies between two looks at the same process.
Audit ==
    /\ At("audit") /\ Context("yes") /\ SameDriver /\ StateUnchanged
    /\ disk.exec = (IF proc.roll = "no" THEN proc.orig ELSE proc.target)
    /\ OwnerZero
    /\ world' = [world EXCEPT !.audited = @ \cup {proc.inv}]
    /\ Go("allow")
    /\ UNCHANGED disk

\* A refusal for pending recovery may be retried twice.
AuditPending ==
    /\ At("audit") /\ Context("yes") /\ SameDriver /\ ~world.ready /\ proc.attempt < 2
    /\ proc' = [proc EXCEPT !.at = "wait", !.attempt = @ + 1]
    /\ UNCHANGED <<disk, world>>

WaitForNativeRecovery ==
    /\ At("wait") /\ world.ready
    /\ Go("audit")
    /\ UNCHANGED <<disk, world>>

AllowStop ==
    /\ At("allow") /\ disk.guard = "yes"
    /\ disk' = [disk EXCEPT !.guard = "no"]
    /\ Go("reload")
    /\ UNCHANGED world

ReloadForStop ==
    /\ At("reload")
    /\ UNCHANGED disk
    /\ world' = Reloaded
    /\ Go("stop")

Stop ==
    /\ At("stop") /\ Context("no") /\ SameDriver
    /\ world' = [world EXCEPT !.drv.at = "stopping", !.stops = @ \cup {proc.inv}]
    /\ Go("stopped")
    /\ UNCHANGED disk

\* Under driver.lock; the stopped driver's state must not have changed.
ReplaceExecStart ==
    /\ At("stopped") /\ world.drv.at = "down" /\ Context("no") /\ StateUnchanged
    /\ disk' = [disk EXCEPT !.exec = Wanted]
    /\ Go("reguard")
    /\ UNCHANGED world

RestoreGuard ==
    /\ At("reguard") /\ disk.guard = "no"
    /\ disk' = [disk EXCEPT !.guard = "yes"]
    /\ Go("reload2")
    /\ UNCHANGED world

ReloadForStart ==
    /\ At("reload2")
    /\ UNCHANGED disk
    /\ world' = Reloaded
    /\ Go("start")

\* start_verified.
StartDriver ==
    /\ At("start") /\ Context("yes") /\ world.drv.at \in {"down", "failed"}
    /\ world.drv.inv < MaxInvocations
    /\ world' = [world EXCEPT !.drv = [at |-> "up", bin |-> world.loaded.exec, inv |-> @.inv + 1]]
    /\ Go("watch")
    /\ UNCHANGED disk

StartVerified ==
    /\ At("watch") /\ Running(Wanted) /\ Context("yes") /\ StateUnchanged
    /\ proc' = [proc EXCEPT !.at = IF proc.roll = "restart" THEN "final" ELSE "ensure",
                            !.receipt.status = IF proc.roll = "no" THEN "ACTIVATED" ELSE @,
                            !.receipt.rollback = IF proc.roll = "no" THEN @ ELSE "ORIGINAL_DRIVER_RESTORED"]
    /\ UNCHANGED <<disk, world>>

SwitchSteps == {"audit", "wait", "allow", "reload", "stop", "stopped", "reguard", "reload2", "start", "watch"}

\* An exception leaves switch through its finally.
Fail ==
    /\ proc.at \in SwitchSteps
    /\ proc' = [proc EXCEPT !.at = IF proc.roll = "restart" THEN "final" ELSE "ensure",
                            !.receipt.status = "FAILED",
                            !.receipt.rollback = IF proc.roll = "no" THEN @ ELSE "INCOMPLETE_HELD"]
    /\ UNCHANGED <<disk, world>>

-----------------------------------------------------------------------------
(* ensure_guard: the readback decides whether to reload. *)

\* Fault: the reload depends on whether the file had to be changed.
GuardReloadIfChanged ==
    IF disk.guard = "no" THEN Reloaded ELSE world

GuardReload ==
    IF disk.guard = "no" \/ world.loaded.guard = "no" THEN Reloaded ELSE world

EnsureSteps == {"ensure", "except", "final"}

\* switch's finally, the handler's first call, the handler's finally.
AfterEnsure ==
    CASE At("ensure") /\ proc.receipt.status = "ACTIVATED" -> [proc EXCEPT !.at = "told", !.receipt.guard = TRUE]
      [] At("ensure") /\ proc.roll = "switch"              -> [proc EXCEPT !.at = "final"]
      [] At("ensure") /\ proc.receipt.status = "FAILED" /\ proc.roll = "no" -> [proc EXCEPT !.at = "except"]
      [] At("except")                                      -> [proc EXCEPT !.at = "choose"]
      [] At("final")                                       -> [proc EXCEPT !.at = "told", !.receipt.guard = TRUE]

EnsureGuard ==
    /\ proc.at \in EnsureSteps
    /\ disk' = [disk EXCEPT !.guard = "yes"]
    /\ world' = GuardReload
    /\ proc' = AfterEnsure

\* The file, the reload or the readback fails.
AfterEnsureFailed ==
    CASE At("ensure") /\ proc.roll = "no" -> [proc EXCEPT !.at = "except", !.receipt.status = "FAILED"]
      [] At("final")                      -> [proc EXCEPT !.at = "told"]
      [] OTHER                            -> [proc EXCEPT !.at = "final", !.receipt.rollback = "INCOMPLETE_HELD"]

EnsureGuardFails ==
    /\ proc.at \in EnsureSteps
    /\ \E guard \in {disk.guard, "yes"} : disk' = [disk EXCEPT !.guard = guard]
    /\ proc' = AfterEnsureFailed
    /\ UNCHANGED world

-----------------------------------------------------------------------------
(* The handler of a failed activation. *)

OriginalRunning ==
    /\ At("choose") /\ Context("yes") /\ Running(proc.orig)
    /\ disk' = [disk EXCEPT !.exec = proc.orig]
    /\ world' = Reloaded
    /\ StateUnchanged
    /\ proc' = [proc EXCEPT !.at = "final", !.receipt.rollback = "ORIGINAL_DRIVER_RUNNING"]

\* The candidate that runs is stopped only after a new audit.
CandidateRunning ==
    /\ At("choose") /\ Context("yes") /\ Running(proc.target)
    /\ proc' = [proc EXCEPT !.at = "audit", !.roll = "switch", !.attempt = 0, !.inv = world.drv.inv]
    /\ UNCHANGED <<disk, world>>

NothingRunning ==
    /\ At("choose") /\ Context("yes") /\ world.drv.at \in {"down", "failed"} /\ StateUnchanged
    /\ disk' = [disk EXCEPT !.exec = proc.orig]
    /\ world' = Reloaded
    /\ proc' = [proc EXCEPT !.at = "start", !.roll = "restart"]

HandlerFails ==
    /\ At("choose")
    /\ disk' \in {disk, [disk EXCEPT !.exec = proc.orig]}
    /\ proc' = [proc EXCEPT !.at = "final", !.receipt.rollback = "INCOMPLETE_HELD"]
    /\ UNCHANGED world

Told ==
    /\ At("told")
    /\ proc' = Idle
    /\ UNCHANGED <<disk, world>>

-----------------------------------------------------------------------------
(* The machine. *)

Die ==
    /\ ~At("idle")
    /\ proc' = Idle
    /\ UNCHANGED <<disk, world>>

StopDone ==
    /\ world.drv.at = "stopping"
    /\ world' = [world EXCEPT !.drv.at = "down"]
    /\ UNCHANGED <<disk, proc>>

\* Restart=always, until systemd's start limit.
DriverCrash ==
    /\ world.drv.at = "up"
    /\ \E at \in {"restarting", "failed"} : world' = [world EXCEPT !.drv.at = at]
    /\ UNCHANGED <<disk, proc>>

AutoRestart ==
    /\ world.drv.at = "restarting" /\ world.drv.inv < MaxInvocations
    /\ world' = [world EXCEPT !.drv = [at |-> "up", bin |-> world.loaded.exec, inv |-> @.inv + 1]]
    /\ UNCHANGED <<disk, proc>>

\* An order that was alive at the hold ends; the driver's books follow.
DriverSettles ==
    /\ world.drv.at = "up" /\ ~world.flat
    /\ world' = [world EXCEPT !.flat = TRUE, !.corr = 1]
    /\ UNCHANGED <<disk, proc>>

BrokerAuditMoves ==
    /\ world' = [world EXCEPT !.ready = ~@]
    /\ UNCHANGED <<disk, proc>>

ContextChanges ==
    /\ world.changed = NONE
    /\ \E what \in {"markers", "peers", "broker"} : world' = [world EXCEPT !.changed = what]
    /\ UNCHANGED <<disk, proc>>

Next ==
    \/ Begin \/ Audit \/ AuditPending \/ WaitForNativeRecovery \/ AllowStop \/ ReloadForStop \/ Stop \/ ReplaceExecStart \/ RestoreGuard
    \/ ReloadForStart \/ StartDriver \/ StartVerified \/ Fail \/ EnsureGuard \/ EnsureGuardFails
    \/ OriginalRunning \/ CandidateRunning \/ NothingRunning \/ HandlerFails \/ Told
    \/ Die \/ StopDone \/ DriverCrash \/ AutoRestart \/ DriverSettles
    \/ BrokerAuditMoves \/ ContextChanges

-----------------------------------------------------------------------------
\* What the receipt says of the lane is true of the files and of systemd's
\* loaded configuration, at whatever step the activation or its rollback
\* failed: after ACTIVATED the candidate's ExecStart is in force, after a
\* restored or running original the original's, and a guard that is reported
\* restored refuses manual stops.  And every process that was stopped, on the
\* way forth or back, had itself been audited flat.
ReceiptTellsLane ==
    /\ At("told") =>
         LET r == proc.receipt
             InForce(bin) == disk.exec = bin /\ world.loaded.exec = bin /\ world.drv.bin = bin
         IN /\ r.status = "ACTIVATED" => InForce(proc.target)
            /\ r.rollback \in {"ORIGINAL_DRIVER_RESTORED", "ORIGINAL_DRIVER_RUNNING"} => InForce(proc.orig)
            /\ r.guard => disk.guard = "yes" /\ world.loaded.guard = "yes"
    /\ world.stops \subseteq world.audited
=============================================================================
