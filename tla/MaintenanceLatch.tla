-------------------------- MODULE MaintenanceLatch --------------------------
(***************************************************************************)
(* scripts/hepta_maintenance_latch.py: the durable maintenance hold, the   *)
(* native kill-switch marker under /run, and the operator actions on them. *)
(* Every action takes the operator lock (a blocking exclusive flock), so   *)
(* `proc' is the one process inside it; native Execution engages its own   *)
(* empty marker without the lock.  A process may die at any step, and a    *)
(* reboot clears /run.                                                     *)
(***************************************************************************)
EXTENDS Naturals

CONSTANTS
    MaxEpochs,   \* bound: instances of native Execution, and of the Gateway
    MaxHolds     \* bound: maintenance holds created

VARIABLES
    disk,    \* [hold, switch]: maintenance-hold.json (0: absent) and the kill-switch marker
    proc,    \* the process in the lock: [op, at, marker, hold, epoch, gateway]
    world    \* native Execution and the Gateway; permit: for whom the marker was removed

Idle == [op |-> "none", at |-> "idle", marker |-> "absent", hold |-> 0, epoch |-> 0, gateway |-> 0]
Nobody == [by |-> "nobody", epoch |-> 0, hold |-> 0]

Init ==
    /\ disk = [hold |-> 0, switch |-> "absent"]
    /\ proc = Idle
    /\ \E crypto \in {"active", "disabled"} :
         world = [ native |-> "down", epoch |-> 0, gateway |-> 1, quiet |-> FALSE,
                   crypto |-> crypto, holds |-> 0, permit |-> Nobody ]

\* operator_lock.
LockFree == proc.op = "none"

Known == disk.switch \in {"absent", "empty", "tagged"}

\* The instance that finds the marker gone: the running one, or the one starting.
NextReader == IF world.native = "pre" THEN world.epoch + 1 ELSE world.epoch

\* _write_once of the marker, and its removal with the permission it stands for.
Engage(tag) == disk' = [disk EXCEPT !.switch = IF @ = "absent" THEN tag ELSE @]
Open(by, epoch) ==
    /\ disk' = [disk EXCEPT !.switch = "absent"]
    /\ world' = [world EXCEPT !.permit = [by |-> by, epoch |-> epoch, hold |-> disk.hold]]

-----------------------------------------------------------------------------
(* perform: actions of one write. *)

Pause ==
    /\ LockFree /\ Known
    /\ Engage("tagged")
    /\ UNCHANGED <<proc, world>>

\* Without --resume-native-hold only the CLI's own tagged marker is removed.
PaperOn ==
    /\ LockFree /\ disk.hold = 0 /\ disk.switch = "tagged"
    /\ Open("operator", NextReader)
    /\ UNCHANGED proc

\* Fault: ExecStartPre does not wait for the operator lock.
StartupHoldUnlocked ==
    /\ world.native = "down" /\ world.epoch < MaxEpochs
    /\ Engage("empty")
    /\ world' = [world EXCEPT !.native = "pre"]
    /\ UNCHANGED proc

\* native-startup-hold, run by ExecStartPre; the hold is not looked at.
StartupHold ==
    /\ world.native = "down" /\ world.epoch < MaxEpochs
    /\ LockFree
    /\ Engage("empty")
    /\ world' = [world EXCEPT !.native = "pre"]
    /\ UNCHANGED proc

-----------------------------------------------------------------------------
(* maintenance-hold and maintenance-release: two writes each. *)

MaintenanceHold ==
    /\ LockFree /\ Known
    /\ disk.hold # 0 \/ world.holds < MaxHolds
    /\ proc' = [Idle EXCEPT !.op = "hold", !.at = "mark", !.marker = disk.switch]
    /\ IF disk.hold # 0 THEN UNCHANGED <<disk, world>>
       ELSE /\ disk' = [disk EXCEPT !.hold = world.holds + 1]
            /\ world' = [world EXCEPT !.holds = @ + 1]

\* RACING_KILLSWITCH_CREATION when a marker has appeared: the same end.
HoldMark ==
    /\ proc.at = "mark"
    /\ IF proc.marker = "absent" THEN Engage("tagged") ELSE UNCHANGED disk
    /\ proc' = Idle
    /\ UNCHANGED world

\* Fault: the marker goes first, then the hold.
ReleaseMarkerFirst ==
    /\ LockFree /\ disk.hold # 0 /\ disk.switch \in {"empty", "tagged"}
    /\ IF disk.switch = "tagged" THEN Open("operator", NextReader) ELSE UNCHANGED <<disk, world>>
    /\ proc' = [Idle EXCEPT !.op = "release", !.at = "unmark", !.marker = "empty", !.hold = disk.hold]

\* The hold is retired while the native entry block is still installed.
MaintenanceRelease ==
    /\ LockFree /\ disk.hold # 0 /\ disk.switch \in {"empty", "tagged"}
    /\ disk' = [disk EXCEPT !.hold = 0]
    /\ proc' = [Idle EXCEPT !.op = "release", !.at = "unmark", !.marker = disk.switch, !.hold = disk.hold]
    /\ UNCHANGED world

\* Execution's empty marker survives the release.
ReleaseMark ==
    /\ proc.at = "unmark"
    /\ IF proc.marker = "empty" THEN UNCHANGED <<disk, world>> ELSE Open("operator", NextReader)
    /\ proc' = Idle

\* The marker could not be removed: the original hold bytes are written back.
ReleaseRestores ==
    /\ proc.at = "unmark" /\ proc.marker = "tagged"
    /\ disk' = [disk EXCEPT !.hold = proc.hold]
    /\ proc' = Idle
    /\ UNCHANGED world

-----------------------------------------------------------------------------
(* paper-on --resume-native-hold. *)

\* _health_identity: the marker is the only thing that blocks the instance.
Blocked == world.native = "up" /\ world.quiet /\ disk.switch # "absent"

\* _service_snapshot, and the epoch of the first health answer.
SameInstance == world.native = "up" /\ world.epoch = proc.epoch /\ world.gateway = proc.gateway

Resume(at) == proc.op = "resume" /\ proc.at = at

ResumeBegin ==
    /\ LockFree /\ disk.hold = 0 /\ disk.switch = "empty"
    /\ Blocked
    /\ proc' = [Idle EXCEPT !.op = "resume", !.at = "paper",
                            !.epoch = world.epoch, !.gateway = world.gateway]
    /\ UNCHANGED <<disk, world>>

\* _resume_observation: health, orders and positions of the lane, health again.
ObservePaper ==
    /\ Resume("paper") /\ SameInstance /\ Blocked
    /\ proc' = [proc EXCEPT !.at = "crypto"]
    /\ UNCHANGED <<disk, world>>

\* hepta_inactive_owner: a disabled lane is proved by the native audit of its
\* fence, which the same instance must answer while it is blocked.
CryptoPolicyDisabled == world.crypto = "disabled"
InactiveOwnerProved == SameInstance /\ disk.switch # "absent"

ObserveCrypto ==
    /\ Resume("crypto") /\ ~CryptoPolicyDisabled /\ SameInstance /\ Blocked
    /\ proc' = [proc EXCEPT !.at = "observed"]
    /\ UNCHANGED <<disk, world>>

InactiveCryptoProof ==
    /\ Resume("crypto") /\ CryptoPolicyDisabled /\ InactiveOwnerProved
    /\ proc' = [proc EXCEPT !.at = "observed"]
    /\ UNCHANGED <<disk, world>>

\* check_bindings, the marker's identity, then the unlink.  --check ends here.
ResumeUnlink ==
    /\ Resume("observed") /\ disk.hold = 0 /\ disk.switch = "empty"
    /\ Open("resume", proc.epoch)
    /\ proc' = [proc EXCEPT !.at = "verify"]

\* _verify_native_release.
ResumeVerified ==
    /\ Resume("verify") /\ disk.hold = 0 /\ disk.switch = "absent" /\ SameInstance
    /\ proc' = Idle
    /\ UNCHANGED <<disk, world>>

\* Any exception after the unlink engages the marker again, if none is there.
ResumeReengages ==
    /\ Resume("verify")
    /\ Engage("empty")
    /\ proc' = Idle
    /\ UNCHANGED world

\* A refusal, an exception that leaves the files alone, a re-engagement that
\* cannot be written (NATIVE_RESUME_STATE_UNCERTAIN), or the death of the process.
Leave ==
    /\ ~LockFree
    /\ proc' = Idle
    /\ UNCHANGED <<disk, world>>

-----------------------------------------------------------------------------
(* Native Execution, the Gateway and the machine. *)

\* ExecStart after ExecStartPre.
NativeUp ==
    /\ world.native = "pre"
    /\ world' = [world EXCEPT !.native = "up", !.epoch = @ + 1, !.quiet = FALSE]
    /\ UNCHANGED <<disk, proc>>

NativeDown ==
    /\ world.native # "down"
    /\ world' = [world EXCEPT !.native = "down"]
    /\ UNCHANGED <<disk, proc>>

\* Recovery, orders and reconciliations come and go.
NativeQuiet ==
    /\ world.native = "up"
    /\ world' = [world EXCEPT !.quiet = ~@]
    /\ UNCHANGED <<disk, proc>>

NativeEngage ==
    /\ world.native = "up" /\ disk.switch = "absent"
    /\ Engage("empty")
    /\ UNCHANGED <<proc, world>>

GatewayRestart ==
    /\ world.gateway < MaxEpochs
    /\ world' = [world EXCEPT !.gateway = @ + 1]
    /\ UNCHANGED <<disk, proc>>

\* A marker with other contents: every action refuses it.
ForeignMarker ==
    /\ disk.switch = "absent"
    /\ Engage("other")
    /\ UNCHANGED <<proc, world>>

Reboot ==
    /\ disk' = [disk EXCEPT !.switch = "absent"]
    /\ proc' = Idle
    /\ world' = [world EXCEPT !.native = "down", !.permit = Nobody]

Next ==
    \/ Pause \/ PaperOn \/ StartupHold
    \/ MaintenanceHold \/ HoldMark \/ MaintenanceRelease \/ ReleaseMark \/ ReleaseRestores
    \/ ResumeBegin \/ ObservePaper \/ ObserveCrypto \/ InactiveCryptoProof
    \/ ResumeUnlink \/ ResumeVerified \/ ResumeReengages \/ Leave
    \/ NativeUp \/ NativeDown \/ NativeQuiet \/ NativeEngage
    \/ GatewayRestart \/ ForeignMarker \/ Reboot

-----------------------------------------------------------------------------
\* New risk is open at a native instance (it runs and no marker is there) only
\* if the marker was removed for that very instance and under no maintenance
\* hold: by the operator who had set it, or by a resume that had observed that
\* instance blocked by nothing but the marker.  No crash, restart, reboot, lost
\* resume, failed re-engagement or interrupted release leaves another one open.
OpenOnlyAsObserved ==
    world.native = "up" /\ disk.switch = "absent" =>
        /\ world.permit.by # "nobody" /\ world.permit.epoch = world.epoch
        /\ world.permit.hold = 0
=============================================================================
