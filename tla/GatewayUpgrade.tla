--------------------------- MODULE GatewayUpgrade ---------------------------
(***************************************************************************)
(* scripts/activate_prepared_gateway.py: one Gateway handoff under the     *)
(* maintenance hold.  The controllers are stopped, the owners fenced, the  *)
(* Gateway replaced, each owner's lease resumed and its controller         *)
(* started again.  The tool holds the operator lock throughout and may die *)
(* at any step; --resume continues from the checkpoint file.  Any read or  *)
(* check may refuse, which is Fail.  The native phase is never prepared    *)
(* (require_stop_authority refuses), so Execution stays as it is.          *)
(***************************************************************************)
EXTENDS Naturals, FiniteSets

CONSTANTS
    Owners,      \* writing owners of the lease catalog, one controller unit each
    Residents,   \* owners whose controller runs; the others' lanes are frozen
    MaxStarts    \* bound: Gateway processes

VARIABLES
    disk,    \* [ck, policy, dropin, gen]: checkpoint, stop policies, ExecStart override, lane states
    proc,    \* the tool: [at, resume, st, unit]; st is its copy of the checkpoint
    world    \* [gw, ctl, cat, resumes]: services, the lease catalog, resumes accepted

GW == "gateway"
NONE == "none"
Units == Residents \cup {GW}

NoCheckpoint ==
    [ status |-> NONE, stopping |-> NONE, requested |-> FALSE, stopped |-> {}, fenced |-> FALSE,
      gwStopped |-> FALSE, gwStarted |-> 0, selected |-> "candidate", release |-> "original",
      sent |-> {}, synced |-> {}, starting |-> NONE, started |-> {}, owned |-> {} ]

Idle == [at |-> "idle", resume |-> FALSE, st |-> NoCheckpoint, unit |-> NONE]

Init ==
    /\ disk = [ ck |-> NoCheckpoint, policy |-> [u \in Units |-> NONE], dropin |-> "original",
                gen |-> [o \in Owners |-> 0] ]
    /\ proc = Idle
    /\ world = [ gw |-> [at |-> "up", bin |-> "original", inv |-> 1, late |-> FALSE],
                 ctl |-> [o \in Residents |-> [at |-> "up", inv |-> 1]],
                 cat |-> [o \in Owners |-> [gen |-> 0, rec |-> FALSE]],
                 resumes |-> [o \in Owners |-> 0] ]

At(step) == proc.at = step
Go(step, st) == proc' = [proc EXCEPT !.at = step, !.st = st]
st == proc.st

Save(next) == disk' = [disk EXCEPT !.ck = next]

\* A unit as systemd shows it.
Active(u) == IF u = GW THEN world.gw.at ELSE world.ctl[u].at
Original(u) == Active(u) = "up" /\ (IF u = GW THEN world.gw.inv ELSE world.ctl[u].inv) = 1

SetUnit(u, at) ==
    IF u = GW THEN [world EXCEPT !.gw.at = at] ELSE [world EXCEPT !.ctl[u].at = at]

\* context: every unit is where the checkpoint left it.
StoppingConsistent ==
    st.stopping # NONE =>
        \/ Original(st.stopping)
        \/ Active(st.stopping) \in {"stopping", "down"} /\ st.requested

ControllersConsistent ==
    \A o \in Residents :
        \/ o = st.stopping \/ o = st.starting
        \/ o \notin st.stopped /\ Original(o)
        \/ o \in st.stopped \ st.started /\ Active(o) = "down"
        \/ o \in st.started /\ Active(o) = "up" /\ world.ctl[o].inv = 2

Context == disk.dropin = st.release /\ StoppingConsistent /\ ControllersConsistent

-----------------------------------------------------------------------------
(* Starting and resuming the transaction. *)

\* inspect, then the first checkpoint.
Inspect ==
    /\ At("idle") /\ disk.ck.status = NONE
    /\ Original(GW) /\ \A o \in Residents : Original(o)
    /\ \A u \in Units : disk.policy[u] = NONE
    /\ LET new == [NoCheckpoint EXCEPT !.status = "RUNNING"]
       IN Save(new) /\ proc' = [at |-> "run", resume |-> FALSE, st |-> new, unit |-> NONE]
    /\ UNCHANGED world

\* An override that is on disk but not yet in the checkpoint is adopted.
ResumeCheckpoint ==
    /\ At("idle") /\ disk.ck.status \in {"RUNNING", "HELD"}
    /\ LET adopt == disk.ck.gwStopped /\ disk.dropin \in {"candidate", "fallback"}
           new == [disk.ck EXCEPT !.status = "RUNNING",
                                  !.release = IF adopt THEN disk.dropin ELSE @,
                                  !.selected = IF adopt THEN disk.dropin ELSE @]
       IN Save(new) /\ proc' = [at |-> "run", resume |-> TRUE, st |-> new, unit |-> NONE]
    /\ UNCHANGED world

\* A start intent is only believed after a fresh proof of the resumed lease.
RecoverStarting ==
    /\ At("run") /\ Context /\ st.starting # NONE /\ st.starting \in st.synced
    /\ world.cat[st.starting] = [gen |-> 1, rec |-> FALSE] /\ disk.gen[st.starting] = 1
    /\ LET new == [st EXCEPT !.started = IF Active(st.starting) = "up" THEN @ \cup {st.starting} ELSE @,
                             !.starting = NONE]
       IN Save(new) /\ Go("run", new)
    /\ UNCHANGED world

\* No stop job exists: the original shield is restored and the stop starts over.
RecoverUnstopped ==
    /\ At("run") /\ Context /\ st.starting = NONE
    /\ st.stopping # NONE /\ Original(st.stopping)
    /\ LET new == [st EXCEPT !.stopping = NONE]
       IN /\ disk' = [disk EXCEPT !.ck = new, !.policy[st.stopping] = NONE]
          /\ Go("run", new)
    /\ UNCHANGED world

Stopped(unit) ==
    [st EXCEPT !.stopping = NONE, !.gwStopped = @ \/ unit = GW,
               !.stopped = IF unit = GW THEN @ ELSE @ \cup {unit}]

RecoverStopped ==
    /\ At("run") /\ Context /\ st.starting = NONE
    /\ st.stopping # NONE /\ Active(st.stopping) = "down"
    /\ Save(Stopped(st.stopping)) /\ Go("run", Stopped(st.stopping))
    /\ UNCHANGED world

Settled == At("run") /\ Context /\ st.starting = NONE /\ st.stopping = NONE

-----------------------------------------------------------------------------
(* controlled_stop of the controllers and of the Gateway.                  *)

ToStop == { o \in Residents : o \notin st.stopped }

\* After a fresh audit the intent is saved, with the policy it will own.
StopPrepare(unit) ==
    /\ Settled /\ Original(unit)
    /\ \/ unit \in ToStop
       \/ unit = GW /\ ToStop = {} /\ disk.policy[GW] # NONE /\ st.fenced /\ ~st.gwStopped
    /\ disk.policy[unit] \in {NONE, "held"}
    /\ LET new == [st EXCEPT !.stopping = unit, !.requested = FALSE, !.owned = @ \cup {unit}]
       IN Save(new) /\ Go("policy", new)
    /\ UNCHANGED world

StopPolicy ==
    /\ At("policy")
    /\ disk' = [disk EXCEPT !.policy[st.stopping] = "safe"]
    /\ Go("request", st)
    /\ UNCHANGED world

StopRequest ==
    /\ At("request") /\ Context
    /\ LET new == [st EXCEPT !.requested = TRUE] IN Save(new) /\ Go("stop", new)
    /\ UNCHANGED world

StopJob ==
    /\ At("stop")
    /\ world' = IF Active(st.stopping) = "up" THEN SetUnit(st.stopping, "stopping") ELSE world
    /\ Go("observe", st)
    /\ UNCHANGED disk

\* observe_stopped; manual-stop protection is restored whether or not it has stopped.
ObserveStopped ==
    /\ At("observe")
    /\ disk' = [disk EXCEPT !.policy[st.stopping] = "held",
                            !.ck = IF Active(st.stopping) = "down" THEN Stopped(st.stopping) ELSE @]
    /\ IF Active(st.stopping) = "down" THEN Go("run", Stopped(st.stopping)) ELSE Go("failed", st)
    /\ UNCHANGED world

-----------------------------------------------------------------------------
(* Fencing the owners. *)

\* Before any fence the Gateway must not restart by itself (Restart=no).
HoldGatewayIntent ==
    /\ Settled /\ ToStop = {} /\ disk.policy[GW] = NONE
    /\ LET new == [st EXCEPT !.owned = @ \cup {GW}] IN Save(new) /\ Go("holdgw", new)
    /\ UNCHANGED world

HoldGateway ==
    /\ At("holdgw")
    /\ disk' = [disk EXCEPT !.policy[GW] = "held"]
    /\ Go("run", st)
    /\ UNCHANGED world

\* recovery-query, unless the catalog already shows the exact fence.
FenceOwner(o) ==
    /\ Settled /\ ToStop = {} /\ disk.policy[GW] # NONE /\ ~st.fenced
    /\ ~world.cat[o].rec /\ world.gw.at = "up" /\ disk.gen[o] = world.cat[o].gen
    /\ world' = [world EXCEPT !.cat[o].rec = TRUE]
    /\ UNCHANGED <<disk, proc>>

OwnersFenced ==
    /\ Settled /\ ToStop = {} /\ disk.policy[GW] # NONE /\ ~st.fenced
    /\ \A o \in Owners : world.cat[o].rec /\ world.cat[o].gen = 0
    /\ LET new == [st EXCEPT !.fenced = TRUE] IN Save(new) /\ Go("run", new)
    /\ UNCHANGED world

-----------------------------------------------------------------------------
(* The new Gateway. *)

\* A candidate that failed while the tool was away is not started again.
SelectRelease ==
    /\ Settled /\ st.fenced /\ st.gwStopped /\ st.gwStarted = 0 /\ world.gw.at \in {"down", "failed"}
    /\ ~(proc.resume /\ st.selected = "candidate" /\ world.gw.at = "failed")
    /\ \A o \in Owners : world.cat[o] = [gen |-> 0, rec |-> TRUE]
    /\ disk' = [disk EXCEPT !.dropin = st.selected]
    /\ Go("selected", [st EXCEPT !.release = st.selected])
    /\ UNCHANGED world

SaveRelease ==
    /\ At("selected")
    /\ Save(st) /\ Go("startgw", st)
    /\ UNCHANGED world

\* systemd starts the configured binary under a new invocation; `late' tells
\* that an owner had been fenced or handed over by then.
NewGateway ==
    [ at |-> "up", bin |-> disk.dropin, inv |-> world.gw.inv + 1,
      late |-> \E o \in Owners : world.cat[o].rec \/ world.cat[o].gen # 0 ]

StartGateway ==
    /\ At("startgw") /\ world.gw.inv < MaxStarts
    /\ world' = [world EXCEPT !.gw = NewGateway]
    /\ Go("watchgw", st)
    /\ UNCHANGED disk

\* start_gateway saw a stable process, or found it running after an interruption.
GatewayStarted ==
    /\ \/ At("watchgw")
       \/ Settled /\ st.fenced /\ st.gwStopped /\ st.gwStarted = 0
    /\ world.gw.at = "up" /\ world.gw.bin = st.selected
    /\ LET new == [st EXCEPT !.gwStarted = world.gw.inv] IN Save(new) /\ Go("run", new)
    /\ UNCHANGED world

SameGateway ==
    st.fenced /\ st.gwStopped /\ st.gwStarted # 0
    /\ world.gw.at = "up" /\ world.gw.inv = st.gwStarted /\ world.gw.bin = st.selected

-----------------------------------------------------------------------------
(* resume_owner: the intent is durable before the one request.             *)

\* check_transition_catalog.
TransitionCatalog ==
    \A o \in Owners :
        IF o \in st.sent THEN world.cat[o] = [gen |-> 1, rec |-> FALSE]
        ELSE world.cat[o] = [gen |-> 0, rec |-> TRUE]

\* Fault: an intent without a confirmed result is sent again.
ResumeUnlessSynced(o) ==
    /\ Settled /\ SameGateway /\ o \notin st.synced
    /\ LET new == [st EXCEPT !.sent = @ \cup {o}]
       IN Save(new) /\ proc' = [proc EXCEPT !.at = "resume", !.st = new, !.unit = o]
    /\ UNCHANGED world

ResumeIntent(o) ==
    /\ Settled /\ SameGateway /\ TransitionCatalog /\ o \notin st.sent
    /\ LET new == [st EXCEPT !.sent = @ \cup {o}]
       IN Save(new) /\ proc' = [proc EXCEPT !.at = "resume", !.st = new, !.unit = o]
    /\ UNCHANGED world

\* paper-resume: the supervisor takes it, or the request is lost.
PaperResume ==
    /\ At("resume") /\ world.gw.at = "up"
    /\ world' = [world EXCEPT !.cat[proc.unit] = [gen |-> @.gen + 1, rec |-> FALSE],
                              !.resumes[proc.unit] = @ + 1]
    /\ proc' = [proc EXCEPT !.at = "run", !.unit = NONE]
    /\ UNCHANGED disk

\* The catalog decides, not the reply; then the lane's state takes the generation.
SyncGeneration(o) ==
    /\ Settled /\ SameGateway /\ TransitionCatalog /\ o \in st.sent \ st.synced
    /\ disk.gen[o] \in {0, 1}
    /\ disk' = [disk EXCEPT !.gen[o] = 1]
    /\ proc' = [proc EXCEPT !.at = "synced", !.unit = o]
    /\ UNCHANGED world

SaveSynced ==
    /\ At("synced")
    /\ LET new == [st EXCEPT !.synced = @ \cup {proc.unit}]
       IN Save(new) /\ proc' = [proc EXCEPT !.at = "run", !.st = new, !.unit = NONE]
    /\ UNCHANGED world

-----------------------------------------------------------------------------
(* The controllers and the end. *)

StartIntent(o) ==
    /\ Settled /\ SameGateway /\ TransitionCatalog /\ st.synced = Owners
    /\ o \in Residents \ st.started
    /\ LET new == [st EXCEPT !.starting = o] IN Save(new) /\ Go("startctl", new)
    /\ UNCHANGED world

StartController ==
    /\ At("startctl")
    /\ world' = [world EXCEPT !.ctl[st.starting] = [at |-> "up", inv |-> 2]]
    /\ Go("watchctl", st)
    /\ UNCHANGED disk

ControllerStarted ==
    /\ At("watchctl") /\ Active(st.starting) = "up"
    /\ LET new == [st EXCEPT !.starting = NONE, !.started = @ \cup {st.starting}]
       IN Save(new) /\ Go("run", new)
    /\ UNCHANGED world

Finished == Settled /\ st.synced = Owners /\ st.started = Residents

RemovePolicy(u) ==
    /\ Finished /\ u \in st.owned /\ disk.policy[u] = "held"
    /\ disk' = [disk EXCEPT !.policy[u] = NONE]
    /\ UNCHANGED <<proc, world>>

Complete ==
    /\ Finished /\ \A u \in Units : disk.policy[u] = NONE
    /\ Save([st EXCEPT !.status = "COMPLETE"])
    /\ proc' = Idle
    /\ UNCHANGED world

-----------------------------------------------------------------------------
(* Failure: the policies are shielded again; a Gateway that is down by      *)
(* itself is replaced by the reviewed fallback, nothing running is stopped. *)

Fail ==
    /\ proc.at \notin {"idle", "failed", "rollback", "rollstart"}
    /\ proc' = [proc EXCEPT !.at = "failed"]
    /\ UNCHANGED <<disk, world>>

Held(u) == IF disk.policy[u] = "safe" THEN "held" ELSE disk.policy[u]

FailHeld ==
    /\ proc.at \in {"failed", "rollback", "rollstart"}
    /\ disk' = [disk EXCEPT !.policy = [u \in Units |-> IF u \in st.owned THEN Held(u) ELSE @[u]],
                            !.ck = [st EXCEPT !.status = "HELD"]]
    /\ proc' = Idle
    /\ UNCHANGED world

FailFallback ==
    /\ At("failed") /\ world.gw.at \in {"down", "failed"} /\ Context
    /\ LET new == [st EXCEPT !.status = "HELD", !.release = "fallback"]
       IN /\ disk' = [disk EXCEPT !.policy = [u \in Units |-> IF u \in st.owned THEN Held(u) ELSE @[u]],
                                  !.dropin = "fallback", !.ck = new]
          /\ Go("rollback", new)
    /\ UNCHANGED world

FallbackPolicy ==
    /\ At("rollback")
    /\ LET new == [st EXCEPT !.owned = @ \cup {GW}]
       IN /\ disk' = [disk EXCEPT !.policy[GW] = "held", !.ck = new]
          /\ Go("rollstart", [new EXCEPT !.selected = "fallback"])
    /\ UNCHANGED world

FallbackStart ==
    /\ At("rollstart") /\ world.gw.inv < MaxStarts
    /\ world' = [world EXCEPT !.gw = NewGateway]
    /\ Save([st EXCEPT !.gwStarted = NewGateway.inv])
    /\ proc' = Idle

-----------------------------------------------------------------------------
(* The machine: the tool dies, services stop, crash and restart.            *)

Die ==
    /\ ~At("idle")
    /\ proc' = Idle
    /\ UNCHANGED <<disk, world>>

StopDone(u) ==
    /\ Active(u) = "stopping"
    /\ world' = SetUnit(u, "down")
    /\ UNCHANGED <<disk, proc>>

\* A policy of this tool says Restart=no; otherwise systemd starts the
\* configured binary again.
GatewayCrash ==
    /\ world.gw.at = "up" /\ world.gw.inv < MaxStarts
    /\ world' = [world EXCEPT !.gw = IF disk.policy[GW] # NONE THEN [@ EXCEPT !.at = "failed"]
                                     ELSE NewGateway]
    /\ UNCHANGED <<disk, proc>>

\* The same of a controller; its third invocation is systemd's.
ControllerCrash(o) ==
    /\ Active(o) = "up" /\ world.ctl[o].inv < 3
    /\ world' = [world EXCEPT !.ctl[o] = IF disk.policy[o] # NONE THEN [@ EXCEPT !.at = "failed"]
                                         ELSE [@ EXCEPT !.inv = 3]]
    /\ UNCHANGED <<disk, proc>>

Next ==
    \/ Inspect \/ ResumeCheckpoint \/ RecoverStarting \/ RecoverUnstopped \/ RecoverStopped
    \/ \E u \in Units : StopPrepare(u) \/ RemovePolicy(u) \/ StopDone(u)
    \/ StopPolicy \/ StopRequest \/ StopJob \/ ObserveStopped
    \/ HoldGatewayIntent \/ HoldGateway \/ OwnersFenced
    \/ SelectRelease \/ SaveRelease \/ StartGateway \/ GatewayStarted
    \/ \E o \in Owners : FenceOwner(o) \/ ResumeIntent(o) \/ SyncGeneration(o)
    \/ PaperResume \/ SaveSynced
    \/ \E o \in Residents : StartIntent(o) \/ ControllerCrash(o)
    \/ StartController \/ ControllerStarted \/ Complete
    \/ Fail \/ FailHeld \/ FailFallback \/ FallbackPolicy \/ FallbackStart
    \/ Die \/ GatewayCrash

-----------------------------------------------------------------------------
\* An owner's lease is handed over at most once, however often the tool dies,
\* loses a reply or is resumed; and a controller process other than the original
\* one holds the generation that the catalog has, with no recovery fence on it.
LeaseHandedOnce ==
    /\ \A o \in Owners : world.resumes[o] <= 1
    /\ \A o \in Residents :
         Active(o) = "up" /\ world.ctl[o].inv # 1 => disk.gen[o] = world.cat[o].gen /\ ~world.cat[o].rec

\* Once an owner is fenced for recovery the former Gateway binary is never
\* started again, neither by systemd nor by a rollback.
NoOldGateway == ~(world.gw.late /\ world.gw.bin = "original")
=============================================================================
