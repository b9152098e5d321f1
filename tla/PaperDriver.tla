----------------------------- MODULE PaperDriver -----------------------------
(***************************************************************************)
(* scripts/heptatrader_paper_driver.py: one resident strategy lane.  An    *)
(* iteration reads owner health, orders and positions one after the other, *)
(* then reconciles its pending command, recovers its owner, renews its     *)
(* lease, or trades on a decision of the model worker's thread.  Requests  *)
(* to the Gateway and to the supervisor may get lost, take effect late, or *)
(* lose their reply; the process may die between any two writes of its     *)
(* state.  Positions are counted in halves of the nominal quantity.        *)
(***************************************************************************)
EXTENDS Naturals, FiniteSets, FiniteSetsExt

CONSTANTS
    MaxCommands,   \* bound: commands prepared
    MaxGeneration  \* bound: generations of the lease

VARIABLES
    disk,    \* the state file
    proc,    \* [at, st, snap, worker]: the driver; st is its copy of the state
    world    \* [crypto, support, ord, n, inflight, gen, fenced, due]

NONE == "none"
Full == 2
Commands == 1..MaxCommands

NoPending == [cmd |-> 0, kind |-> NONE, send |-> NONE, before |-> 0]
NoWorker == [on |-> FALSE, pos |-> 0, done |-> FALSE, discarded |-> FALSE]
NoOrder == [kind |-> NONE, qty |-> 0, filled |-> 0, live |-> FALSE]

\* load_state of a lane without a state file; exits also counts partial_exit_fills.
NewState ==
    [ pending |-> NoPending, position |-> 0, entries |-> 0, exits |-> 0, halt |-> FALSE, risk |-> NONE,
      fence |-> FALSE, fenceOwned |-> FALSE, renewOwned |-> FALSE, partialOwned |-> FALSE,
      renew |-> "IDLE", uncertain |-> FALSE, gen |-> 1, phase |-> NONE ]

NoSnap == [ord |-> [c \in Commands |-> NoOrder], pos |-> 0]
Off == [at |-> "off", st |-> NewState, snap |-> NoSnap, worker |-> NoWorker]

Init ==
    /\ disk = NewState
    /\ proc = Off
    /\ \E crypto, support \in BOOLEAN :
         world = [ crypto |-> crypto, support |-> support, ord |-> [c \in Commands |-> NoOrder],
                   n |-> 0, inflight |-> {}, gen |-> 1, fenced |-> FALSE, due |-> FALSE ]

st == proc.st
At(step) == proc.at = step
ActiveIn(snap) == \E c \in Commands : snap.ord[c].live
Active == ActiveIn(proc.snap)

\* model_inference_hold_reason: its result would be unusable.
InferenceHold(p) == p.st.pending.cmd # 0 \/ p.st.fence \/ ActiveIn(p.snap) \/ p.st.halt

\* sync_model_inference: the call is cancelled, and kept until its thread is done.
Synced(p) ==
    IF p.at \in {"inspect", "branch", "trade", "prepared"} /\ p.worker.on /\ InferenceHold(p)
    THEN [p EXCEPT !.worker = IF @.done THEN NoWorker ELSE [@ EXCEPT !.discarded = TRUE]]
    ELSE p

Keep(step, next) == proc' = Synced([proc EXCEPT !.at = step, !.st = next])
\* atomic_json.
Save(step, next) == Keep(step, next) /\ disk' = next

Filled(kind) ==
    MapThenSumSet(LAMBDA c : world.ord[c].filled, { c \in Commands : world.ord[c].kind = kind })
Position == Filled("OPEN") - Filled("CLOSE")

\* latch_owner_fence.
Latched(s) ==
    [s EXCEPT !.fenceOwned = IF s.fence THEN @ ELSE ~s.halt, !.fence = TRUE, !.halt = TRUE]

-----------------------------------------------------------------------------
(* main: the start, and the snapshot of an iteration. *)

Start ==
    /\ At("off")
    /\ LET lost == disk.uncertain \/ disk.renew = "POSSIBLY_SENT"
           new == IF ~lost THEN disk
                  ELSE IF world.support THEN [disk EXCEPT !.halt = TRUE] ELSE Latched(disk)
       IN disk' = new /\ proc' = [Off EXCEPT !.at = "health", !.st = new]
    /\ UNCHANGED world

ReadHealth ==
    /\ At("health")
    /\ IF world.fenced THEN Save("orders", Latched(st)) ELSE Keep("orders", st) /\ UNCHANGED disk
    /\ UNCHANGED world

ReadOrders ==
    /\ At("orders")
    /\ proc' = [proc EXCEPT !.at = "positions", !.snap.ord = world.ord]
    /\ UNCHANGED <<disk, world>>

ReadPositions ==
    /\ At("positions")
    /\ proc' = Synced([proc EXCEPT !.at = IF st.pending.cmd # 0 THEN "inspect"
                                          ELSE IF world.support THEN "renew" ELSE "branch",
                                   !.snap.pos = Position])
    /\ UNCHANGED <<disk, world>>

\* A read that fails ends the iteration.
IterationFails ==
    /\ proc.at \in {"orders", "positions", "inspect", "renew", "branch", "trade"}
    /\ Save("health", st)
    /\ UNCHANGED world

-----------------------------------------------------------------------------
(* inspect_pending: only evidence bound to the original command settles it. *)

Row == proc.snap.ord[st.pending.cmd]
Fill == Row.filled > 0
Terminal == Row.kind # NONE /\ ~Row.live
Settled(s) == [s EXCEPT !.pending = NoPending]

Rejected ==
    /\ st.pending.send = "DEFINITELY_REJECTED"
    /\ IF Active \/ proc.snap.pos # st.pending.before THEN Save("health", st)
       ELSE Save("health", [Settled(st) EXCEPT !.position = proc.snap.pos])

\* A crypto fill must be terminal and explain the position exactly.
CryptoExact ==
    LET p == st.pending
        delta == IF p.kind = "OPEN" THEN proc.snap.pos - p.before ELSE p.before - proc.snap.pos
    IN world.crypto /\ Fill => Terminal /\ delta = Row.filled

OpenMatches == st.pending.kind = "OPEN" /\ ~Active /\ proc.snap.pos \in 1..Full /\ Fill
Opened ==
    LET partial == proc.snap.pos < Full /\ ~world.crypto
    IN [Settled(st) EXCEPT !.position = proc.snap.pos, !.entries = @ + 1, !.halt = @ \/ partial,
                           !.risk = IF partial THEN "PARTIAL" ELSE @]

CloseMatches == st.pending.kind = "CLOSE" /\ ~Active /\ proc.snap.pos = 0 /\ Fill
Closed ==
    LET lift == world.crypto /\ st.partialOwned /\ st.risk = "PARTIAL" /\ ~st.fence /\ ~st.uncertain
    IN [Settled(st) EXCEPT !.position = 0, !.exits = @ + 1, !.halt = @ /\ ~lift,
                           !.partialOwned = @ /\ ~lift, !.risk = IF lift THEN NONE ELSE @]

PartialClose ==
    /\ st.pending.kind = "CLOSE" /\ ~Active /\ Fill /\ Terminal
    /\ proc.snap.pos > 0 /\ proc.snap.pos < st.position
Reduced ==
    IF st.position - proc.snap.pos # Row.filled THEN st
    ELSE [Settled(st) EXCEPT !.position = proc.snap.pos, !.exits = @ + 1, !.halt = TRUE, !.risk = "PARTIAL",
                             !.partialOwned = @ \/ (world.crypto /\ ~st.halt)]

\* Fault: a command whose status is not known to have been accepted was not sent.
NonFillByStatus == ~Fill /\ ~Active /\ proc.snap.pos = st.position

\* A refusal of status after a possible send is no proof of zero fills.
TerminalNonFill == Terminal /\ ~Fill /\ ~Active /\ proc.snap.pos = st.position

Reconciled ==
    IF ~CryptoExact THEN st
    ELSE IF OpenMatches THEN Opened
    ELSE IF CloseMatches THEN Closed
    ELSE IF PartialClose THEN Reduced
    ELSE IF TerminalNonFill THEN Settled(st)
    ELSE st

\* The command's status is another request; without it the command stays pending.
InspectPending ==
    /\ At("inspect")
    /\ IF st.pending.send = "DEFINITELY_REJECTED" THEN Rejected ELSE Save("health", Reconciled)
    /\ UNCHANGED world

-----------------------------------------------------------------------------
(* continue_active_lease, maybe_renew. *)

Due == world.due \/ st.uncertain \/ st.renew = "POSSIBLY_SENT"
AfterRenew == IF world.support THEN "branch" ELSE "trade"

\* Not due, or waiting for the lane to drain.
RenewNot ==
    /\ At("renew")
    /\ \/ st.fence \/ ~Due
       \/ Due /\ (Active \/ (~world.support /\ proc.snap.pos # 0))
    /\ IF st.fence \/ ~Due THEN Keep(AfterRenew, st) /\ UNCHANGED disk
       ELSE Save(AfterRenew, [st EXCEPT !.renewOwned = @ \/ ~st.halt, !.halt = TRUE])
    /\ UNCHANGED world

\* Fault: the request goes out before the intent is on disk.
RenewIntentUnsaved ==
    /\ At("renew") /\ ~st.fence /\ Due /\ ~Active
    /\ world.support \/ proc.snap.pos = 0
    /\ Keep("renewing", [st EXCEPT !.renewOwned = @ \/ ~st.halt, !.halt = TRUE, !.renew = "POSSIBLY_SENT"])
    /\ UNCHANGED <<disk, world>>

\* Without continuation a renewal in doubt has already fenced the lane.
RenewIntent ==
    /\ At("renew") /\ ~st.fence /\ Due /\ ~Active
    /\ world.support \/ proc.snap.pos = 0
    /\ Save("renewing", [st EXCEPT !.renewOwned = @ \/ ~st.halt, !.halt = TRUE, !.renew = "POSSIBLY_SENT"])
    /\ UNCHANGED world

\* _finish_renewal.
FinishRenewal(gen) ==
    [st EXCEPT !.gen = gen, !.renew = "IDLE", !.uncertain = FALSE, !.renewOwned = FALSE,
               !.halt = @ /\ ~(st.renewOwned /\ ~st.fence /\ st.risk = NONE)]

Accepts == st.gen = world.gen /\ ~world.fenced /\ world.gen < MaxGeneration
Renewed == [world EXCEPT !.gen = @ + 1, !.due = FALSE]

RenewAccepted ==
    /\ At("renewing") /\ Accepts
    /\ world' = Renewed
    /\ Save(AfterRenew, FinishRenewal(st.gen + 1))

\* No answer, whether or not the supervisor renewed.
RenewLost ==
    /\ At("renewing")
    /\ world' \in {world} \cup (IF Accepts THEN {Renewed} ELSE {})
    /\ Save("health", IF world.support THEN [st EXCEPT !.uncertain = TRUE]
                      ELSE Latched([st EXCEPT !.uncertain = TRUE]))

RenewRefused ==
    /\ At("renewing") /\ ~Accepts
    /\ LET adopted == [st EXCEPT !.gen = IF world.support /\ world.gen > st.gen THEN world.gen ELSE @,
                                 !.uncertain = FALSE]
       IN Save(AfterRenew, IF world.support /\ ~world.fenced THEN adopted
                           ELSE Latched([st EXCEPT !.uncertain = FALSE]))
    /\ UNCHANGED world

-----------------------------------------------------------------------------
(* recover_owner. *)

ResumeIntent ==
    /\ At("branch") /\ st.fence /\ ~Active /\ proc.snap.pos = 0 /\ st.phase # "VERIFY_PREVIEW"
    /\ Save("resuming", [st EXCEPT !.position = 0, !.halt = TRUE, !.phase = "RESUME_SENT"])
    /\ UNCHANGED world

Resumable == st.gen = world.gen /\ world.gen < MaxGeneration
Resumed == [world EXCEPT !.gen = @ + 1, !.fenced = FALSE]

ResumeAnswered ==
    /\ At("resuming")
    /\ IF Resumable
       THEN /\ world' = Resumed
            /\ Save("health", [st EXCEPT !.gen = @ + 1, !.phase = "VERIFY_PREVIEW"])
       ELSE /\ Save("health", [st EXCEPT !.gen = IF world.gen > @ THEN world.gen ELSE @,
                                         !.phase = "AUDIT_REQUIRED"])
            /\ UNCHANGED world

ResumeLost ==
    /\ At("resuming")
    /\ world' \in {world} \cup (IF Resumable THEN {Resumed} ELSE {})
    /\ Save("health", [st EXCEPT !.phase = "AUDIT_REQUIRED"])

\* recovery_entry_hold_reason: a halt that is not the recovery's own.
RecoveryHold == st.risk # NONE \/ (st.halt /\ ~st.fenceOwned /\ ~st.renewOwned)

\* A new snapshot, the local guard and a preview that is never submitted.
VerifyResume ==
    /\ At("branch") /\ st.fence /\ ~Active /\ proc.snap.pos = 0 /\ st.phase = "VERIFY_PREVIEW"
    /\ IF world.fenced THEN Save("health", [st EXCEPT !.position = 0, !.phase = "AUDIT_REQUIRED"])
       ELSE IF RecoveryHold THEN Save("health", [st EXCEPT !.position = 0])
       ELSE Save("health",
                 [st EXCEPT !.position = 0, !.fence = FALSE, !.fenceOwned = FALSE, !.phase = "VERIFIED",
                            !.uncertain = FALSE, !.renew = "IDLE", !.renewOwned = FALSE,
                            !.halt = @ /\ ~((st.fenceOwned \/ st.renewOwned) /\ st.risk = NONE)])
    /\ world' = IF world.fenced \/ RecoveryHold THEN world ELSE [world EXCEPT !.due = FALSE]

\* A crypto position that no command of this lane explains stops the lane.
Unfenced ==
    /\ At("branch") /\ ~st.fence
    /\ IF world.crypto /\ proc.snap.pos # st.position
       THEN Save("health", [st EXCEPT !.halt = TRUE, !.risk = "EXTERNAL"])
       ELSE /\ Keep(IF world.support THEN "trade" ELSE "renew", [st EXCEPT !.position = proc.snap.pos])
            /\ UNCHANGED disk
    /\ UNCHANGED world

-----------------------------------------------------------------------------
(* The model worker's thread. *)

WorkerStart ==
    /\ At("trade") /\ ~InferenceHold(proc) /\ ~proc.worker.on
    /\ disk' = st
    /\ proc' = [proc EXCEPT !.at = "health",
                            !.worker = [on |-> TRUE, pos |-> proc.snap.pos, done |-> FALSE,
                                        discarded |-> FALSE]]
    /\ UNCHANGED world

WorkerDone ==
    /\ proc.worker.on /\ ~proc.worker.done
    /\ proc' = [proc EXCEPT !.worker.done = TRUE]
    /\ UNCHANGED <<disk, world>>

Decision == proc.worker.on /\ proc.worker.done /\ ~proc.worker.discarded /\ proc.worker.pos = proc.snap.pos

WorkerDropped ==
    /\ At("trade") /\ proc.worker.on /\ proc.worker.done /\ ~Decision
    /\ proc' = [proc EXCEPT !.worker = NoWorker]
    /\ UNCHANGED <<disk, world>>

-----------------------------------------------------------------------------
(* prepare_send: the pending record is durable before the one submission.   *)

Prepare(kind) ==
    /\ st.pending.cmd = 0 /\ world.n < MaxCommands
    /\ world' = [world EXCEPT !.n = @ + 1]
    /\ LET next == [st EXCEPT !.position = proc.snap.pos,
                              !.pending = [cmd |-> world.n + 1, kind |-> kind, send |-> "PREPARED",
                                           before |-> proc.snap.pos]]
       IN /\ disk' = next
          /\ proc' = Synced([proc EXCEPT !.at = "prepared", !.st = next,
                                         !.worker = IF kind = "OPEN" THEN NoWorker ELSE @])

FenceClose ==
    /\ At("branch") /\ st.fence /\ ~Active /\ proc.snap.pos # 0
    /\ Prepare("CLOSE")

\* A halt closes at once; the price rule and a reversal of the model close otherwise.
TradeClose ==
    /\ At("trade") /\ ~st.fence /\ ~Active /\ proc.snap.pos # 0
    /\ Prepare("CLOSE")

TradeOpen ==
    /\ At("trade") /\ ~st.fence /\ ~Active /\ proc.snap.pos = 0 /\ ~st.halt /\ Decision
    /\ Prepare("OPEN")

\* The iteration ends without an order.
TradeNothing ==
    /\ At("trade") /\ ~(st.halt /\ ~st.fence /\ ~Active /\ proc.snap.pos # 0) 
    /\ Save("health", st)
    /\ UNCHANGED world

MarkPossiblySent ==
    /\ At("prepared")
    /\ Save("submit", [st EXCEPT !.pending.send = "POSSIBLY_SENT"])
    /\ UNCHANGED world

\* The execution service takes a command once: an entry into an account that is
\* flat and idle, a close of exactly what is open.
Taken(c, kind) ==
    /\ ~\E d \in Commands : world.ord[d].live
    /\ IF kind = "OPEN" THEN ~world.fenced /\ Position = 0 ELSE Position > 0
Order(c, kind) ==
    [world EXCEPT !.inflight = @ \ {[cmd |-> c, kind |-> kind]},
                  !.ord[c] = [kind |-> kind, qty |-> IF kind = "OPEN" THEN Full ELSE Position,
                              filled |-> 0, live |-> TRUE]]

SubmitAcknowledged ==
    /\ At("submit") /\ Taken(st.pending.cmd, st.pending.kind)
    /\ world' = Order(st.pending.cmd, st.pending.kind)
    /\ Save("health", [st EXCEPT !.pending.send = "ACKNOWLEDGED"])

SubmitRejected ==
    /\ At("submit")
    /\ LET new == [st EXCEPT !.pending.send = "DEFINITELY_REJECTED"]
       IN Save("health", IF world.fenced THEN Latched(new) ELSE new)
    /\ UNCHANGED world

Unanswered == [world EXCEPT !.inflight = @ \cup {[cmd |-> st.pending.cmd, kind |-> st.pending.kind]}]
SubmitUnanswered ==
    /\ At("submit")
    /\ world' = Unanswered
    /\ Save("health", st)

-----------------------------------------------------------------------------
(* The other side and the machine. *)

LateSubmit ==
    \E m \in world.inflight :
        /\ world' \in (IF Taken(m.cmd, m.kind) THEN {Order(m.cmd, m.kind)} ELSE {})
                      \cup {[world EXCEPT !.inflight = @ \ {m}]}
        /\ UNCHANGED <<disk, proc>>

VenueFill(c) ==
    /\ world.ord[c].live
    /\ world' = [world EXCEPT !.ord[c].filled = @ + 1, !.ord[c].live = world.ord[c].filled + 1 < world.ord[c].qty]
    /\ UNCHANGED <<disk, proc>>

VenueCancel(c) ==
    /\ world.ord[c].live
    /\ world' = [world EXCEPT !.ord[c].live = FALSE]
    /\ UNCHANGED <<disk, proc>>

OwnerFenced ==
    /\ ~world.fenced /\ world.gen < MaxGeneration
    /\ world' = [world EXCEPT !.fenced = TRUE]
    /\ UNCHANGED <<disk, proc>>

RenewalDue ==
    /\ ~world.due /\ world.gen < MaxGeneration
    /\ world' = [world EXCEPT !.due = TRUE]
    /\ UNCHANGED <<disk, proc>>

\* The process dies; a request it has just made may have been served.
Die ==
    /\ ~At("off")
    /\ proc' = Off
    /\ world' \in {world} \cup (IF At("renewing") /\ Accepts THEN {Renewed} ELSE {})
                         \cup (IF At("resuming") /\ Resumable THEN {Resumed} ELSE {})
                         \cup (IF At("submit") THEN {Unanswered} ELSE {})
    /\ UNCHANGED disk

Next ==
    \/ Start \/ ReadHealth \/ ReadOrders \/ ReadPositions \/ IterationFails \/ InspectPending
    \/ RenewNot \/ RenewIntent \/ RenewAccepted \/ RenewLost \/ RenewRefused
    \/ ResumeIntent \/ ResumeAnswered \/ ResumeLost \/ VerifyResume \/ Unfenced
    \/ WorkerStart \/ WorkerDone \/ WorkerDropped
    \/ FenceClose \/ TradeClose \/ TradeOpen \/ TradeNothing \/ MarkPossiblySent
    \/ SubmitAcknowledged \/ SubmitRejected \/ SubmitUnanswered
    \/ LateSubmit \/ \E c \in Commands : VenueFill(c) \/ VenueCancel(c)
    \/ OwnerFenced \/ RenewalDue \/ Die

-----------------------------------------------------------------------------
FilledCount(kind) == Cardinality({ c \in Commands : world.ord[c].kind = kind /\ world.ord[c].filled > 0 })

AtRisk ==
    Position + MapThenSumSet(LAMBDA c : world.ord[c].qty - world.ord[c].filled,
                             { c \in Commands : world.ord[c].kind = "OPEN" /\ world.ord[c].live })
             + Full * Cardinality({ m \in world.inflight : m.kind = "OPEN" })

\* At most one entry is ever at risk: what is open, what a live entry may still
\* fill and what an unanswered submission may still become never exceed one
\* nominal quantity.  And every fill is settled once: when no command is
\* pending, the state file has the venue's position and counts each filled
\* order exactly once, whatever died or got lost on the way.
OneEntryAtRisk ==
    /\ AtRisk <= Full
    /\ disk.pending.cmd = 0 =>
         /\ disk.position = Position
         /\ disk.entries = FilledCount("OPEN") /\ disk.exits = FilledCount("CLOSE")

\* A driver that neither is fenced nor has a renewal in doubt holds the lease
\* generation that the supervisor has, across lost replies and restarts.
LeaseKnown ==
    ~disk.fence /\ ~disk.uncertain /\ disk.renew = "IDLE" => disk.gen = world.gen
=============================================================================
