# HeptaTrader: a TLA+ verification of the order path

HeptaTrader is an agent-native trading system. Agents reach it through a tool
gateway; a session supervisor issues and revokes their leases; an execution
service is the only process that sends orders to a venue (a deterministic
simulator or an Interactive Brokers paper account), and everything it does is
first written to the OMS journal, from which it recovers after a crash.

Around that core are scripts with durable state of their own: the operator's tools
(maintenance, upgrades, releases), the driver of the paper lane, reports on accounts
and progress, and a research lane that trains and evaluates models on recorded quotes.

This directory models the order path, where a mistake costs most and a test reaches
least, and those scripts whose correctness depends on crashes, races and the order of
their publications.

## Inventory

| Part | Source | State, actors, failures | Model |
|---|---|---|---|
| OMS journal | `HeptaTrade/oms_journal.cpp` | a pinned append-only file, a pending queue, an optional writer thread; torn writes, failed syncs, crashes | `OmsJournal`, `DurableLedger`, `LedgerService`, `OmsEvents` |
| Execution coordinator | `HeptaTrade/execution/execution_coordinator*.cpp`, `execution_place_order_dispatch.cpp`, `execution_authoritative_flatten*.cpp` | command records, order owners, fences, mutation block; concurrent commands with the lock released at venue calls; failed appends, crashes, recovery | `ExecutionCoordinator`, `RecoveryReplay` |
| Journal generations | `scripts/hepta_oms_lifecycle.py`, `hepta_oms_checkpoint.py`, `execution/execution_generation_support.cpp` | sealed segments, checkpoints, a moving tail; maintenance processes beside the service | `OmsLifecycle`, `OmsProjection` |
| IB policy operation gate | `execution/ib_policy_operation_gate.h` | shared and exclusive holders, waiters | `OperationGate` |
| Request scheduler | `execution/unix_execution_service_scheduler.cpp` | connections, three lanes, deadlines, stop | `ServiceScheduler` |
| Operator's tools | `scripts/hepta_maintenance_latch.py`, `activate_prepared_gateway.py`, `activate_prepared_driver.py` | marker and hold files, checkpoints, units; interruptions, restarts, lost replies | `MaintenanceLatch`, `GatewayUpgrade`, `DriverActivation` |
| Paper lane | `scripts/heptatrader_paper_driver.py`, `hepta_account_observer.py` | pending command, lease, fills; downloads with late callbacks | `PaperDriver`, `AccountObserver` |
| Releases | `scripts/build_release_package.py`, `accept_core_release.py`, `run_ib_paper_campaign.py`, ... | trees and artifacts replaced while read, racing builds | `ReleasePackage`, `ReleaseAcceptance`, `PaperQualification` |
| Shadow market | `scripts/hepta_shadow_market_history.py`, `hepta_strategy_shadow_runner.py`, `hepta_market_*`, `hepta_strategy_replay_evaluator.py` | records, receipts, calendars; crashes between publications | `ShadowHistory`, `ShadowCampaign`, `OfficialEvidence`, `ReplayEvaluation` |
| Reports | `scripts/hepta_pnl_accounting.py`, `hepta_pnl_report.py`, `hepta_progress.py` | caches and files read one after the other | `StrategyLedger`, `PnlReport`, `ProgressReport` |
| Quote archive | `research/neuron_learning/laya_cell/source_archive.py` and its readers | segments, sealed pages, a ledger; copies and caches | `SourceArchive` |
| Resident research | `research/neuron_learning/laya_cell/resident*.py` | jobs, leases, plans, slots, advisories; workers outliving controllers | `ResidentTraining`, `ForwardTrials`, `ResidentEvaluation`, `OwnerAdvisory` |
| Offline evidence | `research/cost_aware/`, `research/train_v2/` | plans, forecasts, cohorts, labels | `CostReplay`, `PriceCohort` |
| Simulator venue and runtime | `simulator/`, `execution/execution_service_runtime_composition.cpp` | orders, positions, quotes, flatten capacity | planned |
| IB paper runtime and adapter, decision leases, event hub, authoritative state, session supervisor, tool gateway, risk engine, kill switch | `HeptaTrade/` | | planned, see the end |
| XT and CTP adapters, CLI, MCP server, options, numerical research | | vendor bindings, formatting, floating point | not modelled |

`PROJECT.json` lists every component with its sources, and the hazards of the
code at the line where each bites.

## How the parts interact

A peer's frame is decoded by the reactor and queued in a lane (`ServiceScheduler`).
An authority thread takes it and calls the policy, for IB under the operation gate
(`OperationGate`): ordinary operations share it, recovery and reconciliation own
it. The policy calls the coordinator (`ExecutionCoordinator`), which appends an
intent and a send attempt to the journal, releases its lock, calls the venue, and
records the outcome. The journal's promise to the coordinator is `DurableLedger`;
`LedgerService` is that promise as a specification, and `OmsJournal` implements it.

## Modules

**OmsEvents** has the event types of `IsCriticalEventType`.

**DurableLedger** is what the coordinator may rely on: a log, how much of it no
crash can lose, and whether the journal has failed. Its operators (`Appended`,
`AppendedPair`, `Opened`, `Flushed`, `Truncated`) give the possible results of
`Append`, `AppendDurablePair`, `Init`, `Replay` and a machine crash.
**LedgerService** turns them into actions.

**OmsJournal** is the implementation: the file with its synced prefix, the pending
queue, `QueueLineLocked`, the batch and interval decisions (nondeterministic for
the clock), `WorkerLoop`, `AppendDurablePair`, `Replay`, opening with its check of
the tail, and failures at every write and sync. A failed write may leave nothing, a
fragment or the whole line; a machine crash keeps the synced prefix and any part of
the rest.

**ExecutionCoordinator** has one action per handler segment between two points at
which the mutex is released: admission of a place, cancel or flatten (with its
duplicate and conflict checks, refusals, and the durable pair), the venue's
answer, the recording of the outcome, two-phase activation, the deferred cancel,
order terminals, resolution of uncertain commands, the projection block, owner
reconciliation, the fences and their release, reconnect, terminal finalization,
start, recovery and crashes. `rec` is `m_requests`, `owned` is `m_orderOwners`, `attempts` is
`m_placeSendAttemptKeys`, `block` is the mutation block reason, and the fences have
the names of their maps. `flight` is where a handler is while the mutex is released, `venue` is
the external venue, and `sends` a history of venue calls. Arguments that callers
take from the venue (active orders, correlations) are arbitrary sets, so what holds
here holds whatever callers believe.

Recovery is stated by the last line that decides each item (`ReplayRecord`,
`ReplayOwned`, ...), a form without recursion that proofs can use.
**RecoveryReplay** gives it as the code does, a fold of `ApplyRecoveredEvent` over
the ledger, and the runs check that the two agree (`ReplayAgrees`).

**OperationGate** models every critical section of the gate's mutex, with the
condition variable made explicit: a thread whose predicate is false sleeps until a
`notify_all`.

**ServiceScheduler** models the reactor, which holds the scheduler mutex while it
serves what it polled, and the three authority threads, which do not hold it
during a call. Time is a flag per connection that may be raised at any moment.

**OmsProjection** is what sealing a generation keeps of a ledger (`MergeCommandRecord`,
the owners, the send attempts), over the coordinator's own ledgers. **OmsLifecycle** is
the files: generations, their lineage, the tail, the selection, and every step of
sealing, rebasing, pruning and starting.

The scripts' modules share one shape: `disk` is what survives (files, units, journals),
`proc` the running script with the point it has reached, `world` everything else
(services, the broker, the clock). An action is what the script does between two points
at which something else can act or at which it can die. Bytes are versions and digests
are equality of versions.

## Runs

| Run | Shows | Distinct states |
|---|---|---|
| `journal` | three configurations of the journal: no acknowledged critical line is lost, the file stays readable and ordered, nothing queued is dropped, an admitted entry fits the next replay, queued lines are written, and the unbatched journal implements `LedgerService` | 539,364 |
| `execution_fences` | an entry and a cancel against every fence, and an entry, a cancel and a flatten in every interleaving, with reconciliation, failures, restarts and crashes | 508,077 |
| `execution_two_phase` | reserve then activate: two owners sharing a send budget of one, and a cancel; and what sealing such a ledger keeps | 114,623 |
| `operation_gate` | four threads in any calls: exclusion, the cohort's count, no lost wakeup, recovery is admitted | 12,212 |
| `scheduler` | a fence and a cancel over one queue slot per lane: one dispatch, a kept reply channel, the fence is served, a stop drains | 46,129 |
| `oms_lifecycle` | two maintenance processes and the service: the acknowledged history stays whole | 3,628,251 |
| `operations` | the operator's tools, the paper lane and releases | 2,582,064 |
| `records` | shadow market, quote archive and reports | 3,293,293 |
| `research` | training, trials, evaluation, advisory, cost replay, cohorts | 2,243,206 |

`operations`, `records` and `research` check independent modules in one run: a variable
`part`, chosen at the start, says which. A property of such a run is what the module of
the same name promises, or the conjunction for neighbouring modules.

Three runs show a disagreement between the code and a statement of the
repository; `PROJECT.json` quotes both sides:

* `journal_fence`: `session_owner_recovery_only` and `paper_terminal_fence` are
  acknowledged without being synced (`AckedFenceDurable`).
* `execution_ingress`: after a failed replay the coordinator accepts a recovery
  request whose generation the journal shows as resumed (`ResumedNotReinstalled`).
  `IngressAdvances` shows that this is the only way it happens.
* `execution_masked_block`: lifting a projection block reopens mutations while
  another order is still uncertain (`UncertainFencesRisk`).

Some modules state a promise of their source's comments that no run checks because
the code does not keep it in a corner case: `GatewayUpgrade!NoOldGateway`,
`ShadowHistory!CrashRecovers`, `OmsProjection!SealKeepsOwners`,
`OmsLifecycle!ExportComplete`.

**Bounds.** The journal run appends up to six lines with a batch of two and a
queue of two, so a batch is full, part full and flushed early; the replay limit of
five is met exactly and exceeded. The coordinator's runs bound the ledger (`MaxLog`,
6 to 9 lines): an entry takes three lines, so the bound admits a complete entry and
cancel with a fence or a resolution between them, or two commands that both crash
and are resolved. One owner, account and ingress generation are enough for a stale fence;
two owners for the shared budget. The gate needs three threads for a starving
recovery and has four; its generations reach two, which takes a failed wait. The
scheduler has a lane that fills; larger sets of clients are left to the proof. The
scripts' bounds are the smallest at which every action of the module fires and a
second round (a second upgrade, hold, download, trial or page) meets what the first one
left. Deadlock checking is off where the system may stop: a torn journal waits for an
operator, a bound is reached, the service was stopped or a script has ended.

**Fairness.** `QueuedEventuallyWritten` assumes that the writer thread is scheduled.
`RecoveryAdmitted` assumes that a woken thread runs and that an operation inside the
gate returns; calls themselves need not come. `ControlServed` assumes that the
threads run, that a lane gets the mutex the reactor releases whenever it polls
(strong fairness), and that control operations, which do no broker I/O, return; exits and
commands may hang for ever. `StopDrains` has the return of every call as its
hypothesis. The other models state no fairness and their properties are safety.

## Proofs

`ExecutionCoordinatorProofs` proves, for all commands, owners, accounts and bounds
that satisfy `CoordinatorConstants`:

* `TypeCorrect`: `TypeOK` always holds;
* `FailureBlocks`: after a failed append mutations stay blocked (`FailedBlocks`);
* `Idempotency`: a command is sent at most once (`SendAtMostOnce`);
* `WriteAhead`: a command that was sent has intent and attempt in the durable
  part of the ledger (`SendIsDurable`);
* `QuietFinalization`: terminal finalization and reconnect never overlap a venue
  call (`QuietFences`).

All five follow from `Invariance`, that `IInv` is inductive. Idempotency is not
inductive by itself: after a crash nothing in memory says that a command was sent.
`SendInv` therefore ties `sends` to the durable ledger (a command that was sent has its
intent and attempt there, and one not sent is either idle or about to be), and
ties the ledger to memory (a command with an intent in the ledger has a record
unless recovery failed, in which case mutations are blocked). The step that
matters is `RecoverFromJournal`: the last deciding line of a command with an intent
never gives it the status of a command that was not seen (`IntentDecides`).
`BlockInv` says that a failed journal and a failed replay keep the block, and
`QuietInv` that the terminal fence holds the block in memory and in what replay
rebuilds. The proof is in three modules: `ExecutionLedgerProofs` has the invariant
and the lemmas about ledgers and replay (`Grows` and its instances say that every
handler only extends the durable prefix), `ExecutionHandlerProofs` the handlers of one
command, and `ExecutionCoordinatorProofs` reconciliation, fences, restart, crashes and
the theorems.

`OperationGateProofs` proves, for every finite set of threads and every bound on the
generation, that recovery runs alone (`RecoveryIsAlone`), that the captured cohort is
counted exactly (`CohortIsCounted`), that no wakeup is lost (`NoWakeupLost`) and that no
counter leaves its range (`GateTypes`). The strengthening is `Generations`: members
hold generations already handed out, and while a recovery waits either the next
generation is beyond the cohort's or nobody can join, because owning the gate resets
both generations while later waiters are still queued.

Only model-checked: `MemoryMatchesReplay`, `ReplayAgrees` (what a fold computes for
every ledger is induction over data, out of the prover's reach), `FencesStopSends`,
`SendBudget`, `ActivatedHasReceipt`, the journal and the scheduler, and all liveness.

## Plan

1. The simulator: the deterministic venue (orders, fills, flatten capacity), then its
   runtime composed with the coordinator, with real snapshots in place of arbitrary
   arguments; whether releasing an owner fence on an earlier snapshot is safe.
2. Decision leases, the event hub and relay, and the refresh coordinator: small
   components with clear abstract specifications (a fenced lock, a log with gaps,
   a single-flight request).
3. The IB runtime: reconnect, startup reconciliation and terminalization over the gate
   and the coordinator.
4. The session supervisor's lease store and audit journal; the risk engine as operators
   against a reference definition.
5. Proofs: dispatch at most once in the scheduler, the journal's refinement of
   `LedgerService`, `FencesStopSends` and `MemoryMatchesReplay`.

Not modelled and why: codecs and sockets (no state beyond a frame), floating-point
formulas except as planned above, vendor bindings, numerical research, and scripts
that read one input and write one output.
