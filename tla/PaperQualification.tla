------------------------- MODULE PaperQualification -------------------------
(***************************************************************************)
(* The qualification of an IB PAPER candidate.                             *)
(*                                                                         *)
(*   builder   scripts/verify_ib_candidate_artifact.py, the tool that      *)
(*             build_ib_candidate_artifact.sh calls at every step: the SDK *)
(*             is copied, each phase runs in a container that is created   *)
(*             stopped, proved, started and removed, and the binary is     *)
(*             packed with its provenance                                  *)
(*   campaign  scripts/run_ib_paper_campaign.py supervises one attempt of  *)
(*             the external harness                                        *)
(*   verifier  scripts/verify_ib_paper_qualification.py checks the         *)
(*             evidence and publishes it                                   *)
(*                                                                         *)
(* The builder's host and the desktop are two machines: a behaviour is     *)
(* about one of them, the second starting from an archive of the first.    *)
(* The SDK is two files that others may rewrite, never to earlier bytes;   *)
(* the container engine may be slow, lose its client or fail; the harness  *)
(* may leave descendants that go on writing.  Everyone may be killed.      *)
(***************************************************************************)
EXTENDS Naturals, Sequences, FiniteSets

CONSTANTS
    Controllers,   \* campaign controllers started for the same attempt
    Phases,        \* bound: containers of one build
    MaxWrites      \* bound: rewrites of an SDK file or an evidence file

VARIABLES disk, proc, world
vars == <<disk, proc, world>>

Files == {1, 2}
Unread == [f \in Files |-> 99]
NoEntry == [cid |-> FALSE, proof |-> FALSE, result |-> FALSE, removed |-> FALSE]
NoResult == [passed |-> FALSE, claims |-> Unread]

Init ==
    \E host \in {"builder", "desktop"}, reviewed \in {0, 1} :
        /\ disk = [ work |-> host = "builder", snapshot |-> Unread, entry |-> NoEntry,
                    packed |-> FALSE, bound |-> reviewed,
                    extracted |-> FALSE, attempt |-> "absent", code |-> 1,
                    evidence |-> Unread, result |-> NoResult, receipt |-> NoResult,
                    archive |-> <<>> ]
        /\ proc = [ build |-> IF host = "builder" THEN "identify" ELSE "off",
                    before |-> Unread, after |-> Unread, phase |-> 1, failed |-> FALSE,
                    ctl |-> [c \in Controllers |-> IF host = "desktop" THEN "idle" ELSE "off"],
                    outcome |-> "none", ver |-> IF host = "desktop" THEN "idle" ELSE "off",
                    read |-> NoResult, seen |-> 0, copied |-> Unread ]
        /\ world = [ sdk |-> [f \in Files |-> 0], was |-> {[f \in Files |-> 0]},
                     box |-> "none", late |-> FALSE,
                     harness |-> "none", group |-> FALSE, trusted |-> 1 ]

-----------------------------------------------------------------------------
(* The SDK snapshot: hash_tree before, the copy, hash_tree after, each one *)
(* file after another.                                                     *)

Build(at) == proc.build = at
BuildTo(at) == proc' = [proc EXCEPT !.build = at]

\* Someone installs another version of an SDK file.
SdkWritten(f) ==
    /\ proc.build \in {"identify", "hash", "copy", "rehash"} /\ world.sdk[f] < MaxWrites
    /\ LET sdk == [world.sdk EXCEPT ![f] = @ + 1]
       IN  world' = [world EXCEPT !.sdk = sdk, !.was = @ \cup {sdk}]
    /\ UNCHANGED <<disk, proc>>

NextFile(tree) == IF tree[1] = 99 THEN 1 ELSE 2

HashFile ==
    /\ Build("hash")
    /\ LET f == NextFile(proc.before)
       IN  proc' = [proc EXCEPT !.before[f] = world.sdk[f], !.build = IF f = 2 THEN "copy" ELSE @]
    /\ UNCHANGED <<disk, world>>

CopyFile ==
    /\ Build("copy")
    /\ LET f == NextFile(disk.snapshot)
       IN  /\ disk' = [disk EXCEPT !.snapshot[f] = world.sdk[f]]
           /\ BuildTo(IF f = 2 THEN "rehash" ELSE "copy")
    /\ UNCHANGED world

RehashFile ==
    /\ Build("rehash")
    /\ LET f == NextFile(proc.after)
       IN  proc' = [proc EXCEPT !.after[f] = world.sdk[f],
                                !.build = IF f = 2 THEN "snapshot" ELSE @]
    /\ UNCHANGED <<disk, world>>

SnapshotAgrees == proc.before = proc.after /\ proc.before = disk.snapshot

\* image_identity and sdk_identity: the pinned image and the SDK inventory.
Identify ==
    /\ Build("identify")
    /\ BuildTo("hash")
    /\ UNCHANGED <<disk, world>>

Snapshot ==
    /\ Build("snapshot")
    /\ BuildTo(IF SnapshotAgrees THEN "create" ELSE "exit")
    /\ UNCHANGED <<disk, world>>

-----------------------------------------------------------------------------
(* One container per phase. *)

\* The client reports the container and its cidfile, or is killed before the
\* cidfile, or before the engine has done anything; the engine may still do it.
Create ==
    /\ Build("create")
    /\ \/ /\ world' = [world EXCEPT !.box = "created"]
          /\ disk' = [disk EXCEPT !.entry.cid = TRUE]
          /\ BuildTo("prove")
       \/ /\ world' = [world EXCEPT !.box = "created"]
          /\ proc' = [proc EXCEPT !.build = "cleanup", !.failed = TRUE]
          /\ UNCHANGED disk
       \/ /\ world' = [world EXCEPT !.late = TRUE]
          /\ proc' = [proc EXCEPT !.build = "cleanup", !.failed = TRUE]
          /\ UNCHANGED disk

EngineCreates ==
    /\ world.late /\ world.box = "none"
    /\ world' = [world EXCEPT !.box = "created", !.late = FALSE]
    /\ UNCHANGED <<disk, proc>>

\* container_identity: the container carries the name, image and labels of the
\* intent; a missing cidfile is adopted.
ContainerIdentity == world.box # "none"

Prove ==
    /\ Build("prove") /\ ContainerIdentity
    /\ disk' = [disk EXCEPT !.entry.proof = TRUE]
    /\ BuildTo("start")
    /\ UNCHANGED world

Start ==
    /\ Build("start") /\ disk.entry.proof /\ disk.entry.cid
    /\ world' = [world EXCEPT !.box = "running"]
    /\ BuildTo("attached")
    /\ UNCHANGED disk

WorkloadExits(ok) ==
    /\ world.box = "running"
    /\ world' = [world EXCEPT !.box = IF ok THEN "exited" ELSE "failed"]
    /\ UNCHANGED <<disk, proc>>

\* The phase's timeout kills the client, not the container.
PhaseFails ==
    /\ proc.build \in {"prove", "start", "attached"}
    /\ proc' = [proc EXCEPT !.build = "cleanup", !.failed = TRUE]
    /\ UNCHANGED <<disk, world>>

\* --require-success: exited, code 0, no OOM, no error.
Completion ==
    /\ Build("attached") /\ world.box = "exited"
    /\ disk' = [disk EXCEPT !.entry.result = TRUE]
    /\ BuildTo("cleanup")
    /\ UNCHANGED world

Absent == world.box = "none"

\* Fault: a remove command that was sent counts as a removal.
RemoveUnproven(adopted, gone) ==
    /\ Build("cleanup") /\ ~disk.entry.removed
    /\ world' = [world EXCEPT !.box = IF gone THEN "none" ELSE @]
    /\ disk' = [disk EXCEPT !.entry.cid = @ \/ adopted, !.entry.proof = @ \/ adopted,
                            !.entry.removed = TRUE]
    /\ BuildTo("cleaned")

\* cleanup_container: without a proof the container is looked up by its name
\* and adopted; the removal counts once the engine reports it absent.
Remove(adopted, gone) ==
    /\ Build("cleanup") /\ ~disk.entry.removed
    /\ adopted = (~disk.entry.proof /\ world.box # "none")
    /\ gone => world.box # "none"
    /\ world' = [world EXCEPT !.box = IF gone THEN "none" ELSE @]
    /\ disk' = [disk EXCEPT !.entry.cid = @ \/ adopted, !.entry.proof = @ \/ adopted,
                            !.entry.removed = gone \/ Absent]
    /\ BuildTo("cleaned")

\* The next phase, or the end; an unproven removal fails the build.
Cleaned ==
    /\ Build("cleaned")
    /\ IF disk.entry.result /\ disk.entry.removed /\ ~proc.failed
       THEN IF proc.phase < Phases
            THEN /\ proc' = [proc EXCEPT !.build = "create", !.phase = @ + 1]
                 /\ disk' = [disk EXCEPT !.entry = NoEntry]
            ELSE BuildTo("pack") /\ UNCHANGED disk
       ELSE BuildTo("exit") /\ UNCHANGED disk
    /\ UNCHANGED world

\* pack: the provenance of the trusted files, the manifest, the archive.
Pack ==
    /\ Build("pack")
    /\ disk' = [disk EXCEPT !.packed = TRUE]
    /\ BuildTo("exit")
    /\ UNCHANGED world

\* The EXIT trap: the removal is tried once more, the diagnostics are kept, and
\* the workspace goes only when every container is known to be gone.
Trap(gone) ==
    /\ Build("exit")
    /\ gone => world.box # "none" /\ ~disk.entry.removed
    /\ world' = [world EXCEPT !.box = IF gone THEN "none" ELSE @]
    /\ LET clean == disk.entry.removed \/ gone \/ Absent
       IN  disk' = [disk EXCEPT !.entry.removed = clean, !.work = ~clean]
    /\ BuildTo("off")

BuilderDies ==
    /\ proc.build # "off"
    /\ BuildTo("off")
    /\ UNCHANGED <<disk, world>>

-----------------------------------------------------------------------------
(* The desktop: verify_and_extract, then run_campaign. *)

\* _read_archive and _validate_manifest: the trusted files the archive binds
\* are those of the checkout.
ManifestValid == disk.bound = world.trusted

Extract ==
    /\ ~disk.extracted /\ proc.ver # "off" /\ ManifestValid
    /\ disk' = [disk EXCEPT !.extracted = TRUE]
    /\ UNCHANGED <<proc, world>>

At(c, at) == proc.ctl[c] = at
Goto(c, at) == proc' = [proc EXCEPT !.ctl[c] = at]

\* The tools are digested and the attempt directory reserved, once.
Reserve(c) ==
    /\ At(c, "idle") /\ disk.extracted
    /\ IF disk.attempt = "absent"
       THEN disk' = [disk EXCEPT !.attempt = "EMPTY"] /\ Goto(c, "reserved")
       ELSE Goto(c, "done") /\ UNCHANGED disk
    /\ UNCHANGED world

RecordReserved(c) ==
    /\ At(c, "reserved")
    /\ disk' = [disk EXCEPT !.attempt = "RESERVED"]
    /\ Goto(c, "recorded")
    /\ UNCHANGED world

\* RUNNING is recorded before the harness exists.
RecordRunning(c) ==
    /\ At(c, "recorded")
    /\ disk' = [disk EXCEPT !.attempt = "RUNNING"]
    /\ Goto(c, "spawn")
    /\ UNCHANGED world

Spawn(c) ==
    /\ At(c, "spawn")
    /\ world' = [world EXCEPT !.harness = "running", !.group = TRUE]
    /\ Goto(c, "wait")
    /\ UNCHANGED disk

\* A signal before the harness exists.
Interrupted(c) ==
    /\ At(c, "spawn")
    /\ proc' = [proc EXCEPT !.ctl[c] = "settle", !.outcome = "INTERRUPTED"]
    /\ UNCHANGED <<disk, world>>

\* The harness and its descendants write evidence; the leader writes the
\* result over what it finds and exits.
HarnessWrites(f) ==
    /\ world.group
    /\ disk.evidence[f] = 99 \/ disk.evidence[f] < MaxWrites
    /\ disk' = [disk EXCEPT !.evidence[f] = IF @ = 99 THEN 0 ELSE @ + 1]
    /\ UNCHANGED <<proc, world>>

HarnessResult(passed) ==
    /\ world.harness = "running" /\ disk.result = NoResult
    /\ \A f \in Files : disk.evidence[f] # 99
    /\ disk' = [disk EXCEPT !.result = [passed |-> passed, claims |-> disk.evidence]]
    /\ UNCHANGED <<proc, world>>

HarnessExits(ok) ==
    /\ world.harness = "running"
    /\ world' = [world EXCEPT !.harness = IF ok THEN "ok" ELSE "bad"]
    /\ UNCHANGED <<disk, proc>>

\* The supervision loop ends: the harness exited, timed out or a signal came.
Observe(c) ==
    /\ At(c, "wait")
    /\ \E o \in IF world.harness = "ok"
                 THEN {IF disk.result # NoResult THEN "HARNESS_SUCCEEDED" ELSE "CONTROLLER_FAILED",
                       "INTERRUPTED"}
                 ELSE IF world.harness = "bad" THEN {"HARNESS_FAILED", "INTERRUPTED"}
                 ELSE {"TIMEOUT", "INTERRUPTED"} :
          proc' = [proc EXCEPT !.ctl[c] = "settle", !.outcome = o]
    /\ UNCHANGED <<disk, world>>

\* Fault: the group of a harness that exited is left alone.
TerminateRunning == [world EXCEPT !.harness = IF @ = "running" THEN "bad" ELSE @,
                                  !.group = IF world.harness = "running" THEN FALSE ELSE @]

\* _terminate: the whole process group.
Terminate == [world EXCEPT !.harness = IF @ = "running" THEN "bad" ELSE @, !.group = FALSE]

\* finally: the group is gone and the private HOME removed before the outcome
\* is recorded; a failed removal or a late signal spoils a success.
Settle(c) ==
    /\ At(c, "settle")
    /\ world' = Terminate
    /\ Goto(c, "record")
    /\ UNCHANGED disk

RecordOutcome(c) ==
    /\ At(c, "record")
    /\ \E clean \in BOOLEAN :
          disk' = [disk EXCEPT !.attempt = proc.outcome,
                               !.code = IF proc.outcome = "HARNESS_SUCCEEDED" /\ clean THEN 0 ELSE 1]
    /\ Goto(c, "done")
    /\ UNCHANGED world

\* SIGKILL: the harness outlives its controller.
ControllerDies(c) ==
    /\ proc.ctl[c] \notin {"off", "idle", "done"}
    /\ Goto(c, "done")
    /\ UNCHANGED <<disk, world>>

-----------------------------------------------------------------------------
(* The verifier, which may be started at any time. *)

Ver(at) == proc.ver = at
VerTo(at) == proc' = [proc EXCEPT !.ver = at]

\* The closed schema of validate_result: bindings, broker, window, and every
\* required scenario passed with its assertions and kinds of evidence.
ResultPassed == disk.result.passed

\* verify_tool of the binary and the harness, then the result's stable bytes.
ReadResult ==
    /\ Ver("idle") /\ disk.archive = <<>> /\ ResultPassed
    /\ proc' = [proc EXCEPT !.ver = "evidence", !.read = disk.result, !.seen = 0]
    /\ UNCHANGED <<disk, world>>

\* verify_path_components: the referenced file is there.
Referenced(f) == disk.evidence[f] # 99

\* Each referenced file has the size and digest of its reference.
CheckEvidence ==
    /\ Ver("evidence")
    /\ LET f == proc.seen + 1
       IN  IF Referenced(f) /\ disk.evidence[f] = proc.read.claims[f]
           THEN proc' = [proc EXCEPT !.seen = f, !.ver = IF f = 2 THEN "attempt" ELSE @]
           ELSE proc' = [proc EXCEPT !.ver = "idle", !.read = NoResult, !.seen = 0]
    /\ UNCHANGED <<disk, world>>

\* Fault: any attempt of this source and binary is accepted.
AttemptBound == disk.attempt # "absent"

\* The attempt is complete, succeeded and binds the same source and tools.
AttemptAccepted == disk.attempt = "HARNESS_SUCCEEDED" /\ disk.code = 0

CheckAttempt ==
    /\ Ver("attempt")
    /\ IF AttemptAccepted THEN VerTo("receipt")
       ELSE proc' = [proc EXCEPT !.ver = "idle", !.read = NoResult, !.seen = 0]
    /\ UNCHANGED <<disk, world>>

WriteReceipt ==
    /\ Ver("receipt")
    /\ disk' = [disk EXCEPT !.receipt = proc.read]
    /\ proc' = [proc EXCEPT !.ver = "publish", !.seen = 0]
    /\ UNCHANGED world

\* Fault: the files are archived as they are found.
Unchanged(f) == disk.evidence[f] # 99

Confirmed(f) == disk.evidence[f] = proc.read.claims[f]

\* publish_verified_archive: each file is read again and must not have changed.
ArchiveFile ==
    /\ Ver("publish")
    /\ LET f == proc.seen + 1
       IN  IF Confirmed(f)
           THEN proc' = [proc EXCEPT !.seen = f, !.copied[f] = disk.evidence[f],
                                     !.ver = IF f = 2 THEN "link" ELSE @]
           ELSE proc' = [proc EXCEPT !.ver = "idle", !.read = NoResult, !.seen = 0,
                                     !.copied = Unread]
    /\ UNCHANGED <<disk, world>>

\* os.link: never over an earlier publication.
LinkArchive ==
    /\ Ver("link")
    /\ disk' = [disk EXCEPT !.archive = <<[result |-> proc.read, evidence |-> proc.copied]>>]
    /\ VerTo("done")
    /\ UNCHANGED world

VerifierDies ==
    /\ proc.ver \notin {"off", "idle", "done"}
    /\ proc' = [proc EXCEPT !.ver = "idle", !.read = NoResult, !.seen = 0, !.copied = Unread]
    /\ UNCHANGED <<disk, world>>

Next ==
    \/ \E f \in Files : SdkWritten(f) \/ HarnessWrites(f)
    \/ Identify \/ HashFile \/ CopyFile \/ RehashFile \/ Snapshot
    \/ Create \/ EngineCreates \/ Prove \/ Start \/ PhaseFails \/ Completion
    \/ \E ok \in BOOLEAN : WorkloadExits(ok) \/ HarnessResult(ok) \/ HarnessExits(ok) \/ Trap(ok)
    \/ \E a \in BOOLEAN, g \in BOOLEAN : Remove(a, g)
    \/ Cleaned \/ Pack \/ BuilderDies \/ Extract
    \/ \E c \in Controllers : \/ Reserve(c) \/ RecordReserved(c) \/ RecordRunning(c) \/ Spawn(c)
                              \/ Interrupted(c) \/ Observe(c) \/ Settle(c) \/ RecordOutcome(c)
                              \/ ControllerDies(c)
    \/ ReadResult \/ CheckEvidence \/ CheckAttempt \/ WriteReceipt \/ ArchiveFile
    \/ LinkArchive \/ VerifierDies

Spec == Init /\ [][Next]_vars

-----------------------------------------------------------------------------
\* A packed binary was built on an SDK that existed as a whole at one instant,
\* and a workspace is never removed under a container that still runs in it.
BuildIsolated ==
    /\ disk.packed => disk.snapshot \in world.was
    /\ (proc.build = "off" /\ ~disk.work) => world.box # "running"

\* An archive is published only for an attempt that succeeded, of which no
\* process is left to write, with the evidence that the result claims and the
\* receipt repeats.
PublishedIsProved ==
    disk.archive # <<>> =>
        /\ disk.archive[1].evidence = disk.archive[1].result.claims
        /\ disk.archive[1].result = disk.receipt
        /\ world.harness = "ok" /\ ~world.group

QualificationFounded == BuildIsolated /\ PublishedIsProved
=============================================================================
