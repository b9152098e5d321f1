-------------------------- MODULE ReleaseAcceptance --------------------------
(***************************************************************************)
(* scripts/accept_core_release.py, which runs the release builder,         *)
(* scripts/run_release_simulator_smoke.py and, inside it, the artifact     *)
(* part of scripts/hepta_preflight_core.py, and writes one receipt.        *)
(*                                                                         *)
(* An archive is its manifest and its members, each a path and its bytes;  *)
(* the digest of an archive is the archive.  "ab" is a path below "a".     *)
(* Others may replace the artifact or move the checkout at any time, and   *)
(* every process may stop between two steps.                               *)
(***************************************************************************)
EXTENDS Naturals, Sequences, SequencesExt

CONSTANTS
    Archives,      \* the archives a build can leave or another file can hold
    Required,      \* paths the preflight policy requires
    MaxWrites      \* bound: replacements of the artifact or the checkout

VARIABLES disk, proc, world
vars == <<disk, proc, world>>

None == [manifest |-> <<>>, members |-> <<>>]
\* Byte order of the paths.
Order == <<"a", "ab", "c">>
Rank(p) == CHOOSE i \in DOMAIN Order : Order[i] = p
Below(p) == IF p = "ab" THEN {"a"} ELSE {}

Paths(files) == { files[i][1] : i \in DOMAIN files }

Init ==
    /\ disk = [artifact |-> None, stamp |-> 0, sidecar |-> None, snapshot |-> None,
               candidate |-> {}, previous |-> {}, current |-> "none",
               record |-> None, receipt |-> None, created |-> FALSE]
    /\ proc = [at |-> "idle", digest |-> None, pin |-> 0]
    /\ world = [head |-> "source", writes |-> 0]

-----------------------------------------------------------------------------
(* The archive. *)

\* _check_manifest_shape: the files are listed once, in order.
ManifestShape(files) ==
    /\ files # <<>>
    /\ \A i \in DOMAIN files : \A j \in DOMAIN files : i < j => Rank(files[i][1]) < Rank(files[j][1])

\* _validate_complete_archive_namespace: no file is the directory of another.
CompleteNamespace(files) == \A p \in Paths(files) : Below(p) \cap Paths(files) = {}

\* The reader's members after the manifest are the manifest's files in its
\* order, with their digests, and nothing follows.
MembersMatch(x) == x.members = x.manifest

\* The paths the profile requires are there.
PolicyAdmits(x) == Required \subseteq Paths(x.manifest)

\* inspect_archive.
InspectArchive(x) ==
    /\ ManifestShape(x.manifest) /\ CompleteNamespace(x.manifest)
    /\ MembersMatch(x) /\ PolicyAdmits(x)

\* _extract_release with _copy_member: a member is created exclusively, its
\* parents are directories.  "fails" if a member cannot be created.
ExtractMember(tree, member) ==
    LET p == member[1]
    IN  IF \/ tree = {<<"fails", 0>>}
           \/ \E m \in tree : m[1] = p \/ m[1] \in Below(p) \/ p \in Below(m[1])
        THEN {<<"fails", 0>>} ELSE tree \cup {member}

ExtractRelease(x) == FoldLeft(ExtractMember, {}, x.members)

-----------------------------------------------------------------------------
(* The rest of the machine. *)

ReplaceArtifact ==
    /\ world.writes < MaxWrites /\ disk.artifact # None
    /\ \E x \in Archives \ {disk.artifact} :
          disk' = [disk EXCEPT !.artifact = x, !.stamp = @ + 1]
    /\ world' = [world EXCEPT !.writes = @ + 1]
    /\ UNCHANGED proc

MoveCheckout ==
    /\ world.writes < MaxWrites
    /\ world' = [head |-> IF world.head = "source" THEN "other" ELSE "source", writes |-> world.writes + 1]
    /\ UNCHANGED <<disk, proc>>

-----------------------------------------------------------------------------
(* accept. *)

Goto(at) == proc' = [proc EXCEPT !.at = at]

\* The checkout is the source and clean, the lanes pass, the evidence they left
\* names the source.
Begin ==
    /\ proc.at = "idle" /\ ~disk.created
    /\ world.head = "source"
    /\ Goto("build")
    /\ UNCHANGED <<disk, world>>

\* build_release_package.py: new outputs only.
BuildPackage ==
    /\ proc.at = "build" /\ disk.artifact = None
    /\ \E x \in Archives : disk' = [disk EXCEPT !.artifact = x, !.sidecar = x]
    /\ Goto("digest")
    /\ UNCHANGED world

DigestCandidate ==
    /\ proc.at = "digest" /\ disk.sidecar = disk.artifact
    /\ proc' = [proc EXCEPT !.at = "snapshot", !.digest = disk.artifact]
    /\ UNCHANGED <<disk, world>>

-----------------------------------------------------------------------------
(* run_release_smoke. *)

\* The record and the work root are new; the artifact is opened and copied ...
SnapshotOpens ==
    /\ proc.at = "snapshot" /\ disk.record = None /\ disk.snapshot = None
    /\ disk' = [disk EXCEPT !.snapshot = disk.artifact]
    /\ proc' = [proc EXCEPT !.at = "copied", !.pin = disk.stamp]
    /\ UNCHANGED world

\* Fault: only the identity of the file is compared.
SnapshotStable == proc.pin = disk.stamp

\* ... and compared: the file is the one opened and its digest the expected.
SnapshotMatches == proc.pin = disk.stamp /\ disk.snapshot = proc.digest

SnapshotArtifact ==
    /\ proc.at = "copied" /\ SnapshotMatches
    /\ Goto("preflight")
    /\ UNCHANGED <<disk, world>>

\* _run_preflight on the snapshot.
RunPreflight ==
    /\ proc.at = "preflight" /\ InspectArchive(disk.snapshot)
    /\ Goto("extract")
    /\ UNCHANGED <<disk, world>>

Extract ==
    /\ proc.at = "extract" /\ ExtractRelease(disk.snapshot) # {<<"fails", 0>>}
    /\ disk' = [disk EXCEPT !.candidate = ExtractRelease(disk.snapshot)]
    /\ Goto("copytree")
    /\ UNCHANGED world

CopyPrevious ==
    /\ proc.at = "copytree"
    /\ disk' = [disk EXCEPT !.previous = disk.candidate]
    /\ Goto("to candidate")
    /\ UNCHANGED world

\* _atomic_switch.
Switch(from, slot, to) ==
    /\ proc.at = from
    /\ disk' = [disk EXCEPT !.current = slot]
    /\ Goto(to)
    /\ UNCHANGED world

\* _run_installed_smoke: what the current pointer names runs and passes.
RunInstalledSmoke ==
    /\ proc.at = "smoke" /\ disk.current # "none"
    /\ Goto("to previous")
    /\ UNCHANGED <<disk, world>>

\* _write_record: linked without replacing, checked, synced.
LinkRecord ==
    /\ proc.at = "record" /\ disk.record = None
    /\ disk' = [disk EXCEPT !.record = proc.digest]
    /\ Goto("recorded")
    /\ UNCHANGED world

RecordDurable ==
    /\ proc.at = "recorded"
    /\ Goto("lanes")
    /\ UNCHANGED <<disk, world>>

\* A failure after the first switch: the record is withdrawn and the pointer
\* goes back, both best effort.
WithdrawRecord ==
    /\ proc.at = "recorded"
    /\ disk' = [disk EXCEPT !.record = None]
    /\ Goto("roll back")
    /\ UNCHANGED world

RollsBack == proc.at \in {"smoke", "to previous", "to candidate again", "record", "roll back"}

RollBack ==
    /\ RollsBack
    /\ disk' = [disk EXCEPT !.current = "previous"]
    /\ Goto("idle")
    /\ UNCHANGED world

-----------------------------------------------------------------------------
\* The process, client pair and systemd fixtures in turn: each is given the path
\* and the digest; the evidence of the first two has to name the digest.
GenerationCostEvidence == disk.artifact = proc.digest
ClientPairEvidence == disk.artifact = proc.digest

ProcessLane ==
    /\ proc.at = "lanes" /\ GenerationCostEvidence
    /\ Goto("pair")
    /\ UNCHANGED <<disk, world>>

PairLane ==
    /\ proc.at = "pair" /\ ClientPairEvidence
    /\ Goto("systemd")
    /\ UNCHANGED <<disk, world>>

SystemdLane ==
    /\ proc.at = "systemd" /\ disk.artifact = proc.digest
    /\ Goto("confirm")
    /\ UNCHANGED <<disk, world>>

\* The checkout and the artifact are what they were; the receipt is created
\* exclusively ...
Confirm ==
    /\ proc.at = "confirm"
    /\ world.head = "source" /\ disk.artifact = proc.digest
    /\ Goto("receipt")
    /\ UNCHANGED <<disk, world>>

CreateReceipt ==
    /\ proc.at = "receipt" /\ ~disk.created
    /\ disk' = [disk EXCEPT !.created = TRUE]
    /\ Goto("write")
    /\ UNCHANGED world

\* ... and written in place.
WriteReceipt ==
    /\ proc.at = "write"
    /\ disk' = [disk EXCEPT !.receipt = proc.digest]
    /\ Goto("idle")
    /\ UNCHANGED world

\* A refusal before the first switch or after the record, or a kill.
Leave ==
    /\ proc.at # "idle"
    /\ Goto("idle")
    /\ UNCHANGED <<disk, world>>

Next ==
    \/ ReplaceArtifact \/ MoveCheckout
    \/ Begin \/ BuildPackage \/ DigestCandidate
    \/ SnapshotOpens \/ SnapshotArtifact \/ RunPreflight \/ Extract \/ CopyPrevious
    \/ Switch("to candidate", "candidate", "smoke") \/ RunInstalledSmoke
    \/ Switch("to previous", "previous", "to candidate again")
    \/ Switch("to candidate again", "candidate", "record")
    \/ LinkRecord \/ RecordDurable \/ WithdrawRecord \/ RollBack
    \/ ProcessLane \/ PairLane \/ SystemdLane \/ Confirm \/ CreateReceipt \/ WriteReceipt \/ Leave

Spec == Init /\ [][Next]_vars

-----------------------------------------------------------------------------
Installed(x) == { x.manifest[i] : i \in DOMAIN x.manifest }

\* A deployment record says that the package with its digest was inspected,
\* unpacked to exactly the files of its manifest, run from there and left
\* selected; an acceptance receipt names the package of that record, of the
\* digest file and of the last look at the artifact.  Neither holds of an
\* artifact that was replaced on the way or of a run that stopped
\* (run_release_smoke, inspect_archive, accept).
AcceptedIsTested ==
    /\ disk.record # None =>
          /\ disk.candidate = Installed(disk.record) /\ disk.current = "candidate"
          /\ Required \subseteq Paths(disk.record.manifest)
    /\ disk.receipt # None =>
          disk.record = disk.receipt /\ disk.sidecar = disk.receipt
=============================================================================
