--------------------------- MODULE ReleasePackage ---------------------------
(***************************************************************************)
(* scripts/build_release_package.py: an install tree is collected file by  *)
(* file while others may still write to it, and the archive, its digest    *)
(* and its receipt are published one after the other.                      *)
(*                                                                         *)
(* The tree is one file in the root and one in a subdirectory.  A stamp    *)
(* stands for the identity that the code compares (inode, size, mtime,     *)
(* ctime): every write gives the file a new one, a rename also its         *)
(* directory.  A file is read in two halves.  Names, modes, sizes and      *)
(* member names (_admit_payload_path, _looks_private, _validate_ustar_name)*)
(* only refuse.                                                            *)
(***************************************************************************)
EXTENDS Naturals, Sequences

CONSTANTS
    Builders,   \* processes that build the same output
    MaxWrites   \* bound: writes to the install tree

VARIABLES disk, proc, world
vars == <<disk, proc, world>>

Files == {"a", "b"}
Dirs == {"root", "lib"}
Outputs == <<"package", "digest", "receipt">>
\* The directories whose identity is checked again with file or directory x.
Chain(x) == IF x \in {"a", "root"} THEN {"root"} ELSE {"root", "lib"}

None == <<>>
Idle == [at |-> "idle", pin |-> [x \in {} |-> 0], read |-> [f \in Files |-> <<>>], from |-> 0]

Init ==
    /\ disk = [data |-> [f \in Files |-> 1], stamp |-> [x \in Files \cup Dirs |-> 0],
               package |-> None, digest |-> None, receipt |-> None]
    /\ proc = [b \in Builders |-> Idle]
    /\ world = [history |-> << [f \in Files |-> 1] >>]

-----------------------------------------------------------------------------
\* Another process writes file f, in place or by renaming a new one over it.
WriteTree(f, renamed) ==
    /\ Len(world.history) <= MaxWrites
    /\ LET data == [disk.data EXCEPT ![f] = 3 - @]
           now  == Len(world.history)
           dir  == IF f = "a" THEN "root" ELSE "lib"
       IN  /\ disk' = [disk EXCEPT !.data = data,
                          !.stamp = [x \in DOMAIN @ |-> IF x = f \/ (renamed /\ x = dir) THEN now ELSE @[x]]]
           /\ world' = [world EXCEPT !.history = Append(@, data)]
    /\ UNCHANGED proc

-----------------------------------------------------------------------------
(* collect_payload. *)

Goto(b, at) == proc' = [proc EXCEPT ![b].at = at]

\* The identity of x is still the pinned one.
Same(b, x) == proc[b].pin[x] = disk.stamp[x]

\* _validate_directory_namespace, _validate_snapshot_namespace: the chain is
\* opened again from the root and compared.
NamespaceHolds(b, x) == \A y \in Chain(x) \cup {x} : Same(b, y)

Pinned(b, X) == [x \in DOMAIN proc[b].pin \cup X |-> IF x \in X THEN disk.stamp[x] ELSE proc[b].pin[x]]

\* _ensure_new_outputs, then the root is opened and its entries are listed.
\* What the scan observed of an entry is compared when the entry is opened.
Begin(b) ==
    /\ proc[b].at = "idle"
    /\ disk.package = None /\ disk.digest = None /\ disk.receipt = None
    /\ proc' = [proc EXCEPT ![b] = [Idle EXCEPT !.at = "open a", !.pin = Pinned(b, {"root", "a", "lib"}),
                                               !.from = Len(world.history)]]
    /\ UNCHANGED <<disk, world>>

\* _snapshot_source: the file is the one the scan observed; the copy begins ...
OpenFile(b, f) ==
    /\ proc[b].at = (IF f = "a" THEN "open a" ELSE "open b")
    /\ Same(b, f)
    /\ proc' = [proc EXCEPT ![b].at = IF f = "a" THEN "close a" ELSE "close b", ![b].read[f] = <<disk.data[f]>>]
    /\ UNCHANGED <<disk, world>>

\* ... and ends, and file and directories are compared.
CloseFile(b, f) ==
    /\ proc[b].at = (IF f = "a" THEN "close a" ELSE "close b")
    /\ NamespaceHolds(b, f)
    /\ proc' = [proc EXCEPT ![b].at = IF f = "a" THEN "enter lib" ELSE "leave lib",
                            ![b].read[f] = Append(@, disk.data[f])]
    /\ UNCHANGED <<disk, world>>

\* visit: the subdirectory is the one observed, and is listed.
EnterDirectory(b) ==
    /\ proc[b].at = "enter lib" /\ NamespaceHolds(b, "lib")
    /\ proc' = [proc EXCEPT ![b].at = "open b", ![b].pin = Pinned(b, {"b"})]
    /\ UNCHANGED <<disk, world>>

LeaveDirectory(b) ==
    /\ proc[b].at = "leave lib" /\ NamespaceHolds(b, "lib")
    /\ Goto(b, "confirm root")
    /\ UNCHANGED <<disk, world>>

\* Fault: the collected entries are not looked at again.
NotConfirmed(b, x) == TRUE

\* _validate_complete_payload_namespace, one entry.
Confirmed(b, x) == NamespaceHolds(b, x)

Confirm(b) ==
    \E i \in 1 .. 4 :
        LET order == <<"root", "lib", "a", "b">>
            steps == <<"confirm root", "confirm lib", "confirm a", "confirm b", "archive">>
        IN  /\ proc[b].at = steps[i] /\ Confirmed(b, order[i])
            /\ Goto(b, steps[i + 1])
            /\ UNCHANGED <<disk, world>>

-----------------------------------------------------------------------------
(* package_install_root. *)

\* build_manifest and archive_bytes: the snapshots are hashed before and after
\* they are copied into the archive.
Archive(b) ==
    /\ proc[b].at = "archive"
    /\ Goto(b, "link package")
    /\ UNCHANGED <<disk, world>>

LinkAt == <<"link package", "link digest", "link receipt">>
CheckAt == <<"check package", "check digest", "check receipt">>

\* Fault: the output replaces what is there.
LinkOver(b, name) == TRUE

\* _publish_noreplace: os.link fails if the name exists.
LinkFree(b, name) == disk[name] = None

\* _write_atomic up to the link; the digest and the receipt name the package's
\* bytes.
Link(b) ==
    \E i \in 1 .. 3 :
        /\ proc[b].at = LinkAt[i] /\ LinkFree(b, Outputs[i])
        /\ disk' = [disk EXCEPT ![Outputs[i]] = proc[b].read]
        /\ Goto(b, CheckAt[i])
        /\ UNCHANGED world

\* _validate_published_output and the directory sync.
CheckPublished(b) ==
    \E i \in 1 .. 3 :
        /\ proc[b].at = CheckAt[i]
        /\ proc' = [proc EXCEPT ![b] = IF i = 3 THEN Idle ELSE [@ EXCEPT !.at = LinkAt[i + 1]]]
        /\ UNCHANGED <<disk, world>>

\* The check or the sync fails: this writer's own inode is removed again.
RollBack(b) ==
    \E i \in 1 .. 3 :
        /\ proc[b].at = CheckAt[i]
        /\ disk' = IF disk[Outputs[i]] = proc[b].read THEN [disk EXCEPT ![Outputs[i]] = None] ELSE disk
        /\ proc' = [proc EXCEPT ![b] = Idle]
        /\ UNCHANGED world

\* Any refusal, exception or kill; the snapshots are closed, what is published
\* stays.
Leave(b) ==
    /\ proc[b].at # "idle"
    /\ proc' = [proc EXCEPT ![b] = Idle]
    /\ UNCHANGED <<disk, world>>

Next ==
    \/ \E f \in Files, renamed \in BOOLEAN : WriteTree(f, renamed)
    \/ \E b \in Builders :
          \/ Begin(b) \/ EnterDirectory(b) \/ LeaveDirectory(b) \/ Confirm(b)
          \/ \E f \in Files : OpenFile(b, f) \/ CloseFile(b, f)
          \/ Archive(b) \/ Link(b) \/ CheckPublished(b) \/ RollBack(b) \/ Leave(b)

Spec == Init /\ [][Next]_vars

-----------------------------------------------------------------------------
\* A package holds the install tree as it stood at one instant of the build,
\* however the tree was written meanwhile, files put back to their old bytes
\* included (collect_payload, _validate_complete_payload_namespace); and a
\* receipt and a digest are about the package that lies beside them, whichever
\* of several builds published them and wherever one stopped
\* (package_install_root).
PackageOfOneInstant ==
    /\ \A b \in Builders :
          proc[b].at = "archive" =>
              \E i \in proc[b].from .. Len(world.history) :
                  \A f \in Files : proc[b].read[f] = <<world.history[i][f], world.history[i][f]>>
    /\ \A name \in {"digest", "receipt"} : disk[name] # None => disk[name] = disk.package
=============================================================================
