---------------------------- MODULE OmsLifecycle ----------------------------
(***************************************************************************)
(* Stopped-state maintenance of the OMS ledger:                            *)
(* scripts/hepta_oms_checkpoint.py (generation v1: the journal stays),     *)
(* scripts/hepta_oms_lifecycle.py (generation v2: the journal is replaced  *)
(* by a lineage header, and rebase), scripts/hepta_oms_archive.py (gzip)   *)
(* and the native reader of HeptaTrade/execution/                          *)
(* execution_generation_support.cpp.                                       *)
(*                                                                         *)
(* Several maintenance processes and the service may run at the same time, *)
(* and any of them may die between two steps.  Every rename is followed by *)
(* a directory sync before the next step, so a step is durable or was not  *)
(* taken.  Records are numbered in the order in which the service          *)
(* acknowledged them; what a generation's hot replay and indexes know is   *)
(* `cum', the records they were built from (OmsProjection is about their   *)
(* contents).  The other tools lock the journal; rebase takes no lock      *)
(* after its seal and relies on --stopped-state, so here the service and   *)
(* the other tools stay away while a rebase runs.                          *)
(***************************************************************************)
EXTENDS Naturals, Sequences, SequencesExt, FiniteSets

CONSTANTS
    Gens,         \* generation directory names (uuid4: never used twice)
    Tools,        \* maintenance processes
    MaxRecords,   \* bound: records of the history
    MaxInodes     \* bound: files that the journal's name has had

VARIABLES
    acked,    \* history: the records acknowledged, 1 .. acked
    journal,  \* the file at the journal's name: [ino, hdr, recs, gz]
    store,    \* the generation store directory exists
    gens,     \* generation directories
    current,  \* CURRENT
    runtime,  \* CURRENT.runtime
    service,  \* "up" or "down", and what it recovered
    tool      \* maintenance processes: [op, at, gen, cur, ino, seg]

vars == <<acked, journal, store, gens, current, runtime, service, tool>>

NoGen == "none"
Absent == [state |-> "absent", schema |-> 0, line |-> << >>, seg |-> << >>, cum |-> << >>]
Idle == [op |-> "none", at |-> "idle", gen |-> NoGen, cur |-> NoGen, ino |-> 0, prune |-> {}]

Init ==
    /\ acked = 0
    /\ journal = [ino |-> 0, hdr |-> NoGen, recs |-> << >>, gz |-> FALSE]
    /\ store = FALSE
    /\ gens = [g \in Gens |-> Absent]
    /\ current = NoGen /\ runtime = NoGen
    /\ service = [at |-> "down", loaded |-> << >>]
    /\ tool = [t \in Tools |-> Idle]

History == [i \in 1 .. acked |-> i]

Durable(g) == g \in Gens /\ gens[g].state = "durable"

\* parent_generation of g.
ParentOf(g) == IF Len(gens[g].line) < 2 THEN NoGen ELSE gens[g].line[Len(gens[g].line) - 1]

-----------------------------------------------------------------------------
(* Locks.  A tool holds an exclusive flock on the inode it opened; the      *)
(* service a shared one on the inode at the journal's name.                 *)

Holds(t) == tool[t].op \in {"build", "seal", "transform"} /\ tool[t].at \notin {"idle", "begun", "open"}

NoRebase == \A t \in Tools : tool[t].op # "rebase"

LockFree(t) ==
    /\ \A u \in Tools \ {t} : Holds(u) => tool[u].ino # tool[t].ino
    /\ ~(service.at = "up" /\ journal.ino = tool[t].ino)

-----------------------------------------------------------------------------
(* The native reader. *)

\* Fault: the tail's lineage header is not compared.
AnyTail(g) == journal.hdr # NoGen

\* The header that OmsGenerationStore::Recover expects at the start of the tail.
TailOf(g) == journal.hdr = g

IsPrefixHere(seg) == ~journal.gz /\ journal.hdr = NoGen /\ IsPrefix(seg, journal.recs)

\* OmsGenerationStore::Prepare and RecoverGenerationV1, Recover.
GenerationReadable ==
    /\ current # NoGen /\ runtime = current /\ Durable(current)
    /\ \/ gens[current].schema = 1 /\ IsPrefixHere(gens[current].seg)
       \/ /\ gens[current].schema = 2 /\ TailOf(current) /\ ~journal.gz
          /\ ParentOf(current) = NoGen \/ Durable(ParentOf(current))

\* RecoverFromJournal: the store decides, if there is one.
Recoverable == IF store THEN GenerationReadable ELSE journal.hdr = NoGen

Recovered ==
    IF ~store \/ gens[current].schema = 1 THEN journal.recs
    ELSE gens[current].cum \o journal.recs

StartService ==
    /\ service.at = "down" /\ Recoverable
    /\ \A t \in Tools : ~(Holds(t) /\ tool[t].ino = journal.ino)
    /\ NoRebase
    /\ service' = [at |-> "up", loaded |-> Recovered]
    /\ UNCHANGED <<acked, journal, store, gens, current, runtime, tool>>

\* A critical append: written, synced, then acknowledged.
AppendRecord ==
    /\ service.at = "up" /\ acked < MaxRecords
    /\ acked' = acked + 1
    /\ journal' = [journal EXCEPT !.recs = Append(@, acked + 1)]
    /\ service' = [service EXCEPT !.loaded = Append(@, acked + 1)]
    /\ UNCHANGED <<store, gens, current, runtime, tool>>

StopService ==
    /\ service.at = "up"
    /\ service' = [at |-> "down", loaded |-> << >>]
    /\ UNCHANGED <<acked, journal, store, gens, current, runtime, tool>>

-----------------------------------------------------------------------------
(* Steps of the maintenance processes. *)

At(t, op, at) == tool[t].op = op /\ tool[t].at = at
Goto(t, at) == tool' = [tool EXCEPT ![t].at = at]

\* A process refuses, raises or is killed.  What it published stays; an
\* unfinished directory stays and is never selected.
Abandon(t) ==
    /\ tool[t].op # "none"
    /\ tool' = [tool EXCEPT ![t] = Idle]
    /\ UNCHANGED <<acked, journal, store, gens, current, runtime, service>>

\* store.mkdir, _read_current, generation_dir.mkdir.
Begin(t, op, g) ==
    /\ tool[t] = Idle /\ NoRebase /\ gens[g].state = "absent"
    /\ store' = TRUE
    /\ gens' = [gens EXCEPT ![g].state = "partial"]
    /\ tool' = [tool EXCEPT ![t] = [Idle EXCEPT !.op = op, !.at = "begun", !.gen = g, !.cur = current]]
    /\ UNCHANGED <<acked, journal, current, runtime, service>>

\* os.open of the journal; the lock is taken afterwards.
OpenJournal(t) ==
    /\ tool[t].at = "begun"
    /\ tool' = [tool EXCEPT ![t].ino = journal.ino, ![t].at = "open"]
    /\ UNCHANGED <<acked, journal, store, gens, current, runtime, service>>

\* Fault: the named file is not compared with the locked one.
NotCompared(t) == LockFree(t)

\* flock, then the identity check after the read: the locked inode is still
\* the one at the journal's name.
Locked(t) == LockFree(t) /\ tool[t].ino = journal.ino

WriteGeneration(t, g, schema, line, seg, cum) ==
    /\ gens' = [gens EXCEPT ![g] = [state |-> "durable", schema |-> schema, line |-> line,
                                    seg |-> seg, cum |-> cum]]
    /\ Goto(t, "durable")
    /\ UNCHANGED <<acked, journal, store, current, runtime, service>>

\* build_generation (v1) up to "generation-durable": the whole journal is the
\* segment.
BuildFiles(t) ==
    /\ At(t, "build", "open") /\ Locked(t)
    /\ ~journal.gz /\ journal.hdr = NoGen
    /\ WriteGeneration(t, tool[t].gen, 1,
                       (IF Durable(tool[t].cur) THEN gens[tool[t].cur].line ELSE << >>) \o <<tool[t].gen>>,
                       journal.recs, journal.recs)

\* verify_generation: digests, the pointer pair if g is selected, the parent.
Verified(g) ==
    /\ Durable(g)
    /\ current = g => runtime = g
    /\ ParentOf(g) # NoGen => Durable(ParentOf(g))

\* _parent_state: the record at which the tail of parent p starts, if valid.
ParentState(p) ==
    \/ p = NoGen /\ journal.hdr = NoGen /\ ~journal.gz
    \/ /\ p # NoGen /\ Verified(p)
       /\ \/ gens[p].schema = 1 /\ IsPrefixHere(gens[p].seg)
          \/ gens[p].schema = 2 /\ journal.hdr = p

TailFrom(p) ==
    IF p # NoGen /\ gens[p].schema = 1
    THEN SubSeq(journal.recs, Len(gens[p].seg) + 1, Len(journal.recs))
    ELSE journal.recs

\* seal_generation up to "generation-durable".
SealFiles(t) ==
    LET p == tool[t].cur
        g == tool[t].gen
    IN  /\ At(t, "seal", "open") /\ Locked(t) /\ ParentState(p)
        /\ WriteGeneration(t, g, 2, (IF p = NoGen THEN << >> ELSE gens[p].line) \o <<g>>, TailFrom(p),
                           (IF p = NoGen THEN << >> ELSE gens[p].cum) \o TailFrom(p))

\* "tail-published": the journal is replaced by the header of the generation.
PublishTail(t) ==
    /\ tool[t].op \in {"seal", "rebase"} /\ tool[t].at = "durable"
    /\ journal' = [ino |-> journal.ino + 1, hdr |-> tool[t].gen, recs |-> << >>, gz |-> FALSE]
    /\ Goto(t, "tail")
    /\ UNCHANGED <<acked, store, gens, current, runtime, service>>

\* "current-json-durable".
PublishCurrent(t) ==
    /\ \/ At(t, "build", "durable")
       \/ tool[t].op \in {"seal", "rebase"} /\ tool[t].at = "tail"
    /\ current' = tool[t].gen
    /\ Goto(t, "current")
    /\ UNCHANGED <<acked, journal, store, gens, runtime, service>>

\* "current-durable".  CURRENT.runtime binds the bytes of CURRENT as read back,
\* so it names this generation only if no other process replaced them.
PublishRuntime(t) ==
    /\ tool[t].op \in {"build", "seal", "rebase"} /\ tool[t].at = "current"
    /\ runtime' = IF current = tool[t].gen THEN tool[t].gen ELSE "mismatch"
    /\ \/ tool[t].op # "rebase" /\ tool' = [tool EXCEPT ![t] = Idle]
       \/ tool[t].op = "rebase" /\ Goto(t, "published")
       \* rebase_generation seals first and goes on with a directory of its own.
       \/ /\ tool[t].op = "seal" /\ service.at = "down"
          /\ \A u \in Tools \ {t} : tool[u] = Idle
          /\ tool' = [tool EXCEPT ![t] = [Idle EXCEPT !.op = "rebase", !.at = "sealed"]]
    /\ UNCHANGED <<acked, journal, store, gens, current, service>>

\* The newest v1 generation of a chain holds everything before it.
FromBase(line) ==
    LET bases == { i \in DOMAIN line : gens[line[i]].schema = 1 }
        base  == IF bases = {} THEN 1 ELSE CHOOSE i \in bases : \A j \in bases : j <= i
    IN  SubSeq(line, base, Len(line))

Segments(line) == FlattenSeq([i \in DOMAIN line |-> gens[line[i]].seg])

\* rebase_generation from the verified selection to "rebase-generation-durable".
RebaseFiles(t, g) ==
    LET src == current
    IN  /\ At(t, "rebase", "sealed") /\ gens[g].state = "absent"
        /\ src # NoGen /\ Verified(src) /\ gens[src].schema = 2
        /\ journal.hdr = src /\ journal.recs = << >>
        /\ \A i \in DOMAIN gens[src].line : Verified(gens[src].line[i])
        /\ Len(Segments(FromBase(gens[src].line))) = Len(gens[src].cum)
        /\ gens' = [gens EXCEPT ![g] = [state |-> "durable", schema |-> 2, line |-> <<g>>,
                                        seg |-> Segments(FromBase(gens[src].line)),
                                        cum |-> gens[src].cum]]
        /\ tool' = [tool EXCEPT ![t].at = "durable", ![t].gen = g,
                                ![t].prune = Range(gens[src].line)]
        /\ UNCHANGED <<acked, journal, store, current, runtime, service>>

\* The published rebase is verified before anything is deleted.
RebaseVerify(t) ==
    /\ At(t, "rebase", "published")
    /\ Verified(tool[t].gen)
    /\ current = tool[t].gen => journal.hdr = tool[t].gen
    /\ Goto(t, "pruning")
    /\ UNCHANGED <<acked, journal, store, gens, current, runtime, service>>

\* _prune_generation_chain, one directory at a time.
PruneGeneration(t, g) ==
    /\ At(t, "rebase", "pruning") /\ g \in tool[t].prune
    /\ gens' = [gens EXCEPT ![g].state = "pruned", ![g].seg = << >>, ![g].cum = << >>]
    /\ tool' = [tool EXCEPT ![t].prune = @ \ {g}]
    /\ UNCHANGED <<acked, journal, store, current, runtime, service>>

-----------------------------------------------------------------------------
(* Lossless repack (transform of hepta_oms_archive.py). *)

TransformBegin(t) ==
    /\ tool[t] = Idle /\ NoRebase
    /\ tool' = [tool EXCEPT ![t] = [Idle EXCEPT !.op = "transform", !.at = "begun"]]
    /\ UNCHANGED <<acked, journal, store, gens, current, runtime, service>>

\* Every record is validated while it is copied: a lineage header is refused.
TransformPrepare(t) ==
    /\ At(t, "transform", "open") /\ Locked(t) /\ journal.hdr = NoGen
    /\ Goto(t, "prepared")
    /\ UNCHANGED <<acked, journal, store, gens, current, runtime, service>>

\* The source is compared again, then replaced.
TransformReplace(t) ==
    /\ At(t, "transform", "prepared") /\ tool[t].ino = journal.ino /\ journal.ino < MaxInodes
    /\ \E compact \in BOOLEAN : journal' = [journal EXCEPT !.ino = @ + 1, !.gz = compact]
    /\ tool' = [tool EXCEPT ![t] = Idle]
    /\ UNCHANGED <<acked, store, gens, current, runtime, service>>

-----------------------------------------------------------------------------
ToolNext(t) ==
    \/ \E g \in Gens : Begin(t, "build", g) \/ Begin(t, "seal", g)
    \/ OpenJournal(t) \/ BuildFiles(t) \/ SealFiles(t)
    \/ PublishTail(t) \/ PublishCurrent(t) \/ PublishRuntime(t)
    \/ \E g \in Gens : RebaseFiles(t, g) \/ PruneGeneration(t, g)
    \/ RebaseVerify(t)
    \/ TransformBegin(t) \/ TransformPrepare(t) \/ TransformReplace(t)
    \/ Abandon(t)

Next == StartService \/ AppendRecord \/ StopService \/ \E t \in Tools : ToolNext(t)

Spec == Init /\ [][Next]_vars

\* No step singles out a generation name or a process.
Interchangeable == Permutations(Gens) \cup Permutations(Tools)

-----------------------------------------------------------------------------
\* export_legacy: the chain from its newest v1 generation, then the tail.  A v2
\* selection has to be named by the tail; for a v1 selection the tail is what
\* follows the prefix, and nothing if the file is shorter than the prefix.
Exportable ==
    /\ current # NoGen /\ Verified(current)
    /\ gens[current].schema = 2 => journal.hdr = current
    /\ gens[current].schema = 1 => IsPrefixHere(gens[current].seg) \/ gens[current].seg # << >>
    /\ \A i \in DOMAIN FromBase(gens[current].line) : Verified(FromBase(gens[current].line)[i])

ExportLegacy ==
    Segments(FromBase(gens[current].line))
    \o (IF gens[current].schema = 1 /\ ~IsPrefixHere(gens[current].seg) THEN << >> ELSE TailFrom(current))

\* Whatever two maintenance processes and the service do, and wherever one of
\* them dies, the acknowledged history is on disk as one ledger: the journal
\* itself, or the segments of a complete lineage with the tail that names it
\* (seal_generation, rebase_generation, _prune_generation_chain).
HistoryOnDisk ==
    \/ journal.hdr = NoGen /\ journal.recs = History
    \/ \E g \in Gens :
          /\ Durable(g)
          /\ \A i \in DOMAIN FromBase(gens[g].line) : Durable(FromBase(gens[g].line)[i])
          /\ Segments(FromBase(gens[g].line)) \o (IF journal.hdr = g THEN journal.recs ELSE << >>) = History

\* "Native startup never silently selects a parent": a service that starts
\* knows every acknowledged record, in order and once; and so does an export
\* that is made from a selection which the service could start from (Recover,
\* export_legacy).
ReadersSeeAll ==
    /\ service.at = "up" => service.loaded = History
    /\ Recoverable /\ Exportable => ExportLegacy = History

\* Sealing, rebasing and pruning lose nothing: the history is on disk, and whoever
\* starts or exports from it sees all of it.
HistoryKept == HistoryOnDisk /\ ReadersSeeAll

\* Every export that succeeds, made while nothing else runs, is "a new private
\* complete JSONL file" (export_legacy).
ExportComplete ==
    (\A t \in Tools : tool[t] = Idle) /\ Exportable => ExportLegacy = History
=============================================================================
