-------------------------- MODULE AccountObserver --------------------------
(***************************************************************************)
(* The read-only observer of the broker account, the publication of its    *)
(* observation, the import of broker statements, and the report that reads *)
(* both (scripts/hepta_account_observer.py, hepta_account_pnl.py,          *)
(* hepta_nav_assurance.py, hepta_account_activity.py and attach_account of *)
(* hepta_pnl_report.py).                                                   *)
(*                                                                         *)
(* One socket serves several downloads.  Each has three requests of its    *)
(* own: the rows of the currency ledgers, of the account and the           *)
(* positions, closed by an End each.  The callbacks run on a thread of     *)
(* their own: a callback checks its request, and the download may be       *)
(* replaced by the next one before it stores what it brought.  A request   *)
(* is <<download, kind>>; a row is [req, value], where the value is the    *)
(* one the account had when the broker sent the row, and since is the one  *)
(* it had at started_at_ms.  The importer shares nothing with the observer:*)
(* a behaviour is about one of them (world.import).                        *)
(***************************************************************************)
EXTENDS Integers, FiniteSets, Sequences

CONSTANTS MaxDownload,   \* bound: downloads, hence request ids
          MaxValue,      \* bound: valuations of the account
          MaxRows,       \* bound: rows of a request
          MaxJournal,    \* bound: writes of the journal or the period
          Sources        \* statements that can be imported

VARIABLES disk, proc, world

vars == <<disk, proc, world>>

Kinds == {"ledger", "account", "positions"}
Requests(d) == {d} \X Kinds
None == [download |-> 0]

\* The observer, the thread of the socket, the importer and the report.
Init ==
    /\ disk = [ journal |-> 0, public |-> None, raw |-> None, arithmetic |-> None,
                sources |-> [s \in Sources |-> "absent"], index |-> {} ]
    /\ proc = [ step |-> "idle", download |-> 0, rows |-> {}, ends |-> {}, lost |-> FALSE,
                journal |-> 0, since |-> 0, kept |-> None,
                callback |-> <<>>, importer |-> <<"idle">>, report |-> <<"idle">> ]
    /\ world \in [value : {1}, open : {{}}, socket : {FALSE}, import : BOOLEAN]

-----------------------------------------------------------------------------
(* The broker. *)

Revalue ==
    /\ world.value < MaxValue
    /\ world' = [world EXCEPT !.value = @ + 1]
    /\ UNCHANGED <<disk, proc>>

\* accountUpdateMulti, positionMulti and the End callbacks: the request is
\* compared with those of the download in progress ...
CallbackEnters(req, what) ==
    /\ req \in world.open /\ proc.callback = <<>>
    /\ req \in Requests(proc.download) \ proc.ends
    /\ what = "row" => Cardinality({ r \in proc.rows : r.req = req }) < MaxRows
    /\ proc' = [proc EXCEPT !.callback = <<req, what, world.value>>]
    /\ world' = IF what = "end" THEN [world EXCEPT !.open = @ \ { req }] ELSE world
    /\ UNCHANGED disk

\* ... and what it brought is stored with the download in progress by then.
CallbackStores ==
    /\ proc.callback # <<>>
    /\ LET req == proc.callback[1] IN
         proc' = IF proc.callback[2] = "end"
                 THEN [proc EXCEPT !.callback = <<>>, !.ends = @ \cup { req }]
                 ELSE [proc EXCEPT !.callback = <<>>, !.rows = @ \cup { [req |-> req, value |-> proc.callback[3]] }]
    /\ UNCHANGED <<disk, world>>

ConnectionClosed ==
    /\ world.socket
    /\ world' = [world EXCEPT !.socket = FALSE, !.open = {}]
    /\ proc' = [proc EXCEPT !.lost = TRUE]
    /\ UNCHANGED disk

-----------------------------------------------------------------------------
(* The observer's cycle. *)

\* Fault: a reused socket is asked with the same request ids again.
SameRequestIds(d) == IF d = 0 THEN 1 ELSE d

NextRequestIds(d) == d + 1

\* collect_account and _acquire_account: the journal and the period are noted,
\* the socket is opened or reused, the three requests are sent.  SendBoundary
\* lets nothing else out.
Acquire ==
    /\ ~world.import /\ proc.step = "idle" /\ proc.download < MaxDownload
    /\ LET d == NextRequestIds(proc.download) IN
        /\ proc' = [proc EXCEPT !.step = "download", !.download = d, !.rows = {}, !.ends = {},
                                !.lost = FALSE, !.journal = disk.journal, !.since = world.value]
        /\ world' = [world EXCEPT !.socket = TRUE, !.open = @ \cup Requests(d)]
    /\ UNCHANGED disk

\* finished: the three Ends (or a bound) arrived.  The requests are cancelled;
\* what the broker already sent for them is still on its way.  The socket is
\* kept only after a complete and healthy download.
Finished ==
    /\ proc.step = "download" /\ Requests(proc.download) \subseteq proc.ends
    /\ LET healthy == proc.ends = Requests(proc.download) /\ ~proc.lost
           raw     == [download |-> proc.download, rows |-> proc.rows, ends |-> proc.ends, lost |-> proc.lost,
                       journal |-> proc.journal, since |-> proc.since]
       IN  /\ proc' = [proc EXCEPT !.step = "normalize", !.kept = raw]
           /\ world' = IF healthy THEN world ELSE [world EXCEPT !.socket = FALSE, !.open = {}]
    /\ UNCHANGED disk

\* normalize_nav: every row belongs to the ledger or the account request, no
\* field is given twice, the account and the ledgers reconcile, the three Ends
\* are there and nothing else.
Normalizes(raw) ==
    LET of(kind) == { r.value : r \in { x \in raw.rows : x.req = <<raw.download, kind>> } }
    IN  /\ \A r \in raw.rows : r.req[1] = raw.download
        /\ raw.ends = Requests(raw.download) /\ ~raw.lost
        /\ Cardinality(of("ledger")) = 1 /\ of("ledger") = of("account")
        /\ Cardinality(of("positions")) <= 1

\* assess_nav_assurance and publish_arithmetic_observation, file by file.
PublishPublic ==
    /\ proc.step = "normalize"
    /\ proc.journal = disk.journal /\ Normalizes(proc.kept)
    /\ disk' = [disk EXCEPT !.public = proc.kept]
    /\ proc' = [proc EXCEPT !.step = "raw"]
    /\ UNCHANGED world

PublishRaw ==
    /\ proc.step = "raw"
    /\ disk' = [disk EXCEPT !.raw = proc.kept]
    /\ proc' = [proc EXCEPT !.step = "arithmetic"]
    /\ UNCHANGED world

PublishArithmetic ==
    /\ proc.step = "arithmetic"
    /\ disk' = [disk EXCEPT !.arithmetic = proc.kept]
    /\ proc' = [proc EXCEPT !.step = "idle", !.kept = None]
    /\ UNCHANGED world

\* publish_unavailable, after a timeout, a lost connection or any refusal; a
\* killed observer publishes nothing.
Refuse ==
    /\ proc.step \in {"download", "normalize"}
    /\ disk' = [disk EXCEPT !.public = None]
    /\ proc' = [proc EXCEPT !.step = "idle", !.kept = None]
    /\ world' = [world EXCEPT !.socket = FALSE, !.open = {}]

ObserverDies ==
    /\ proc.step # "idle"
    /\ proc' = [proc EXCEPT !.step = "idle", !.kept = None, !.callback = <<>>]
    /\ world' = [world EXCEPT !.socket = FALSE, !.open = {}]
    /\ UNCHANGED disk

-----------------------------------------------------------------------------
(* The rest of the books. *)

JournalWritten ==
    /\ disk.journal < MaxJournal
    /\ disk' = [disk EXCEPT !.journal = @ + 1]
    /\ UNCHANGED <<proc, world>>

\* Fault: the index is replaced before the statement is retained.
IndexFirst(s) ==
    \/ /\ proc.importer = <<"idle">> /\ disk.sources[s] # "part"
       /\ disk' = [disk EXCEPT !.index = @ \cup { s }]
       /\ proc' = [proc EXCEPT !.importer = <<"index", s>>]
    \/ /\ proc.importer = <<"index", s>>
       /\ disk' = [disk EXCEPT !.sources[s] = "whole"]
       /\ proc' = [proc EXCEPT !.importer = <<"idle">>]

\* import_flex: the statement is retained under its digest, written in place,
\* then the index that lists it is replaced.
ImportFlex(s) ==
    \/ /\ proc.importer = <<"idle">> /\ disk.sources[s] = "absent"
       /\ disk' = [disk EXCEPT !.sources[s] = "part"]
       /\ proc' = [proc EXCEPT !.importer = <<"source", s>>]
    \/ /\ proc.importer = <<"source", s>>
       /\ disk' = [disk EXCEPT !.sources[s] = "whole"]
       /\ proc' = [proc EXCEPT !.importer = <<"index", s>>]
    \/ /\ proc.importer = <<"index", s>> \/ (proc.importer = <<"idle">> /\ disk.sources[s] = "whole")
       /\ disk' = [disk EXCEPT !.index = @ \cup { s }]
       /\ proc' = [proc EXCEPT !.importer = <<"idle">>]

ImporterDies ==
    /\ proc.importer # <<"idle">>
    /\ proc' = [proc EXCEPT !.importer = <<"idle">>]
    /\ UNCHANGED <<disk, world>>

\* attach_account reads nav.json, arithmetic-latest.json and raw-latest.json
\* one after the other, then the fingerprint of the journal.
ReadNext ==
    /\ disk.public # None /\ proc.report \in {<<"idle">>} \cup { r \in {proc.report} : r[1] = "reading" /\ Len(r) < 4 }
    /\ proc' = [proc EXCEPT !.report =
          CASE Len(@) = 1 -> <<"reading", disk.public>>
            [] Len(@) = 2 -> Append(@, disk.arithmetic)
            [] OTHER      -> Append(@, disk.raw)]
    /\ UNCHANGED <<disk, world>>

ReadAgain ==
    /\ proc.report # <<"idle">>
    /\ proc' = [proc EXCEPT !.report = <<"idle">>]
    /\ UNCHANGED <<disk, world>>

Next ==
    \/ Revalue
    \/ \E req \in world.open, what \in {"row", "end"} : CallbackEnters(req, what)
    \/ CallbackStores
    \/ ConnectionClosed
    \/ Acquire \/ Finished
    \/ PublishPublic \/ PublishRaw \/ PublishArithmetic
    \/ Refuse \/ ObserverDies
    \/ JournalWritten
    \/ \E s \in Sources : world.import /\ ImportFlex(s) /\ UNCHANGED world
    \/ ImporterDies
    \/ ReadNext \/ ReadAgain

Spec == Init /\ [][Next]_vars

-----------------------------------------------------------------------------
\* What the report takes for the account's observation.
Accepted ==
    /\ Len(proc.report) = 4
    /\ proc.report[2] = proc.report[3] /\ proc.report[3] = proc.report[4]
    /\ Normalizes(proc.report[4])
    /\ proc.report[4].journal = disk.journal

\* verify_activity_sources: every listed statement is parsed again.
IndexReproducible == \A s \in disk.index : disk.sources[s] = "whole"

\* The account observation a report accepts has no row that the broker sent
\* before its download began, and the journal and the period stand as they did
\* then, whatever late callbacks of an earlier download the socket delivered and however the
\* publication was interrupted; and the statement index never lists a statement
\* whose original is not retained whole.
AccountFromOneDownload ==
    /\ Accepted => \A r \in proc.report[4].rows : r.value >= proc.report[4].since
    /\ IndexReproducible
=============================================================================
