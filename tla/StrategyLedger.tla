--------------------------- MODULE StrategyLedger ---------------------------
(***************************************************************************)
(* The profit and loss of one strategy over one accounting period, worked  *)
(* out from the OMS journal (scripts/hepta_pnl_accounting.py).  The broker *)
(* reports an execution live when the connection is up, loses it when it   *)
(* is down and repeats all of them in the download after a reconnection;   *)
(* commissions, order statuses, cancellations and completed orders arrive  *)
(* when they please, with the epoch of the connection that brought them.   *)
(* replay must make one book of that, or refuse.                           *)
(*                                                                         *)
(* A fill trades one unit.  Its execution id is <<c, n>>, the n-th fill of *)
(* command c, so that the cumulative quantity of the callback is n.  The   *)
(* prices of an instance are multiples of a number that keeps the weighted *)
(* cost whole.  disk is the set of journal lines: the replay uses no other *)
(* order than the one a line carries.                                      *)
(***************************************************************************)
EXTENDS Integers, FiniteSets, FiniteSetsExt, Sequences, SequencesExt

CONSTANTS Commands,     \* the commands, in the order they are sent (a sequence)
          Old,          \* those sent before the period began
          Direction,    \* command -> 1 (buy) or -1 (sell)
          Size,         \* command -> units ordered
          Price,        \* command -> price of each of its fills (a sequence)
          Opening,      \* [quantity, mark] of the period
          MaxEpoch,     \* bound: connections to the broker
          MaxCallbacks  \* bound: order statuses and commissions in the journal

VARIABLES disk, proc, world

vars == <<disk, proc, world>>

Cmds == Range(Commands)

Line(kind, c, n, epoch, flag) == [kind |-> kind, cmd |-> c, n |-> n, epoch |-> epoch, flag |-> flag]
Of(journal, kind, c) == { e \in journal : e.kind = kind /\ e.cmd = c }

-----------------------------------------------------------------------------
Abs(x) == IF x < 0 THEN -x ELSE x

\* Book.apply, one unit at a time.
Apply(book, direction, price) ==
    LET q == book.quantity
    IN  IF q * direction >= 0
        THEN [book EXCEPT !.cost = (Abs(q) * @ + price) \div (Abs(q) + 1), !.quantity = q + direction]
        ELSE [book EXCEPT !.realized = @ + (IF q > 0 THEN 1 ELSE -1) * (price - book.cost),
                          !.quantity = q + direction,
                          !.cost = IF q + direction = 0 THEN 0 ELSE @]

OpeningBook ==
    [ quantity |-> Opening.quantity, realized |-> 0,
      cost |-> IF Opening.quantity = 0 THEN 0 ELSE Opening.mark ]

-----------------------------------------------------------------------------
(* replay. *)

\* The commands of this period with a recorded send, and those whose intent
\* ended in a rejection the coordinator could rely on.
Sends(journal) == { c \in Cmds \ Old : Of(journal, "sent", c) # {} }
ProvenRejects(journal) == { c \in Cmds \ Old : Of(journal, "intent", c) # {} /\ Of(journal, "reject", c) # {} }

OutcomesProven(journal) ==
    /\ ProvenRejects(journal) \cap Sends(journal) = {}
    /\ { c \in Cmds \ Old : Of(journal, "intent", c) # {} } \subseteq Sends(journal) \cup ProvenRejects(journal)

\* An execution of this client that no current send explains: only a download
\* of what the strategy is known to have done before the period is passed over.
Foreign(journal) ==
    \A c \in Cmds : \A e \in Of(journal, "execution", c) :
        (c \notin Sends(journal) /\ e.flag # "before") =>
            /\ e.flag # "live"
            /\ \/ c \in Old /\ Of(journal, "sent", c) # {}
               \/ \E b \in Of(journal, "execution", c) : b.flag = "before" /\ b.n = e.n

\* The fills of a command, whichever callbacks and downloads brought them, and
\* the epochs that witnessed each of them.
Points(journal, c) == { e.n : e \in Of(journal, "execution", c) }
Epochs(journal, c, n) == { e.epoch : e \in { x \in Of(journal, "execution", c) : x.n = n } }
Witnessed(journal, c, epoch) == \E n \in Points(journal, c) : epoch \in Epochs(journal, c, n)

\* Cumulative quantities without a gap: each fill adds the shares it reports.
NoGap(journal, c) == Points(journal, c) = 1..Cardinality(Points(journal, c))

\* A status without its instrument and side counts only when an execution of
\* the same connection names them.
SubjectsWitnessed(journal) ==
    \A c \in Sends(journal) : \A e \in Of(journal, "status", c) \cup Of(journal, "working", c) :
        e.flag = "subjectless" => Witnessed(journal, c, e.epoch)

\* Fault: a terminal status is believed whatever it says was filled.
TotalsUnchecked(journal, c) == TRUE

\* A terminal status agrees with the fills; without any fill it must say that
\* nothing was filled.
TotalsAgree(journal, c) ==
    LET terminal == Of(journal, "status", c)
        points   == Points(journal, c)
    IN  /\ points = {} => terminal # {}
        /\ \A e \in terminal : e.n = Cardinality(points)

\* Without a terminal status: error 202 of a connection that also reported a
\* fill, not followed by a working status; or the owner's reconciliation and a
\* completed order of such a connection.
Settled(journal, c) ==
    \/ Of(journal, "status", c) # {}
    \/ /\ \E e \in Of(journal, "error202", c) : Witnessed(journal, c, e.epoch)
       /\ \A e \in Of(journal, "working", c) : e.n = 0
    \/ /\ \E e \in Of(journal, "completed", c) : Witnessed(journal, c, e.epoch)
       /\ Of(journal, "owner", c) # {}

\* Commissions: one per execution, from a connection that reported it.
Fees(journal, c) ==
    { n \in Points(journal, c) :
        /\ \E e \in Of(journal, "commission", c) : e.n = n
        /\ \A e \in Of(journal, "commission", c) : e.n = n => e.epoch \in Epochs(journal, c, n) }

Replay(journal) ==
    LET sends == SelectSeq(Commands, LAMBDA c : c \in Sends(journal))
        fills == FlattenSeq([i \in 1..Len(sends) |->
                     [n \in 1..Cardinality(Points(journal, sends[i])) |-> <<sends[i], n>>]])
    IN  [ ok |-> /\ OutcomesProven(journal)
                 /\ Foreign(journal)
                 /\ SubjectsWitnessed(journal)
                 /\ \A c \in Sends(journal) : NoGap(journal, c) /\ TotalsAgree(journal, c),
          book |-> FoldLeft(LAMBDA b, f : Apply(b, Direction[f[1]], Price[f[1]][f[2]]), OpeningBook, fills),
          pending |-> { c \in Sends(journal) : ~Settled(journal, c) },
          paid |-> MapThenSumSet(LAMBDA c : Cardinality(Fees(journal, c)), Sends(journal)),
          fees_complete |-> \A c \in Sends(journal) : Fees(journal, c) = Points(journal, c) ]

\* instrument_report: a valuation needs an authoritative observation, which
\* the service gives once it has recovered, and the broker's position equal
\* to the book's.
Valued(book) == world.connected /\ world.download = {} /\ book.quantity = world.position

-----------------------------------------------------------------------------
(* The strategy, the broker and its callbacks.  Of an old command only the *)
(* executions matter to the replay.                                        *)

Init ==
    /\ disk = { Line("sent", c, 0, 0, "before") : c \in Old }
    /\ proc = [c \in Cmds |-> IF c \in Old THEN "working" ELSE "none"]
    /\ world = [ filled |-> [c \in Cmds |-> 0], position |-> Opening.quantity,
                 epoch |-> 1, connected |-> TRUE, download |-> {}, begun |-> FALSE ]

Note(lines) == disk' = disk \cup lines
Callback(line) == world.connected /\ Note({ line })
Bounded == Cardinality({ e \in disk : e.kind \in {"status", "working", "commission"} }) < MaxCallbacks
Live == IF world.begun THEN "live" ELSE "before"

PeriodBegins ==
    /\ ~world.begun
    /\ world' = [world EXCEPT !.begun = TRUE]
    /\ UNCHANGED <<disk, proc>>

Intent(c) ==
    /\ world.begun /\ proc[c] = "none"
    /\ \A d \in Cmds \ Old : proc[d] \in {"none", "done", "rejected"}
    /\ proc' = [proc EXCEPT ![c] = "intent"]
    /\ Note({ Line("intent", c, 0, 0, "") })
    /\ UNCHANGED world

Dispatch(c) ==
    /\ proc[c] = "intent" /\ world.connected
    /\ \/ proc' = [proc EXCEPT ![c] = "working"] /\ UNCHANGED disk
       \/ proc' = [proc EXCEPT ![c] = "rejected"] /\ Note({ Line("reject", c, 0, 0, "") })
    /\ UNCHANGED world

RecordSent(c) ==
    /\ c \notin Old /\ proc[c] = "working"
    /\ Note({ Line("sent", c, 0, 0, "") })
    /\ UNCHANGED <<proc, world>>

Execute(c) ==
    /\ proc[c] = "working" /\ world.filled[c] < Size[c]
    /\ LET n == world.filled[c] + 1 IN
        /\ world' = [world EXCEPT !.filled[c] = n, !.position = @ + Direction[c]]
        /\ proc' = [proc EXCEPT ![c] = IF n = Size[c] THEN "done" ELSE @]
        /\ IF world.connected THEN Note({ Line("execution", c, n, world.epoch, Live) }) ELSE UNCHANGED disk

\* An order is cancelled, on a request of the service once it has recovered or
\* by the venue; only the answer to a request is error 202.
Cancelled(c) ==
    /\ proc[c] = "working"
    /\ proc' = [proc EXCEPT ![c] = "done"]
    /\ \/ world.download = {} /\ Callback(Line("error202", c, 0, world.epoch, ""))
       \/ UNCHANGED disk
    /\ UNCHANGED world

OrderStatus(c) ==
    /\ proc[c] \in {"working", "done"} /\ Bounded
    /\ \E subject \in {"named", "subjectless"} :
          Callback(IF proc[c] = "done" THEN Line("status", c, world.filled[c], world.epoch, subject)
                   ELSE Line("working", c, Cardinality(Of(disk, "error202", c)), world.epoch, subject))
    /\ UNCHANGED <<proc, world>>

CommissionReport(c) ==
    /\ Bounded
    /\ \E n \in Points(disk, c) : Callback(Line("commission", c, n, world.epoch, ""))
    /\ UNCHANGED <<proc, world>>

\* order_owner_reconciled_terminal, written by the coordinator once its
\* reconciliation has seen the whole download.
OwnerReconciled(c) ==
    /\ proc[c] = "done" /\ world.download = {} /\ Of(disk, "completed", c) # {}
    /\ Note({ Line("owner", c, 0, 0, "") })
    /\ UNCHANGED <<proc, world>>

Disconnect ==
    /\ world.connected /\ world.epoch < MaxEpoch
    /\ world' = [world EXCEPT !.connected = FALSE, !.download = {}]
    /\ UNCHANGED <<disk, proc>>

\* After a reconnection the executions of the day and the completed orders are
\* downloaded once more, in any order and between other callbacks.
Reconnect ==
    /\ ~world.connected
    /\ world' = [world EXCEPT
                   !.connected = TRUE, !.epoch = @ + 1,
                   !.download = UNION { { <<"execution", c, n>> : n \in 1..world.filled[c] } : c \in Cmds }
                       \cup { <<"completed", c, 0>> :
                                c \in { d \in Cmds \ Old : proc[d] = "done" /\ world.filled[d] = Size[d] } }]
    /\ UNCHANGED <<disk, proc>>

Download ==
    \E x \in world.download :
        /\ world' = [world EXCEPT !.download = @ \ { x }]
        /\ Note({ Line(x[1], x[2], x[3], world.epoch, IF world.begun THEN "download" ELSE "before") })
        /\ UNCHANGED proc

Next ==
    \/ PeriodBegins
    \/ \E c \in Cmds : Intent(c)
    \/ \E c \in Cmds : Dispatch(c)
    \/ \E c \in Cmds : RecordSent(c)
    \/ \E c \in Cmds : Execute(c)
    \/ \E c \in Cmds \ Old : Cancelled(c)
    \/ \E c \in Cmds \ Old : OrderStatus(c)
    \/ \E c \in Cmds \ Old : CommissionReport(c)
    \/ \E c \in Cmds \ Old : OwnerReconciled(c)
    \/ Disconnect
    \/ Reconnect
    \/ Download

Spec == Init /\ [][Next]_vars

-----------------------------------------------------------------------------
\* The broker's own account of the commands of the period.
Traded == UNION { {c} \X (1..world.filled[c]) : c \in Cmds \ Old }
Cash   == MapThenSumSet(LAMBDA f : Direction[f[1]] * Price[f[1]][f[2]], Traded)
Bought == MapThenSumSet(LAMBDA f : Direction[f[1]], Traded)

\* A report that is not refused, and that is either settled in every command
\* or valued at the broker's position, has exactly the executions the broker
\* made for the commands of the period: realized profit and open cost balance
\* the cash that changed hands, at whatever price the position is marked, and
\* complete fees are the fees of all of them.  Lost callbacks, downloads that
\* repeat everything, and commands of an earlier period change nothing.
LedgerIsExecutions ==
    LET r == Replay(disk) IN
        (r.ok /\ (r.pending = {} \/ Valued(r.book))) =>
            /\ r.book.quantity = Opening.quantity + Bought
            /\ r.book.realized - r.book.cost * r.book.quantity = -Cash - Opening.quantity * Opening.mark
            /\ r.fees_complete => r.paid = Cardinality(Traded)
=============================================================================
