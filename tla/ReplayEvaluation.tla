-------------------------- MODULE ReplayEvaluation --------------------------
(***************************************************************************)
(* The replay of SHADOW intents against the market that followed           *)
(* (scripts/hepta_strategy_replay_evaluator.py): marks are sealed in the   *)
(* order of the history chain, and evaluate_replay decides for every       *)
(* intent whether and where it would have been entered and left.  The      *)
(* marks only grow here, so a result can be compared with the one that     *)
(* more evidence gives.                                                    *)
(***************************************************************************)
EXTENDS Integers, Sequences, FiniteSets

CONSTANTS
    Prices,       \* bids; the ask is one above
    Intents,      \* the intents a receipt may carry
    MaxMarks      \* bound: marks

VARIABLES
    disk,    \* the marks, [t, bid]
    proc,    \* no state between two evaluations
    world    \* the TRADE receipts, in order

\* The execution model of a report, and the limits of the mark set.
Latency == 1
Horizon == 2
ExitDelay == 1
MaximumHolding == 3
Slippage == 1
CadenceAndJitter == 1
MaximumQuoteGap == 2

NONE == -1
Ask(m) == m.bid + 1

Init ==
    /\ disk = <<>> /\ proc = NONE
    /\ world \in { <<a, b>> : a \in Intents, b \in Intents }
    /\ world[1].observed < world[2].observed

-----------------------------------------------------------------------------
\* _validate_marks: a changed quote is at most the quote gap later, an
\* unchanged one has the time and the prices of the one before.
Continuous(m) ==
    disk # <<>> => \/ m.t - disk[Len(disk)].t \in 1..MaximumQuoteGap
                   \/ m = disk[Len(disk)]

\* _mark_from_record and seal_mark_set, one record more.
SealMark ==
    /\ Len(disk) < MaxMarks
    /\ \E t \in 0..(MaxMarks * MaximumQuoteGap), p \in Prices :
          /\ (disk = <<>> => t = 0)
          /\ Continuous([t |-> t, bid |-> p])
          /\ disk' = Append(disk, [t |-> t, bid |-> p])
    /\ UNCHANGED <<proc, world>>

Next == SealMark

-----------------------------------------------------------------------------
(* evaluate_replay for one intent. *)

Least(S) == CHOOSE x \in S : \A y \in S : x <= y
Greatest(S) == CHOOSE x \in S : \A y \in S : x >= y
Lower(x, y) == IF x <= y THEN x ELSE y

\* _effective_holding_ms.
EffectiveHolding(n) == Lower(n.holding, MaximumHolding)

\* _reject_overlapping_intents.
Eligible(n) == n.observed + Latency
Fills(n) == Eligible(n) <= n.expires

\* Fault: the position is taken to end with the life of the order.
OrderExpiry(n) == n.expires

LatestExit(n) == n.expires + EffectiveHolding(n)

NoOverlap(a, b) ==
    Fills(a) /\ Fills(b) =>
        IF Eligible(a) <= Eligible(b) THEN LatestExit(a) < Eligible(b) ELSE LatestExit(b) < Eligible(a)

\* _entry_price and _exit_price: the touch of the other side, worse by the slippage.
EntryPrice(m, n) == IF n.side = "BUY" THEN Ask(m) + Slippage ELSE m.bid - Slippage
Executable(m, n) == IF n.side = "BUY" THEN EntryPrice(m, n) <= n.limit ELSE EntryPrice(m, n) >= n.limit
ExitPrice(m, n) == IF n.side = "BUY" THEN m.bid - Slippage ELSE Ask(m) + Slippage

\* _unfilled_result.
Unfilled(status, complete) ==
    [status |-> status, entry |-> NONE, exit |-> NONE, price |-> NONE, complete |-> complete]

\* Fault: the last mark at hand is taken, without the proof of coverage.
LastMark(marks, e, hard) ==
    LET last == { i \in e..Len(marks) : marks[i].t <= hard } IN
    IF hard - marks[Greatest(last)].t <= CadenceAndJitter THEN {Greatest(last)} ELSE {}

\* The last mark up to the hard limit, once a mark at or past it proves that
\* nothing else was before it, and if it is recent enough.
HardExit(marks, e, hard) ==
    LET last == { i \in e..Len(marks) : marks[i].t <= hard } IN
    IF (\E i \in 1..Len(marks) : marks[i].t >= hard) /\ hard - marks[Greatest(last)].t <= CadenceAndJitter
    THEN {Greatest(last)} ELSE {}

\* The stop, or the first mark at the target, whichever a walk from the entry meets first.
Walk(marks, n, e, target, latest) ==
    { i \in e..Len(marks) :
        /\ marks[i].t <= latest
        /\ \/ marks[i].t >= target
           \/ IF n.side = "BUY" THEN ExitPrice(marks[i], n) <= EntryPrice(marks[e], n) - n.stop
                                ELSE ExitPrice(marks[i], n) >= EntryPrice(marks[e], n) + n.stop }

Closed(marks, n, e) ==
    LET horizon == marks[e].t + Horizon
        hard == marks[e].t + EffectiveHolding(n)
        target == Lower(horizon, hard)
        walk == Walk(marks, n, e, target, Lower(target + ExitDelay, hard))
        exits == IF walk # {} THEN {Least(walk)} ELSE IF hard <= horizon THEN HardExit(marks, e, hard) ELSE {}
    IN  IF exits = {}
        THEN [Unfilled("EXIT_EVIDENCE_INCOMPLETE", FALSE) EXCEPT !.entry = marks[e].t]
        ELSE [ status |-> "CLOSED", entry |-> marks[e].t, exit |-> marks[Least(exits)].t,
               price |-> ExitPrice(marks[Least(exits)], n), complete |-> TRUE ]

Result(marks, n) ==
    LET fill == { i \in 1..Len(marks) : /\ Eligible(n) <= marks[i].t /\ marks[i].t <= n.expires
                                        /\ Executable(marks[i], n) }
    IN  IF ~ Fills(n) THEN Unfilled("NOT_FILLED_LATENCY_EXCEEDED_EXPIRY", TRUE)
        ELSE IF fill # {} THEN Closed(marks, n, Least(fill))
        ELSE IF marks # <<>> /\ marks[Len(marks)].t >= n.expires THEN Unfilled("NOT_FILLED_EXPIRED", TRUE)
        ELSE Unfilled("ENTRY_EVIDENCE_INCOMPLETE", FALSE)

-----------------------------------------------------------------------------
\* A result that evaluate_replay reports as evidence complete is final: no mark
\* that is sealed later changes where the intent was entered or left, or at
\* which price, so the report never looks ahead nor decides too early.
ResultFinal ==
    \A k \in 1..Len(world) :
        Result(disk, world[k]).complete => Result(disk', world[k]) = Result(disk, world[k])

\* When the intents are not rejected as overlapping, the replay never holds two
\* positions at once, whatever the market did.
OnePosition ==
    LET a == Result(disk, world[1])
        b == Result(disk, world[2])
    IN  NoOverlap(world[1], world[2]) /\ a.status = "CLOSED" /\ b.status = "CLOSED" =>
            a.exit < b.entry \/ b.exit < a.entry
=============================================================================
