--------------------------- MODULE MCOperations ---------------------------
(***************************************************************************)
(* The operator's tools, one at a time: which tool is modelled is chosen   *)
(* at the start (part) and they share no state.                            *)
(***************************************************************************)
EXTENDS Naturals

VARIABLES disk, proc, world, part

Latch   == INSTANCE MaintenanceLatch WITH MaxEpochs <- 3, MaxHolds <- 2
Gateway == INSTANCE GatewayUpgrade WITH Owners <- {"o1", "o2"}, Residents <- {"o1", "o2"}, MaxStarts <- 4
Switch  == INSTANCE DriverActivation WITH MaxInvocations <- 3
Driver  == INSTANCE PaperDriver WITH MaxCommands <- 3, MaxGeneration <- 2
Package == INSTANCE ReleasePackage WITH Builders <- {"b1", "b2"}, MaxWrites <- 3

\* Archives that differ in their manifest, a member's content, a missing or a
\* repeated member.
Listed == { << <<"a", 1>>, <<"c", 1>> >>, << <<"a", 1>>, <<"ab", 1>>, <<"c", 1>> >>, << <<"a", 1>> >> }
Stored == Listed \cup { << <<"a", 2>>, <<"c", 1>> >>, << <<"a", 1>>, <<"c", 1>>, <<"c", 2>> >> }
Accept  == INSTANCE ReleaseAcceptance
           WITH Archives <- { [manifest |-> m, members |-> x] : m \in Listed, x \in Stored },
                Required <- {"c"}, MaxWrites <- 3
Qualify == INSTANCE PaperQualification WITH Controllers <- {"c1", "c2"}, Phases <- 2, MaxWrites <- 2
Account == INSTANCE AccountObserver
           WITH MaxDownload <- 2, MaxValue <- 2, MaxRows <- 1, MaxJournal <- 1, Sources <- {"s1"}

Init ==
    \/ part = "latch" /\ Latch!Init
    \/ part = "gateway" /\ Gateway!Init
    \/ part = "switch" /\ Switch!Init
    \/ part = "driver" /\ Driver!Init
    \/ part = "package" /\ Package!Init
    \/ part = "accept" /\ Accept!Init
    \/ part = "qualify" /\ Qualify!Init
    \/ part = "account" /\ Account!Init

Next ==
    /\ \/ part = "latch" /\ Latch!Next
       \/ part = "gateway" /\ Gateway!Next
       \/ part = "switch" /\ Switch!Next
       \/ part = "driver" /\ Driver!Next
       \/ part = "package" /\ Package!Next
       \/ part = "accept" /\ Accept!Next
       \/ part = "qualify" /\ Qualify!Next
       \/ part = "account" /\ Account!Next
    /\ UNCHANGED part

Spec == Init /\ [][Next]_<<disk, proc, world, part>>

\* New risk is open at a native instance only if the stop marker was removed for
\* that instance and under no maintenance hold, whatever crashed on the way
\* (MaintenanceLatch, the maintenance tools).
OpenOnlyAsObserved == part = "latch" => Latch!OpenOnlyAsObserved

\* An upgrade hands each owner's lease over at most once, however often the tool dies,
\* loses a reply or is resumed (GatewayUpgrade, activate_prepared_gateway.py).
LeaseHandedOnce == part = "gateway" => Gateway!LeaseHandedOnce

\* The receipt of a driver activation or of its rollback tells what is in force, and
\* only processes audited flat were stopped (DriverActivation).
ReceiptTellsLane == part = "switch" => Switch!ReceiptTellsLane

\* The driver has at most one entry at risk, settles every fill once and knows its
\* lease (PaperDriver); and an account observation that a report accepts comes from
\* one download, from statements retained whole (AccountObserver).
LaneAccounted ==
    /\ part = "driver" => Driver!OneEntryAtRisk /\ Driver!LeaseKnown
    /\ part = "account" => Account!AccountFromOneDownload

\* A package holds the install tree of one instant (package_install_root), an accepted
\* package is the one that was inspected and run (run_release_smoke, accept), and a
\* qualification repeats what an isolated build and an ended harness proved
\* (run_ib_paper_campaign.py, verify_ib_paper_qualification.py).
ReleaseAsTested ==
    /\ part = "package" => Package!PackageOfOneInstant
    /\ part = "accept" => Accept!AcceptedIsTested
    /\ part = "qualify" => Qualify!QualificationFounded
===========================================================================
