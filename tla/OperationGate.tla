----------------------------- MODULE OperationGate -----------------------------
(* IbPolicyOperationGate: the barrier between the ordinary operations of the   *)
(* IB paper policy, which share it, and recovery, which takes it exclusively.  *)
(* Every step is one critical section of m_mutex; a thread whose wait          *)
(* predicate is false sleeps on m_changed until a notify_all.                  *)
EXTENDS Integers, FiniteSets

CONSTANTS Threads,        \* the threads that call the policy
          MaxGeneration   \* bound on m_sharedGeneration, reached by failed waits

ASSUME GateConstants == IsFiniteSet(Threads) /\ MaxGeneration \in Nat

VARIABLES pc,             \* where each thread is
          awake,          \* the waiting threads that a notify_all has woken
          token,          \* the generation lock_shared returned to each thread
          shared, waiting, draining, sharedGen, drainingGen, exclusive

gate == <<shared, waiting, draining, sharedGen, drainingGen, exclusive>>
vars == <<pc, awake, token, gate>>

Waiting == {"lock", "ordinary", "exit"}
Holding == {"owner", "member"}

Sleepers == {t \in Threads : pc[t] \in Waiting}
Members == {t \in Threads : pc[t] = "member"}
Owners == {t \in Threads : pc[t] = "owner"}

TypeOK ==
    /\ pc \in [Threads -> {"idle"} \cup Waiting \cup Holding]
    /\ awake \subseteq Sleepers
    /\ token \in [Threads -> 0..MaxGeneration]
    /\ shared \in 0..Cardinality(Threads)
    /\ waiting \in 0..Cardinality(Threads)
    /\ draining \in 0..Cardinality(Threads)
    /\ sharedGen \in 0..MaxGeneration
    /\ drainingGen \in 0..MaxGeneration
    /\ exclusive \in BOOLEAN

Init ==
    /\ pc = [t \in Threads |-> "idle"]
    /\ awake = {}
    /\ token = [t \in Threads |-> 0]
    /\ shared = 0 /\ waiting = 0 /\ draining = 0
    /\ sharedGen = 0 /\ drainingGen = 0
    /\ exclusive = FALSE

-----------------------------------------------------------------------------
(* The wait predicates of lock() and lock_shared().                            *)

Quiescent == ~exclusive /\ shared = 0

\* Fault: a guarded exit joins whatever it finds running.
AdmitsAnyExit(kind) ==
    ~exclusive /\ (waiting = 0 \/ (kind = "exit" /\ shared # 0))

Admits(kind) ==
    ~exclusive /\ (waiting = 0 \/ (kind = "exit" /\ draining # 0))

NotifyAll(others) == awake' = others

-----------------------------------------------------------------------------
(* lock(): the first waiter closes ordinary admission and captures the cohort. *)

\* Fault: the capture keeps the current generation open for later members.
CaptureSameGeneration ==
    IF waiting = 0
    THEN draining' = shared /\ drainingGen' = sharedGen /\ sharedGen' = sharedGen
    ELSE UNCHANGED <<draining, drainingGen, sharedGen>>

Capture ==
    IF waiting = 0
    THEN draining' = shared /\ drainingGen' = sharedGen /\ sharedGen' = sharedGen + 1
    ELSE UNCHANGED <<draining, drainingGen, sharedGen>>

Own(t) ==
    /\ pc' = [pc EXCEPT ![t] = "owner"]
    /\ exclusive' = TRUE
    /\ sharedGen' = 0 /\ drainingGen' = 0 /\ draining' = 0

\* lock() whose predicate holds at once: waiting rises and falls again.
LockAtOnce(t) ==
    /\ pc[t] = "idle" /\ Quiescent
    /\ Own(t)
    /\ UNCHANGED <<awake, token, shared, waiting>>

LockWait(t) ==
    /\ pc[t] = "idle" /\ ~Quiescent
    /\ waiting = 0 => sharedGen < MaxGeneration
    /\ Capture
    /\ waiting' = waiting + 1
    /\ pc' = [pc EXCEPT ![t] = "lock"]
    /\ UNCHANGED <<awake, token, shared, exclusive>>

\* Fault: a recovery that got the gate still counts as waiting.
LockWakeStillWaiting(t) ==
    /\ pc[t] = "lock" /\ t \in awake
    /\ awake' = awake \ {t}
    /\ IF Quiescent
       THEN Own(t) /\ waiting' = waiting
       ELSE UNCHANGED <<pc, waiting, draining, sharedGen, drainingGen, exclusive>>
    /\ UNCHANGED <<token, shared>>

LockWake(t) ==
    /\ pc[t] = "lock" /\ t \in awake
    /\ awake' = awake \ {t}
    /\ IF Quiescent
       THEN Own(t) /\ waiting' = waiting - 1
       ELSE UNCHANGED <<pc, waiting, draining, sharedGen, drainingGen, exclusive>>
    /\ UNCHANGED <<token, shared>>

\* Fault: the failed wait leaves the waiters it was holding back asleep.
LockThrowsQuietly(t) ==
    /\ pc[t] = "lock"
    /\ waiting' = waiting - 1
    /\ draining' = IF waiting' = 0 THEN 0 ELSE draining
    /\ pc' = [pc EXCEPT ![t] = "idle"]
    /\ awake' = awake \ {t}
    /\ UNCHANGED <<token, shared, sharedGen, drainingGen, exclusive>>

\* The condition wait throws: the waiter withdraws and wakes the others.
LockThrows(t) ==
    /\ pc[t] = "lock"
    /\ waiting' = waiting - 1
    /\ draining' = IF waiting' = 0 THEN 0 ELSE draining
    /\ pc' = [pc EXCEPT ![t] = "idle"]
    /\ NotifyAll(Sleepers \ {t})
    /\ UNCHANGED <<token, shared, sharedGen, drainingGen, exclusive>>

\* Fault: the probe overlooks the operations that share the gate.
TryLockOverShared(t) ==
    /\ pc[t] = "idle" /\ ~exclusive /\ waiting = 0
    /\ Own(t)
    /\ UNCHANGED <<awake, token, shared, waiting>>

TryLock(t) ==
    /\ pc[t] = "idle" /\ Quiescent /\ waiting = 0
    /\ Own(t)
    /\ UNCHANGED <<awake, token, shared, waiting>>

Unlock(t) ==
    /\ pc[t] = "owner"
    /\ pc' = [pc EXCEPT ![t] = "idle"]
    /\ exclusive' = FALSE
    /\ NotifyAll(Sleepers)
    /\ UNCHANGED <<token, shared, waiting, draining, sharedGen, drainingGen>>

-----------------------------------------------------------------------------
(* lock_shared(guardedExit) and unlock_shared(generation).                     *)

Join(t) ==
    /\ pc' = [pc EXCEPT ![t] = "member"]
    /\ token' = [token EXCEPT ![t] = sharedGen]
    /\ shared' = shared + 1

LockShared(t, kind) ==
    /\ pc[t] = "idle"
    /\ IF Admits(kind)
       THEN Join(t)
       ELSE pc' = [pc EXCEPT ![t] = kind] /\ UNCHANGED <<token, shared>>
    /\ UNCHANGED <<awake, waiting, draining, sharedGen, drainingGen, exclusive>>

SharedWake(t) ==
    /\ pc[t] \in {"ordinary", "exit"} /\ t \in awake
    /\ awake' = awake \ {t}
    /\ IF Admits(pc[t]) THEN Join(t) ELSE UNCHANGED <<pc, token, shared>>
    /\ UNCHANGED <<waiting, draining, sharedGen, drainingGen, exclusive>>

LeavesCohort(t) == waiting # 0 /\ token[t] <= drainingGen

UnlockShared(t) ==
    /\ pc[t] = "member"
    /\ pc' = [pc EXCEPT ![t] = "idle"]
    /\ draining' = IF LeavesCohort(t) THEN draining - 1 ELSE draining
    /\ shared' = shared - 1
    /\ token' = [token EXCEPT ![t] = 0]
    /\ IF shared' = 0 THEN NotifyAll(Sleepers) ELSE awake' = awake
    /\ UNCHANGED <<waiting, sharedGen, drainingGen, exclusive>>

-----------------------------------------------------------------------------
Step(t) ==
    \/ LockAtOnce(t) \/ LockWait(t) \/ LockWake(t) \/ LockThrows(t)
    \/ TryLock(t) \/ Unlock(t)
    \/ \E kind \in {"ordinary", "exit"} : LockShared(t, kind)
    \/ SharedWake(t) \/ UnlockShared(t)

Next == \E t \in Threads : Step(t)

(* Calls may never come.  A thread that was woken is scheduled, and an         *)
(* operation that holds the gate returns: the policy's operations are bounded  *)
(* by the broker timeouts they pass on.                                        *)
Fairness ==
    \A t \in Threads :
        /\ WF_vars(LockWake(t)) /\ WF_vars(SharedWake(t))
        /\ WF_vars(Unlock(t)) /\ WF_vars(UnlockShared(t))

Spec == Init /\ [][Next]_vars /\ Fairness

-----------------------------------------------------------------------------
\* Recovery runs alone: while a thread owns the gate no other thread is inside
\* it, and the two gate fields that decide admission say so.  It is what the
\* policy's RecoverFromJournal, reconciliation and terminalization rely on.
RecoveryAlone ==
    /\ exclusive <=> Owners # {}
    /\ shared = Cardinality(Members)
    /\ Owners # {} => Members = {} /\ Cardinality(Owners) = 1

\* While a recovery waits, m_drainingShared is exactly the number of running
\* operations that were there when the first waiter came; exits that joined
\* afterwards are not in it, so it never underflows.
CohortCounted ==
    waiting # 0 =>
        draining = Cardinality({t \in Members : token[t] <= drainingGen})

\* No lost wakeup: a thread asleep on m_changed that nobody has notified has a
\* false predicate, although unlock_shared notifies only at the last member.
NoLostWakeup ==
    \A t \in Sleepers \ awake :
        ~(IF pc[t] = "lock" THEN Quiescent ELSE Admits(pc[t]))

\* A waiting recovery gets the gate: guarded exits that keep arriving join only
\* the captured cohort and cannot hold recovery off for ever.
RecoveryAdmitted == (waiting # 0) ~> (exclusive \/ waiting = 0)

=============================================================================
