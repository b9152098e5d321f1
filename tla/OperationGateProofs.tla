-------------------------- MODULE OperationGateProofs --------------------------
(* Proofs about the operation gate, for every finite set of threads: recovery  *)
(* runs alone, the captured cohort is counted exactly and no wakeup is lost.   *)
EXTENDS OperationGate, FiniteSetTheorems, TLAPS

Locks == {t \in Threads : pc[t] = "lock"}
Cohort == {t \in Members : token[t] <= drainingGen}

\* The types, without the upper bounds that the counters' meaning gives.
Types ==
    /\ pc \in [Threads -> {"idle"} \cup Waiting \cup Holding]
    /\ awake \subseteq Sleepers
    /\ token \in [Threads -> 0..MaxGeneration]
    /\ sharedGen \in 0..MaxGeneration /\ drainingGen \in 0..MaxGeneration
    /\ draining \in Nat
    /\ exclusive \in BOOLEAN

\* What the two counters count, and who may be inside.
Counts ==
    /\ shared = Cardinality(Members) /\ waiting = Cardinality(Locks)
    /\ exclusive <=> Owners # {}
    /\ exclusive => Members = {}
    /\ \A t, u \in Owners : t = u

\* Members hold generations already handed out.  While a recovery waits, later
\* members get a generation beyond the cohort's, unless nobody can join.
Generations ==
    /\ \A t \in Members : token[t] <= sharedGen
    /\ waiting = 0 => draining = 0
    /\ waiting # 0 => draining = Cardinality(Cohort)
    /\ waiting # 0 => sharedGen > drainingGen \/ (draining = 0 /\ Members = {})

IInv == Types /\ Counts /\ Generations /\ NoLostWakeup

-----------------------------------------------------------------------------
\* The sets of threads that the counters count are finite.
LEMMA FiniteParts ==
    ASSUME NEW S, S \subseteq Threads
    PROVE  IsFiniteSet(S) /\ Cardinality(S) \in Nat /\ Cardinality(S) <= Cardinality(Threads)
BY GateConstants, FS_Subset, FS_CardinalityType

\* A finite set is empty exactly when its cardinality is zero.
LEMMA NoneCounted ==
    ASSUME NEW S, S \subseteq Threads
    PROVE  Cardinality(S) = 0 <=> S = {}
BY FiniteParts, FS_EmptySet

\* A thread that enters or leaves a set changes its cardinality by one.
LEMMA OneMore ==
    ASSUME NEW S, S \subseteq Threads, NEW t \in Threads
    PROVE  /\ t \notin S => Cardinality(S \cup {t}) = Cardinality(S) + 1
           /\ t \in S => Cardinality(S \ {t}) = Cardinality(S) - 1
BY FiniteParts, FS_AddElement, FS_RemoveElement

\* The invariant's counters are numbers.
LEMMA CountTypes ==
    ASSUME IInv
    PROVE  /\ shared \in Nat /\ waiting \in Nat
           /\ Members \subseteq Threads /\ Locks \subseteq Threads /\ Cohort \subseteq Threads
           /\ shared = 0 <=> Members = {}
           /\ waiting = 0 <=> Locks = {}
<1>1. Members \subseteq Threads /\ Locks \subseteq Threads /\ Cohort \subseteq Threads
      BY DEF Members, Locks, Cohort
<1> QED BY <1>1, FiniteParts, NoneCounted DEF IInv, Counts

-----------------------------------------------------------------------------
\* The gate starts open.
LEMMA InitInv == Init => IInv
<1> SUFFICES ASSUME Init PROVE IInv
    OBVIOUS
<1>1. Members = {} /\ Owners = {} /\ Locks = {} /\ Sleepers = {}
      BY DEF Init, Members, Owners, Locks, Sleepers, Waiting
<1>2. Cardinality({}) = 0
      BY FS_EmptySet
<1>3. Types
  <2>1. 0 \in 0..MaxGeneration
        BY GateConstants
  <2>2. pc \in [Threads -> {"idle"} \cup Waiting \cup Holding]
        BY DEF Init
  <2>3. token \in [Threads -> 0..MaxGeneration]
        BY <2>1 DEF Init
  <2> QED BY <1>1, <2>1, <2>2, <2>3 DEF Init, Types
<1> QED BY <1>1, <1>2, <1>3 DEF Init, IInv, Counts, Generations, NoLostWakeup

\* A recovery that gets the quiescent gate: every other thread is outside it.
LEMMA OwnInv ==
    ASSUME IInv, NEW t \in Threads, pc[t] \in {"idle", "lock"}, Quiescent, Own(t),
           awake' = awake \ {t}, token' = token, shared' = shared,
           waiting' = IF pc[t] = "lock" THEN waiting - 1 ELSE waiting
    PROVE  IInv'
<1> USE DEF IInv
<1>1. /\ shared \in Nat /\ waiting \in Nat /\ Members = {} /\ shared = 0
      /\ Locks \subseteq Threads
      BY CountTypes DEF Quiescent
<1>2. Owners = {}
      BY DEF Counts, Quiescent
<1>3. pc' = [pc EXCEPT ![t] = "owner"] /\ pc'[t] = "owner"
      BY DEF Own, Types
<1>4. Owners' = {t}
      BY <1>2, <1>3 DEF Owners, Types
<1>5. Members' = {}
      BY <1>1, <1>3 DEF Members, Types
<1>6. Locks' = Locks \ {t} /\ Sleepers' = Sleepers \ {t}
      BY <1>3 DEF Locks, Sleepers, Types, Waiting
<1>7. waiting' = Cardinality(Locks')
  <2>1. pc[t] = "lock" => t \in Locks
        BY DEF Locks
  <2>2. pc[t] # "lock" => Locks \ {t} = Locks
        BY DEF Locks
  <2> QED BY <1>1, <1>6, <2>1, <2>2, OneMore DEF Counts
<1>8. Types'
      BY <1>3, <1>6, GateConstants DEF Types, Own, Holding
<1>9. Counts'
      BY <1>1, <1>4, <1>5, <1>7, FS_EmptySet DEF Counts, Own
<1>10. Generations'
  <2>1. Cohort' = {} /\ draining' = 0
        BY <1>5 DEF Cohort, Own
  <2> QED BY <1>5, <2>1, FS_EmptySet DEF Generations
<1>11. NoLostWakeup'
      BY DEF NoLostWakeup, Own, Quiescent, Admits
<1> QED BY <1>8, <1>9, <1>10, <1>11

\* A recovery that must wait: the first one captures the running operations.
LEMMA LockWaitInv ==
    ASSUME IInv, NEW t \in Threads, LockWait(t)
    PROVE  IInv'
<1> USE DEF IInv
<1>1. /\ shared \in Nat /\ waiting \in Nat /\ Locks \subseteq Threads
      /\ Members \subseteq Threads /\ (waiting = 0 <=> Locks = {})
      BY CountTypes
<1>2. /\ pc' = [pc EXCEPT ![t] = "lock"] /\ pc[t] = "idle" /\ pc'[t] = "lock"
      /\ waiting' = waiting + 1 /\ awake' = awake /\ token' = token
      /\ shared' = shared /\ exclusive' = exclusive /\ Capture
      BY DEF LockWait, Types
<1>3. Members' = Members /\ Owners' = Owners
      BY <1>2 DEF Members, Owners, Types
<1>4. Locks' = Locks \cup {t} /\ Sleepers' = Sleepers \cup {t} /\ t \notin Locks /\ t \notin Sleepers
      BY <1>2 DEF Locks, Sleepers, Types, Waiting
<1>5. waiting' = Cardinality(Locks')
      BY <1>1, <1>2, <1>4, OneMore DEF Counts
<1>6. sharedGen' \in 0..MaxGeneration /\ drainingGen' \in 0..MaxGeneration /\ draining' \in Nat
      BY <1>1, GateConstants DEF LockWait, Capture, Types
<1>7. Types'
      BY <1>2, <1>4, <1>6 DEF Types, Waiting
<1>8. Counts'
      BY <1>2, <1>3, <1>5 DEF Counts
<1>9. Generations'
  <2>1. CASE waiting = 0
    <3>1. draining' = shared /\ drainingGen' = sharedGen /\ sharedGen' = sharedGen + 1
          BY <2>1, <1>2 DEF Capture
    <3>2. \A u \in Members : token[u] <= sharedGen
          BY DEF Generations
    <3>3. Cohort' = Members
          BY <1>2, <1>3, <3>1, <3>2 DEF Cohort
    <3>4. \A u \in Members' : token'[u] <= sharedGen'
          BY <1>1, <1>2, <1>3, <3>1, <3>2 DEF Types
    <3>5. sharedGen' > drainingGen'
          BY <3>1 DEF Types
    <3>6. waiting' # 0
          BY <1>1, <1>2
    <3> QED BY <3>1, <3>3, <3>4, <3>5, <3>6 DEF Generations, Counts
  <2>2. CASE waiting # 0
    <3>1. draining' = draining /\ drainingGen' = drainingGen /\ sharedGen' = sharedGen
          BY <2>2, <1>2 DEF Capture
    <3>2. Cohort' = Cohort
          BY <1>2, <1>3, <3>1 DEF Cohort
    <3>3. waiting' # 0
          BY <1>1, <1>2
    <3> QED BY <1>2, <1>3, <2>2, <3>1, <3>2, <3>3 DEF Generations
  <2> QED BY <2>1, <2>2
<1>10. NoLostWakeup'
  <2> SUFFICES ASSUME NEW u \in Sleepers' \ awake'
               PROVE  ~(IF pc'[u] = "lock" THEN Quiescent' ELSE Admits(pc[u])')
      BY <1>2, <1>4 DEF NoLostWakeup, Sleepers, Types, Admits
  <2>1. CASE u = t
        BY <2>1, <1>2 DEF LockWait, Quiescent
  <2>2. CASE u # t
    <3>1. u \in Sleepers \ awake /\ pc'[u] = pc[u] /\ u \in Threads
          BY <2>2, <1>2, <1>4 DEF Types, Sleepers
    <3>2. ~(IF pc[u] = "lock" THEN Quiescent ELSE Admits(pc[u]))
          BY <3>1 DEF NoLostWakeup
    <3>3. waiting' # 0 /\ (waiting = 0 => draining' = shared)
          BY <1>1, <1>2 DEF Capture
    <3>4. waiting = 0 => exclusive \/ pc[u] = "lock"
          BY <3>2 DEF Admits
    <3>5. waiting # 0 => draining' = draining
          BY <1>2 DEF Capture
    <3> QED BY <1>2, <3>1, <3>2, <3>3, <3>4, <3>5 DEF Admits, Quiescent
  <2> QED BY <2>1, <2>2
<1> QED BY <1>7, <1>8, <1>9, <1>10

\* A waiter whose predicate is still false goes back to sleep.
LEMMA SleepAgainInv ==
    ASSUME IInv, NEW t \in Threads, t \in Sleepers,
           ~(IF pc[t] = "lock" THEN Quiescent ELSE Admits(pc[t])),
           awake' = awake \ {t}, UNCHANGED <<pc, token, gate>>
    PROVE  IInv'
<1> USE DEF IInv, gate
<1>1. /\ Members' = Members /\ Owners' = Owners /\ Locks' = Locks
      /\ Sleepers' = Sleepers /\ Cohort' = Cohort
      BY DEF Members, Owners, Locks, Sleepers, Cohort
<1>2. Types' /\ Counts' /\ Generations'
      BY <1>1 DEF Types, Counts, Generations
<1>3. NoLostWakeup'
      BY <1>1 DEF NoLostWakeup, Quiescent, Admits
<1> QED BY <1>2, <1>3

\* A wait that throws: the last one to withdraw reopens the gate, and wakes all.
LEMMA LockThrowsInv ==
    ASSUME IInv, NEW t \in Threads, LockThrows(t)
    PROVE  IInv'
<1> USE DEF IInv
<1>1. waiting \in Nat /\ Locks \subseteq Threads
      BY CountTypes
<1>2. /\ pc' = [pc EXCEPT ![t] = "idle"] /\ pc[t] = "lock" /\ pc'[t] = "idle"
      /\ waiting' = waiting - 1 /\ draining' = IF waiting' = 0 THEN 0 ELSE draining
      /\ awake' = Sleepers \ {t} /\ token' = token /\ shared' = shared
      /\ sharedGen' = sharedGen /\ drainingGen' = drainingGen /\ exclusive' = exclusive
      BY DEF LockThrows, NotifyAll, Types
<1>3. Members' = Members /\ Owners' = Owners
      BY <1>2 DEF Members, Owners, Types
<1>4. Locks' = Locks \ {t} /\ Sleepers' = Sleepers \ {t} /\ t \in Locks
      BY <1>2 DEF Locks, Sleepers, Types, Waiting
<1>5. waiting' = Cardinality(Locks')
      BY <1>1, <1>2, <1>4, OneMore DEF Counts
<1>6. Types'
      BY <1>2, <1>4 DEF Types
<1>7. Counts'
      BY <1>2, <1>3, <1>5 DEF Counts
<1>8. Cohort' = Cohort
      BY <1>2, <1>3 DEF Cohort
<1>9. waiting # 0
  <2>1. Locks # {}
        BY <1>4
  <2> QED BY <2>1, CountTypes
<1>10. Generations'
      BY <1>2, <1>3, <1>8, <1>9 DEF Generations
<1>11. NoLostWakeup'
      BY <1>2, <1>4 DEF NoLostWakeup
<1> QED BY <1>6, <1>7, <1>10, <1>11

\* Recovery leaves the gate and wakes every waiter.
LEMMA UnlockInv ==
    ASSUME IInv, NEW t \in Threads, Unlock(t)
    PROVE  IInv'
<1> USE DEF IInv
<1>1. /\ awake' = Sleepers /\ token' = token /\ shared' = shared /\ waiting' = waiting
      /\ draining' = draining /\ sharedGen' = sharedGen /\ drainingGen' = drainingGen
      BY DEF Unlock, NotifyAll
<1>2. Members' = Members /\ Locks' = Locks /\ Sleepers' = Sleepers
      BY DEF Unlock, Members, Locks, Sleepers, Types, Waiting
<1>3. Owners = {t}
      BY DEF Unlock, Counts, Owners
<1>4. Owners' = {}
      BY <1>3 DEF Unlock, Owners, Types
<1>5. Cohort' = Cohort
      BY <1>1, <1>2 DEF Cohort
<1>6. Types'
      BY <1>1, <1>2 DEF Unlock, Types
<1>7. Counts'
      BY <1>1, <1>2, <1>4 DEF Unlock, Counts
<1>8. Generations'
      BY <1>1, <1>2, <1>5 DEF Generations
<1>9. NoLostWakeup'
      BY <1>1, <1>2 DEF NoLostWakeup
<1> QED BY <1>6, <1>7, <1>8, <1>9


\* An operation that is admitted.  While a recovery waits it is an exit, and its
\* generation is beyond the captured cohort's.
LEMMA JoinInv ==
    ASSUME IInv, NEW t \in Threads, NEW kind, Admits(kind), Join(t),
           pc[t] \in {"idle", "ordinary", "exit"}, awake' = awake \ {t},
           UNCHANGED <<waiting, draining, sharedGen, drainingGen, exclusive>>
    PROVE  IInv'
<1> USE DEF IInv
<1>1. shared \in Nat /\ waiting \in Nat /\ Members \subseteq Threads
      BY CountTypes
<1>2. /\ pc'[t] = "member" /\ token'[t] = sharedGen /\ shared' = shared + 1
      /\ \A u \in Threads \ {t} : pc'[u] = pc[u] /\ token'[u] = token[u]
      BY DEF Join, Types
<1>3. /\ Members' = Members \cup {t} /\ t \notin Members
      /\ Locks' = Locks /\ Owners' = Owners /\ Sleepers' = Sleepers \ {t}
      BY <1>2 DEF Members, Locks, Owners, Sleepers, Waiting
<1>4. shared' = Cardinality(Members')
      BY <1>1, <1>2, <1>3, OneMore DEF Counts
<1>5. Types'
      BY <1>3 DEF Join, Types, Holding
<1>6. Counts'
      BY <1>3, <1>4 DEF Counts, Admits
<1>7. \A u \in Members' : token'[u] <= sharedGen'
      BY <1>1, <1>2, <1>3 DEF Generations, Types
<1>8. waiting # 0 => sharedGen > drainingGen
      BY DEF Generations, Admits
<1>9. waiting # 0 => Cohort' = Cohort
      BY <1>1, <1>2, <1>3, <1>8 DEF Cohort, Types
<1>10. Generations'
      BY <1>7, <1>8, <1>9 DEF Generations
<1>11. NoLostWakeup'
  <2>1. ~Quiescent'
        BY <1>1, <1>2 DEF Quiescent
  <2>2. \A u \in Sleepers' \ awake' : u \in Sleepers \ awake /\ pc'[u] = pc[u]
        BY <1>2, <1>3 DEF Sleepers
  <2> QED BY <2>1, <2>2 DEF NoLostWakeup, Admits
<1> QED BY <1>5, <1>6, <1>10, <1>11

\* An operation that is not admitted goes to sleep with a false predicate.
LEMMA SharedWaitInv ==
    ASSUME IInv, NEW t \in Threads, NEW kind \in {"ordinary", "exit"}, ~Admits(kind),
           pc[t] = "idle", pc' = [pc EXCEPT ![t] = kind], UNCHANGED <<awake, token, gate>>
    PROVE  IInv'
<1> USE DEF IInv, gate
<1>1. pc'[t] = kind /\ \A u \in Threads \ {t} : pc'[u] = pc[u]
      BY DEF Types
<1>2. /\ Members' = Members /\ Locks' = Locks /\ Owners' = Owners
      /\ Sleepers' = Sleepers \cup {t}
      BY <1>1 DEF Members, Locks, Owners, Sleepers, Waiting
<1>3. Cohort' = Cohort
      BY <1>2 DEF Cohort
<1>4. Types'
      BY <1>2 DEF Types, Waiting
<1>5. Counts' /\ Generations'
      BY <1>2, <1>3 DEF Counts, Generations
<1>6. NoLostWakeup'
  <2> SUFFICES ASSUME NEW u \in Sleepers' \ awake'
               PROVE  ~(IF pc'[u] = "lock" THEN Quiescent ELSE Admits(pc'[u]))
      BY DEF NoLostWakeup, Quiescent, Admits
  <2>1. CASE u = t
        BY <2>1, <1>1
  <2>2. CASE u # t
        BY <2>2, <1>1, <1>2 DEF NoLostWakeup, Sleepers
  <2> QED BY <2>1, <2>2
<1> QED BY <1>4, <1>5, <1>6

\* A member leaves; if it was captured, the cohort loses it, and the last member
\* wakes every waiter.
LEMMA UnlockSharedInv ==
    ASSUME IInv, NEW t \in Threads, UnlockShared(t)
    PROVE  IInv'
<1> USE DEF IInv
<1>1. /\ shared \in Nat /\ waiting \in Nat /\ Members \subseteq Threads /\ Cohort \subseteq Threads
      /\ draining \in Nat
      BY CountTypes DEF Types
<1>2. /\ pc[t] = "member" /\ pc'[t] = "idle" /\ shared' = shared - 1
      /\ \A u \in Threads \ {t} : pc'[u] = pc[u] /\ token'[u] = token[u]
      /\ draining' = IF LeavesCohort(t) THEN draining - 1 ELSE draining
      /\ waiting' = waiting /\ sharedGen' = sharedGen /\ drainingGen' = drainingGen
      /\ exclusive' = exclusive
      BY DEF UnlockShared, Types
<1>3. /\ Members' = Members \ {t} /\ t \in Members
      /\ Locks' = Locks /\ Owners' = Owners /\ Sleepers' = Sleepers /\ Cohort' = Cohort \ {t}
      BY <1>2 DEF Members, Locks, Owners, Sleepers, Waiting, Cohort
<1>4. shared' = Cardinality(Members')
      BY <1>1, <1>2, <1>3, OneMore DEF Counts
<1>5. waiting # 0 => draining' = Cardinality(Cohort') /\ draining' \in Nat /\ draining' <= draining
  <2>1. LeavesCohort(t) <=> waiting # 0 /\ t \in Cohort
        BY <1>3 DEF LeavesCohort, Cohort
  <2>2. t \notin Cohort => Cohort \ {t} = Cohort
        OBVIOUS
  <2>3. Cardinality(Cohort \ {t}) \in Nat
        BY <1>1, FiniteParts
  <2>4. waiting # 0 => draining = Cardinality(Cohort)
        BY DEF Generations
  <2>5. t \in Cohort => Cardinality(Cohort \ {t}) = Cardinality(Cohort) - 1
        BY <1>1, OneMore
  <2>6. waiting # 0 => draining' = Cardinality(Cohort \ {t})
    <3>1. CASE t \in Cohort
          BY <3>1, <1>2, <2>1, <2>4, <2>5
    <3>2. CASE t \notin Cohort
          BY <3>2, <1>2, <2>1, <2>2, <2>4
    <3> QED BY <3>1, <3>2
  <2>7. draining' = draining \/ draining' = draining - 1
        BY <1>2
  <2>8. Cohort' = Cohort \ {t}
        BY <1>3
  <2> QED BY <1>1, <2>3, <2>6, <2>7, <2>8
<1>6. waiting = 0 => draining' = draining
      BY <1>2 DEF LeavesCohort
<1>7. awake' \subseteq Sleepers'
      BY <1>3 DEF UnlockShared, NotifyAll, Types
<1>8. Types'
  <2>1. 0 \in 0..MaxGeneration
        BY GateConstants
  <2>2. token' \in [Threads -> 0..MaxGeneration]
        BY <2>1 DEF UnlockShared, Types
  <2>3. pc' \in [Threads -> {"idle"} \cup Waiting \cup Holding]
        BY DEF UnlockShared, Types
  <2>4. draining' \in Nat
        BY <1>1, <1>5, <1>6
  <2> QED BY <1>2, <1>7, <2>2, <2>3, <2>4 DEF Types
<1>9. Counts'
      BY <1>2, <1>3, <1>4 DEF Counts
<1>10. \A u \in Members' : token'[u] <= sharedGen'
      BY <1>1, <1>2, <1>3 DEF Generations
<1>11. waiting # 0 => sharedGen > drainingGen
      BY <1>3 DEF Generations
<1>12. Generations'
      BY <1>2, <1>5, <1>6, <1>10, <1>11 DEF Generations
<1>13. NoLostWakeup'
  <2>1. CASE shared' = 0
        BY <2>1, <1>3 DEF UnlockShared, NotifyAll, NoLostWakeup
  <2>2. CASE shared' # 0
    <3>1. awake' = awake
          BY <2>2 DEF UnlockShared
    <3>2. ~Quiescent'
          BY <2>2 DEF Quiescent
    <3>3. \A u \in Sleepers : u # t /\ pc'[u] = pc[u]
          BY <1>2 DEF Sleepers, Waiting
    <3>4. waiting # 0 /\ draining' # 0 => draining # 0
          BY <1>1, <1>5
    <3> QED BY <1>2, <1>3, <3>1, <3>2, <3>3, <3>4 DEF NoLostWakeup, Admits
  <2> QED BY <2>1, <2>2
<1> QED BY <1>8, <1>9, <1>12, <1>13

-----------------------------------------------------------------------------
\* Every step of every thread keeps the invariant.
LEMMA NextInv == IInv /\ [Next]_vars => IInv'
<1> SUFFICES ASSUME IInv, [Next]_vars PROVE IInv'
    OBVIOUS
<1>1. CASE UNCHANGED vars
  <2>1. /\ Members' = Members /\ Owners' = Owners /\ Locks' = Locks
        /\ Sleepers' = Sleepers /\ Cohort' = Cohort
        BY <1>1 DEF vars, gate, Members, Owners, Locks, Sleepers, Cohort
  <2>2. Types' /\ Counts' /\ Generations'
        BY <1>1, <2>1 DEF vars, gate, IInv, Types, Counts, Generations
  <2>3. NoLostWakeup'
        BY <1>1, <2>1 DEF vars, gate, IInv, NoLostWakeup, Quiescent, Admits
  <2> QED BY <2>2, <2>3 DEF IInv
<1>2. ASSUME NEW t \in Threads, Step(t) PROVE IInv'
  <2>0. pc[t] = "idle" => awake = awake \ {t}
        BY DEF IInv, Types, Sleepers, Waiting
  <2>1. CASE LockAtOnce(t) \/ TryLock(t)
        BY <2>0, <2>1, OwnInv DEF LockAtOnce, TryLock
  <2>2. CASE LockWait(t)
        BY <2>2, LockWaitInv
  <2>3. CASE LockWake(t)
    <3>1. CASE Quiescent
          BY <2>3, <3>1, OwnInv DEF LockWake
    <3>2. CASE ~Quiescent
          BY <2>3, <3>2, SleepAgainInv DEF LockWake, Sleepers, Waiting, gate
    <3> QED BY <3>1, <3>2
  <2>4. CASE LockThrows(t)
        BY <2>4, LockThrowsInv
  <2>5. CASE Unlock(t)
        BY <2>5, UnlockInv
  <2>6. ASSUME NEW kind \in {"ordinary", "exit"}, LockShared(t, kind) PROVE IInv'
    <3>1. CASE Admits(kind)
          BY <2>0, <2>6, <3>1, JoinInv DEF LockShared
    <3>2. CASE ~Admits(kind)
          BY <2>6, <3>2, SharedWaitInv DEF LockShared, gate
    <3> QED BY <3>1, <3>2
  <2>7. CASE SharedWake(t)
    <3>1. CASE Admits(pc[t])
          BY <2>7, <3>1, JoinInv DEF SharedWake
    <3>2. CASE ~Admits(pc[t])
          BY <2>7, <3>2, SleepAgainInv DEF SharedWake, Sleepers, Waiting, gate
    <3> QED BY <3>1, <3>2
  <2>8. CASE UnlockShared(t)
        BY <2>8, UnlockSharedInv
  <2> QED BY <1>2, <2>1, <2>2, <2>3, <2>4, <2>5, <2>6, <2>7, <2>8 DEF Step
<1> QED BY <1>1, <1>2 DEF Next

\* The inductive invariant of the gate's six fields and the threads' places.
THEOREM GateInvariance == Spec => []IInv
<1>1. Init => IInv
      BY InitInv
<1>2. IInv /\ [Next]_vars => IInv'
      BY NextInv
<1> QED BY <1>1, <1>2, PTL DEF Spec

\* Recovery runs alone, for every finite set of threads: lock() and try_lock()
\* hand out the gate only when no operation shares it and no one else owns it.
THEOREM RecoveryIsAlone == Spec => []RecoveryAlone
<1>1. IInv => RecoveryAlone
  <2> SUFFICES ASSUME IInv, Owners # {} PROVE Cardinality(Owners) = 1
      BY DEF IInv, Counts, RecoveryAlone
  <2>1. PICK t \in Owners : TRUE
        OBVIOUS
  <2>2. Owners = {t}
        BY <2>1 DEF IInv, Counts
  <2> QED BY <2>2, FS_Singleton
<1> QED BY <1>1, GateInvariance, PTL

\* The cohort counter is exact, for every finite set of threads: unlock_shared
\* never takes m_drainingShared below zero, and exits that arrive later do not
\* extend the drain.
THEOREM CohortIsCounted == Spec => []CohortCounted
<1>1. IInv => CohortCounted
      BY DEF IInv, Generations, CohortCounted, Cohort
<1> QED BY <1>1, GateInvariance, PTL

\* No wakeup is lost, for every finite set of threads, although unlock_shared
\* notifies only when the last member leaves.
THEOREM NoWakeupLost == Spec => []NoLostWakeup
<1>1. IInv => NoLostWakeup
      BY DEF IInv
<1> QED BY <1>1, GateInvariance, PTL

\* The counters stay within the number of threads, so none of them wraps.
THEOREM GateTypes == Spec => []TypeOK
<1>1. IInv => TypeOK
  <2> SUFFICES ASSUME IInv PROVE TypeOK
      OBVIOUS
  <2>1. /\ Members \subseteq Threads /\ Locks \subseteq Threads /\ Cohort \subseteq Threads
        BY CountTypes
  <2>2. Cardinality(Threads) \in Nat
        BY FiniteParts
  <2>3. shared \in 0..Cardinality(Threads) /\ waiting \in 0..Cardinality(Threads)
        BY <2>1, <2>2, FiniteParts DEF IInv, Counts
  <2>4. draining \in 0..Cardinality(Threads)
    <3>1. CASE waiting = 0
          BY <3>1, <2>2 DEF IInv, Generations
    <3>2. CASE waiting # 0
          BY <3>2, <2>1, <2>2, FiniteParts DEF IInv, Generations
    <3> QED BY <3>1, <3>2
  <2> QED BY <2>3, <2>4 DEF IInv, Types, TypeOK
<1> QED BY <1>1, GateInvariance, PTL

=============================================================================
