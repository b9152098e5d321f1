------------------------ MODULE ServiceSchedulerProofs ------------------------
(***************************************************************************)
(* The request scheduler's safety for any number of connections, any       *)
(* operations and any queue and connection limits.                         *)
(***************************************************************************)
EXTENDS ServiceScheduler, SequenceTheorems, TLAPS

\* A request in lane l's queue was never called and is waiting or was closed there.
Waiting(l, c) == job[c] \in {"Queued", "Closed"} /\ calls[c] = 0 /\ Lane(Operation[c]) = l

QueueInv == \A l \in Lanes : \A i \in 1 .. Len(queue[l]) : Waiting(l, queue[l][i])

\* No request is queued twice.
OnceInv ==
    \A l \in Lanes : \A i, j \in 1 .. Len(queue[l]) : i # j => queue[l][i] # queue[l][j]

\* A request that is not yet dispatched was never called; one a thread is busy with was.
CallInv ==
    /\ \A c \in Clients : job[c] \in {"Absent", "Reading", "Queued"} => calls[c] = 0
    /\ \A l \in Lanes : busy[l] # None => calls[busy[l]] # 0
    /\ \A l \in Lanes : thread[l] = "calling" => busy[l] # None

StopInv == reactor \in {"exited", "joined"} => stop

IInv == TypeOK /\ QueueInv /\ OnceInv /\ CallInv /\ StopInv

-----------------------------------------------------------------------------
(* What most steps leave alone. *)

LEMMA Member ==
    ASSUME IInv, NEW l \in Lanes, NEW i \in 1 .. Len(queue[l])
    PROVE  queue[l][i] \in Clients /\ Waiting(l, queue[l][i])
<1>1. queue[l] \in Seq(Clients)
      BY DEF IInv, TypeOK
<1> QED BY <1>1 DEF IInv, QueueInv

\* The queues keep their invariant while no waiting request is taken out of its state.
LEMMA QueueStays ==
    ASSUME IInv, queue' = queue, calls' = calls,
           \A c \in Clients : job[c] \in {"Queued", "Closed"} /\ calls[c] = 0 =>
                                  job'[c] \in {"Queued", "Closed"}
    PROVE  QueueInv' /\ OnceInv'
<1>1. OnceInv'
      BY DEF IInv, OnceInv
<1>2. ASSUME NEW l \in Lanes, NEW i \in 1 .. Len(queue[l])
      PROVE  Waiting(l, queue[l][i])'
      BY <1>2, Member DEF Waiting
<1> QED BY <1>1, <1>2 DEF QueueInv

LEMMA CallsStay ==
    ASSUME IInv, calls' = calls,
           \A c \in Clients : job'[c] \in {"Absent", "Reading", "Queued"} =>
                                  job[c] \in {"Absent", "Reading", "Queued"},
           \A l \in Lanes : busy'[l] = busy[l] \/ busy'[l] = None,
           \A l \in Lanes : thread'[l] = "calling" => thread[l] = "calling" /\ busy'[l] = busy[l]
    PROVE  CallInv'
BY DEF IInv, CallInv

LEMMA WakeFacts ==
    ASSUME TypeOK
    PROVE  /\ Wake(thread) \in [Lanes -> {"ready", "asleep", "calling", "exited"}]
           /\ \A l \in Lanes : Wake(thread)[l] = "calling" => thread[l] = "calling"
BY DEF TypeOK, Wake

LEMMA SeqOfFacts ==
    ASSUME NEW S, NEW n \in Nat, NEW s \in SeqOf(S, n)
    PROVE  s \in Seq(S) /\ Len(s) <= n
BY DEF SeqOf

-----------------------------------------------------------------------------
(* The reactor's steps. *)

LEMMA CollectKeeps ==
    ASSUME IInv, Collect
    PROVE  IInv'
<1>1. /\ queue' = queue /\ calls' = calls /\ busy' = busy /\ thread' = thread
      /\ expired' = expired /\ stop' = stop /\ reactor = "collect" /\ reactor' = "poll"
      /\ job' = [c \in Clients |-> IF Overdue(c) THEN "Closed" ELSE job[c]]
      BY DEF Collect
<1>2. /\ clients' \in Seq(Clients) /\ Len(clients') <= MaxConnections
      /\ observed' \in Seq(Clients)
      BY SeqOfFacts, SchedulerConstants DEF Collect
<1>3. \A c \in Clients : job'[c] = "Closed" \/ job'[c] = job[c]
      BY <1>1
<1>4. QueueInv' /\ OnceInv'
      BY <1>1, <1>3, QueueStays
<1>5. CallInv'
      BY <1>1, <1>3, CallsStay
<1>6. TypeOK'
  <2>1. job' \in [Clients -> JobStates]
        BY <1>1 DEF IInv, TypeOK, JobStates
  <2> QED BY <1>1, <1>2, <2>1 DEF IInv, TypeOK
<1>7. StopInv'
      BY <1>1 DEF StopInv
<1> QED BY <1>4, <1>5, <1>6, <1>7 DEF IInv

LEMMA ReactorExitsKeeps ==
    ASSUME IInv, NEW failed \in BOOLEAN, ReactorExits(failed)
    PROVE  IInv'
<1>1. /\ queue' = queue /\ calls' = calls /\ busy' = busy /\ clients' = clients
      /\ expired' = expired /\ stop' = TRUE /\ reactor' = "exited" /\ observed' = <<>>
      /\ job' = [c \in Clients |-> IF Contains(clients, c) THEN "Closed" ELSE job[c]]
      /\ thread' = IF failed THEN Wake(thread) ELSE thread
      BY DEF ReactorExits
<1>2. \A c \in Clients : job'[c] = "Closed" \/ job'[c] = job[c]
      BY <1>1
<1>3. /\ thread' \in [Lanes -> {"ready", "asleep", "calling", "exited"}]
      /\ \A l \in Lanes : thread'[l] = "calling" => thread[l] = "calling"
      BY <1>1, WakeFacts DEF IInv, TypeOK
<1>4. QueueInv' /\ OnceInv'
      BY <1>1, <1>2, QueueStays
<1>5. CallInv'
      BY <1>1, <1>2, <1>3, CallsStay
<1>6. TypeOK'
  <2>1. job' \in [Clients -> JobStates]
        BY <1>1 DEF IInv, TypeOK, JobStates
  <2>2. observed' \in Seq(Clients)
        BY <1>1
  <2> QED BY <1>1, <1>3, <2>1, <2>2 DEF IInv, TypeOK
<1>7. StopInv'
      BY <1>1 DEF StopInv
<1> QED BY <1>4, <1>5, <1>6, <1>7 DEF IInv

\* A step that serves client c without queueing it.
LEMMA ServedKeeps ==
    ASSUME IInv, NEW c \in Clients, job[c] \in {"Reading", "Writing", "Closed"},
           queue' = queue, calls' = calls, busy' = busy, thread' = thread,
           clients' = clients, reactor' = reactor, stop' = stop, observed' \in Seq(Clients),
           NEW s \in {"Reading", "Writing", "Closed"}, job' = [job EXCEPT ![c] = s],
           expired' \in [Clients -> BOOLEAN],
           job[c] = s \/ (job[c] # "Closed" /\ s \in {"Writing", "Closed"})
    PROVE  IInv'
<1>1. \A d \in Clients : job[d] \in {"Queued", "Closed"} => job'[d] \in {"Queued", "Closed"}
      BY DEF IInv, TypeOK
<1>2. \A d \in Clients : job'[d] \in {"Absent", "Reading", "Queued"} =>
                             job[d] \in {"Absent", "Reading", "Queued"}
      BY DEF IInv, TypeOK
<1>3. QueueInv' /\ OnceInv'
      BY <1>1, QueueStays
<1>4. CallInv'
      BY <1>2, CallsStay
<1>5. TypeOK'
  <2>1. job' \in [Clients -> JobStates]
        BY DEF IInv, TypeOK, JobStates
  <2> QED BY <2>1 DEF IInv, TypeOK
<1>6. StopInv'
      BY DEF IInv, StopInv
<1> QED BY <1>3, <1>4, <1>5, <1>6 DEF IInv

\* A step that takes no part in the requests themselves.
LEMMA FrameKeeps ==
    ASSUME IInv, job' = job, queue' = queue, calls' = calls, busy' = busy, clients' = clients,
           observed' = observed, stop' \in BOOLEAN, expired' \in [Clients -> BOOLEAN],
           thread' \in [Lanes -> {"ready", "asleep", "calling", "exited"}],
           \A l \in Lanes : thread'[l] = "calling" => thread[l] = "calling",
           reactor' \in {"collect", "poll", "polled", "serving", "exited", "joined"},
           reactor' \in {"exited", "joined"} => stop'
    PROVE  IInv'
<1>1. QueueInv' /\ OnceInv'
      BY QueueStays
<1>2. CallInv'
      BY CallsStay
<1>3. TypeOK'
      BY DEF IInv, TypeOK
<1>4. StopInv'
      BY DEF StopInv
<1> QED BY <1>1, <1>2, <1>3, <1>4 DEF IInv

LEMMA PollKeeps ==
    ASSUME IInv, PollReturns \/ ServeEnds \/ RequestSchedulerStop \/
                 (\E c \in Clients : DeadlinePasses(c)) \/ (\E l \in Lanes : LaneExits(l))
    PROVE  IInv'
<1>1. /\ thread \in [Lanes -> {"ready", "asleep", "calling", "exited"}]
      /\ expired \in [Clients -> BOOLEAN] /\ stop \in BOOLEAN
      /\ reactor \in {"collect", "poll", "polled", "serving", "exited", "joined"}
      /\ reactor \in {"exited", "joined"} => stop
      BY DEF IInv, TypeOK, StopInv
<1>2. CASE PollReturns
      BY <1>1, <1>2, FrameKeeps DEF PollReturns
<1>3. CASE ServeEnds
      BY <1>1, <1>3, FrameKeeps DEF ServeEnds
<1>4. CASE RequestSchedulerStop
  <2>1. TypeOK
        BY DEF IInv
  <2> QED BY <1>1, <1>4, <2>1, WakeFacts, FrameKeeps DEF RequestSchedulerStop
<1>5. ASSUME NEW c \in Clients, DeadlinePasses(c)
      PROVE  IInv'
  <2>1. expired' \in [Clients -> BOOLEAN]
        BY <1>1, <1>5 DEF DeadlinePasses
  <2> QED BY <1>1, <1>5, <2>1, FrameKeeps DEF DeadlinePasses
<1>6. ASSUME NEW l \in Lanes, LaneExits(l)
      PROVE  IInv'
  <2>1. /\ thread' \in [Lanes -> {"ready", "asleep", "calling", "exited"}]
        /\ \A k \in Lanes : thread'[k] = "calling" => thread[k] = "calling"
        BY <1>1, <1>6 DEF LaneExits
  <2> QED BY <1>1, <1>6, <2>1, FrameKeeps DEF LaneExits
<1> QED BY <1>2, <1>3, <1>4, <1>5, <1>6

LEMMA LaneIsLane == \A c \in Clients : Lane(Operation[c]) \in Lanes
BY DEF Lane, Lanes

\* A request joins the end of its lane's queue.
LEMMA EnqueueKeeps ==
    ASSUME IInv, NEW c \in Clients, job[c] = "Reading", NEW l \in Lanes, l = Lane(Operation[c]),
           Len(queue[l]) < MaxQueued,
           job' = [job EXCEPT ![c] = "Queued"], queue' = [queue EXCEPT ![l] = Append(@, c)],
           expired' = [expired EXCEPT ![c] = FALSE], thread' = Wake(thread),
           calls' = calls, busy' = busy, clients' = clients, reactor' = reactor, stop' = stop,
           observed' \in Seq(Clients)
    PROVE  IInv'
<1>1. /\ job \in [Clients -> JobStates] /\ queue \in [Lanes -> Seq(Clients)]
      /\ queue[l] \in Seq(Clients) /\ Len(queue[l]) \in Nat
      BY DEF IInv, TypeOK
<1>2. calls[c] = 0
      BY DEF IInv, CallInv
<1>3. ASSUME NEW k \in Lanes, NEW i \in 1 .. Len(queue[k])
      PROVE  queue[k][i] # c
      BY <1>3, Member DEF Waiting
<1>4. /\ job'[c] = "Queued" /\ \A d \in Clients : d # c => job'[d] = job[d]
      BY <1>1
<1>5. /\ queue'[l] = Append(queue[l], c) /\ \A k \in Lanes : k # l => queue'[k] = queue[k]
      BY <1>1
<1>6. /\ Len(queue'[l]) = Len(queue[l]) + 1 /\ queue'[l][Len(queue[l]) + 1] = c
      /\ \A i \in 1 .. Len(queue[l]) : queue'[l][i] = queue[l][i]
      BY <1>1, <1>5
<1>7. \A i \in 1 .. Len(queue'[l]) : i \in 1 .. Len(queue[l]) \/ i = Len(queue[l]) + 1
      BY <1>1, <1>6
<1>8. ASSUME NEW k \in Lanes, NEW i \in 1 .. Len(queue'[k])
      PROVE  /\ job'[queue'[k][i]] \in {"Queued", "Closed"} /\ calls[queue'[k][i]] = 0
             /\ Lane(Operation[queue'[k][i]]) = k
  <2>1. ASSUME i \in 1 .. Len(queue[k]), queue'[k][i] = queue[k][i]
        PROVE  /\ job'[queue'[k][i]] \in {"Queued", "Closed"} /\ calls[queue'[k][i]] = 0
               /\ Lane(Operation[queue'[k][i]]) = k
    <3>1. queue[k][i] \in Clients /\ Waiting(k, queue[k][i]) /\ queue[k][i] # c
          BY <1>3, <2>1, Member
    <3> QED BY <1>4, <2>1, <3>1 DEF Waiting
  <2>2. CASE k # l
        BY <1>5, <1>8, <2>1, <2>2
  <2>3. CASE k = l /\ i \in 1 .. Len(queue[l])
        BY <1>6, <2>1, <2>3
  <2>4. CASE k = l /\ i = Len(queue[l]) + 1
        BY <1>2, <1>4, <1>6, <2>4
  <2> QED BY <1>7, <1>8, <2>2, <2>3, <2>4
<1>9. QueueInv'
      BY <1>8 DEF QueueInv, Waiting
<1>10. OnceInv'
  <2>1. ASSUME NEW k \in Lanes, NEW i \in 1 .. Len(queue'[k]), NEW j \in 1 .. Len(queue'[k]), i # j
        PROVE  queue'[k][i] # queue'[k][j]
    <3>1. CASE k # l
          BY <1>5, <2>1, <3>1 DEF IInv, OnceInv
    <3>2. CASE k = l /\ i \in 1 .. Len(queue[l]) /\ j \in 1 .. Len(queue[l])
          BY <1>6, <2>1, <3>2 DEF IInv, OnceInv
    <3>3. CASE k = l /\ i \in 1 .. Len(queue[l]) /\ j = Len(queue[l]) + 1
          BY <1>3, <1>6, <3>3
    <3>4. CASE k = l /\ i = Len(queue[l]) + 1 /\ j \in 1 .. Len(queue[l])
          BY <1>3, <1>6, <3>4
    <3> QED BY <1>7, <2>1, <3>1, <3>2, <3>3, <3>4
  <2> QED BY <2>1 DEF OnceInv
<1>11. /\ thread' \in [Lanes -> {"ready", "asleep", "calling", "exited"}]
       /\ \A k \in Lanes : thread'[k] = "calling" => thread[k] = "calling"
      BY WakeFacts DEF IInv
<1>12. CallInv'
  <2>1. \A d \in Clients : job'[d] \in {"Absent", "Reading", "Queued"} =>
                               job[d] \in {"Absent", "Reading", "Queued"}
        BY <1>4
  <2> QED BY <1>11, <2>1, CallsStay
<1>13. TypeOK'
  <2>1. job' \in [Clients -> JobStates]
        BY <1>1 DEF JobStates
  <2>2. expired' \in [Clients -> BOOLEAN]
        BY DEF IInv, TypeOK
  <2>3. Append(queue[l], c) \in Seq(Clients)
        BY <1>1
  <2>4. queue' \in [Lanes -> Seq(Clients)]
        BY <1>1, <2>3
  <2>5. ASSUME NEW k \in Lanes
        PROVE  Len(queue'[k]) <= MaxQueued
    <3>1. CASE k = l
          BY <1>1, <1>6, <3>1, SchedulerConstants
    <3>2. CASE k # l
          BY <1>5, <3>2 DEF IInv, TypeOK
    <3> QED BY <3>1, <3>2
  <2> QED BY <1>11, <2>1, <2>2, <2>4, <2>5 DEF IInv, TypeOK
<1>14. StopInv'
      BY DEF IInv, StopInv
<1> QED BY <1>9, <1>10, <1>12, <1>13, <1>14 DEF IInv

LEMMA ServeKeeps ==
    ASSUME IInv, Serve
    PROVE  IInv'
<1> DEFINE c == Head(observed)
<1>1. /\ observed # <<>> /\ observed' = Tail(observed) /\ clients' = clients /\ busy' = busy
      /\ reactor' = reactor /\ stop' = stop /\ calls' = calls
      BY DEF Serve
<1>2. observed \in Seq(Clients) /\ job \in [Clients -> JobStates] /\ expired \in [Clients -> BOOLEAN]
      BY DEF IInv, TypeOK
<1>3. c \in Clients /\ observed' \in Seq(Clients)
      BY <1>1, <1>2
<1>4. \/ ReceiveClient(c) \/ WriteClient(c)
      \/ job[c] = "Closed" /\ UNCHANGED <<job, expired, queue, thread>>
      BY DEF Serve
<1> HIDE DEF c
<1>5. ASSUME job' = job, expired' = expired, queue' = queue, thread' = thread,
             job[c] \in {"Reading", "Writing", "Closed"}
      PROVE  IInv'
  <2>1. job' = [job EXCEPT ![c] = job[c]]
        BY <1>2, <1>3, <1>5
  <2> QED BY <1>1, <1>2, <1>3, <1>5, <2>1, ServedKeeps
<1>6. ASSUME Close(c), queue' = queue, thread' = thread, job[c] \in {"Reading", "Writing"}
      PROVE  IInv'
      BY <1>1, <1>2, <1>3, <1>6, ServedKeeps DEF Close
<1>7. ASSUME Respond(c), queue' = queue, thread' = thread, job[c] = "Reading"
      PROVE  IInv'
  <2>1. expired' \in [Clients -> BOOLEAN]
        BY <1>2, <1>3, <1>7 DEF Respond
  <2> QED BY <1>1, <1>3, <1>7, <2>1, ServedKeeps DEF Respond
<1>8. ASSUME Enqueue(c), job[c] = "Reading"
      PROVE  IInv'
  <2> DEFINE l == Lane(Operation[c])
  <2>1. l \in Lanes
        BY <1>3, LaneIsLane
  <2>2. Len(queue[l]) \in Nat
        BY <2>1 DEF IInv, TypeOK
  <2>3. CASE Len(queue[l]) >= MaxQueued
        BY <1>6, <1>8, <2>3 DEF Enqueue
  <2>4. CASE ~(Len(queue[l]) >= MaxQueued)
    <3>1. /\ job' = [job EXCEPT ![c] = "Queued"] /\ queue' = [queue EXCEPT ![l] = Append(@, c)]
          /\ expired' = [expired EXCEPT ![c] = FALSE] /\ thread' = Wake(thread)
          BY <1>8, <2>4 DEF Enqueue
    <3>2. Len(queue[l]) < MaxQueued
          BY <2>2, <2>4, SchedulerConstants
    <3>3. l = Lane(Operation[c])
          OBVIOUS
    <3> HIDE DEF l
    <3> QED BY <1>1, <1>3, <1>8, <2>1, <3>1, <3>2, <3>3, EnqueueKeeps
  <2> QED BY <2>3, <2>4
<1>9. CASE ReceiveClient(c)
      BY <1>5, <1>6, <1>7, <1>8, <1>9 DEF ReceiveClient
<1>10. CASE WriteClient(c)
      BY <1>5, <1>6, <1>10 DEF WriteClient
<1> QED BY <1>4, <1>5, <1>9, <1>10

LEMMA AcceptKeeps ==
    ASSUME IInv, NEW c \in Clients, Accept(c)
    PROVE  IInv'
<1>1. /\ job[c] = "Absent" /\ Len(clients) < MaxConnections
      /\ job' = [job EXCEPT ![c] = "Reading"] /\ clients' = Append(clients, c)
      /\ expired' = expired /\ queue' = queue /\ busy' = busy /\ thread' = thread
      /\ reactor' = reactor /\ observed' = observed /\ stop' = stop /\ calls' = calls
      BY DEF Accept
<1>2. job \in [Clients -> JobStates] /\ clients \in Seq(Clients)
      BY DEF IInv, TypeOK
<1>3. job'[c] = "Reading" /\ \A d \in Clients : d # c => job'[d] = job[d]
      BY <1>1, <1>2
<1>4. QueueInv' /\ OnceInv'
  <2>1. \A d \in Clients : job[d] \in {"Queued", "Closed"} => job'[d] \in {"Queued", "Closed"}
        BY <1>1, <1>3
  <2> QED BY <1>1, <2>1, QueueStays
<1>5. CallInv'
  <2>1. \A d \in Clients : job'[d] \in {"Absent", "Reading", "Queued"} =>
                               job[d] \in {"Absent", "Reading", "Queued"}
        BY <1>1, <1>3
  <2> QED BY <1>1, <2>1, CallsStay
<1>6. TypeOK'
  <2>1. job' \in [Clients -> JobStates]
        BY <1>1, <1>2 DEF JobStates
  <2>2. clients' \in Seq(Clients) /\ Len(clients') <= MaxConnections
        BY <1>1, <1>2, SchedulerConstants
  <2> QED BY <1>1, <2>1, <2>2 DEF IInv, TypeOK
<1>7. StopInv'
      BY <1>1 DEF IInv, StopInv
<1> QED BY <1>4, <1>5, <1>6, <1>7 DEF IInv

-----------------------------------------------------------------------------
(* The authority threads' steps. *)

\* The front request of lane l.
LEMMA FrontOfLane ==
    ASSUME IInv, NEW l \in Lanes, queue[l] # <<>>
    PROVE  /\ Head(queue[l]) \in Clients /\ Waiting(l, Head(queue[l]))
           /\ Tail(queue[l]) \in Seq(Clients) /\ Len(Tail(queue[l])) = Len(queue[l]) - 1
           /\ Len(queue[l]) \in Nat /\ Len(queue[l]) > 0
           /\ \A i \in 1 .. Len(Tail(queue[l])) :
                 /\ Tail(queue[l])[i] = queue[l][i + 1] /\ i + 1 \in 1 .. Len(queue[l])
                 /\ Tail(queue[l])[i] # Head(queue[l])
<1>1. queue[l] \in Seq(Clients)
      BY DEF IInv, TypeOK
<1>2. /\ Len(queue[l]) \in Nat /\ Len(queue[l]) > 0 /\ 1 \in 1 .. Len(queue[l])
      /\ Head(queue[l]) = queue[l][1]
      /\ Tail(queue[l]) \in Seq(Clients) /\ Len(Tail(queue[l])) = Len(queue[l]) - 1
      BY <1>1
<1>3. queue[l][1] \in Clients /\ Waiting(l, queue[l][1])
      BY <1>2, Member
<1>4. ASSUME NEW i \in 1 .. Len(Tail(queue[l]))
      PROVE  /\ Tail(queue[l])[i] = queue[l][i + 1] /\ i + 1 \in 1 .. Len(queue[l])
             /\ Tail(queue[l])[i] # Head(queue[l])
  <2>1. Tail(queue[l])[i] = queue[l][i + 1] /\ i + 1 \in 1 .. Len(queue[l]) /\ i + 1 # 1
        BY <1>1, <1>2
  <2>2. queue[l][i + 1] # queue[l][1]
        BY <1>2, <2>1 DEF IInv, OnceInv
  <2> QED BY <1>2, <2>1, <2>2
<1> QED BY <1>2, <1>3, <1>4

\* Taking the front request of lane l out of its queue.
LEMMA PopKeeps ==
    ASSUME IInv, NEW l \in Lanes, queue[l] # <<>>, NEW c, c = Head(queue[l]),
           queue' = [queue EXCEPT ![l] = Tail(@)],
           \A d \in Clients : d # c => job'[d] = job[d] /\ calls'[d] = calls[d]
    PROVE  /\ QueueInv' /\ OnceInv' /\ queue' \in [Lanes -> Seq(Clients)]
           /\ \A k \in Lanes : Len(queue'[k]) <= MaxQueued
<1> DEFINE q == queue[l]
           t == Tail(q)
<1>1. /\ c \in Clients /\ Waiting(l, c) /\ t \in Seq(Clients) /\ Len(t) = Len(q) - 1
      /\ Len(q) \in Nat /\ Len(q) > 0
      /\ \A i \in 1 .. Len(t) : t[i] = q[i + 1] /\ i + 1 \in 1 .. Len(q) /\ t[i] # c
      BY FrontOfLane
<1>2. queue \in [Lanes -> Seq(Clients)]
      BY DEF IInv, TypeOK
<1>3. queue'[l] = t /\ \A k \in Lanes : k # l => queue'[k] = queue[k]
      BY <1>2
<1> HIDE DEF t
<1>4. ASSUME NEW k \in Lanes, NEW i \in 1 .. Len(queue'[k])
      PROVE  /\ job'[queue'[k][i]] \in {"Queued", "Closed"} /\ calls'[queue'[k][i]] = 0
             /\ Lane(Operation[queue'[k][i]]) = k
  <2>1. ASSUME NEW j \in 1 .. Len(queue[k]), queue'[k][i] = queue[k][j], queue[k][j] # c
        PROVE  /\ job'[queue'[k][i]] \in {"Queued", "Closed"} /\ calls'[queue'[k][i]] = 0
               /\ Lane(Operation[queue'[k][i]]) = k
    <3>1. queue[k][j] \in Clients /\ Waiting(k, queue[k][j])
          BY <2>1, Member
    <3> QED BY <2>1, <3>1 DEF Waiting
  <2>2. CASE k = l
    <3>1. i \in 1 .. Len(t) /\ queue'[k][i] = q[i + 1] /\ q[i + 1] # c /\ i + 1 \in 1 .. Len(q)
          BY <1>1, <1>3, <1>4, <2>2
    <3> QED BY <2>1, <2>2, <3>1
  <2>3. CASE k # l
    <3>1. i \in 1 .. Len(queue[k]) /\ queue'[k][i] = queue[k][i]
          BY <1>3, <1>4, <2>3
    <3>2. Waiting(k, queue[k][i])
          BY <3>1, Member
    <3>3. queue[k][i] # c
          BY <1>1, <2>3, <3>2 DEF Waiting
    <3> QED BY <2>1, <3>1, <3>3
  <2> QED BY <2>2, <2>3
<1>5. QueueInv'
      BY <1>4 DEF QueueInv, Waiting
<1>6. OnceInv'
  <2>1. ASSUME NEW k \in Lanes, NEW i \in 1 .. Len(queue'[k]), NEW j \in 1 .. Len(queue'[k]), i # j
        PROVE  queue'[k][i] # queue'[k][j]
    <3>1. CASE k # l
          BY <1>3, <2>1, <3>1 DEF IInv, OnceInv
    <3>2. CASE k = l
      <4>1. /\ queue'[k][i] = q[i + 1] /\ queue'[k][j] = q[j + 1]
            /\ i + 1 \in 1 .. Len(q) /\ j + 1 \in 1 .. Len(q)
            BY <1>1, <1>3, <2>1, <3>2
      <4>2. i + 1 # j + 1
            BY <2>1
      <4> QED BY <4>1, <4>2 DEF IInv, OnceInv
    <3> QED BY <3>1, <3>2
  <2> QED BY <2>1 DEF OnceInv
<1>7. queue' \in [Lanes -> Seq(Clients)]
      BY <1>1, <1>2 DEF t
<1>8. ASSUME NEW k \in Lanes
      PROVE  Len(queue'[k]) <= MaxQueued
  <2>1. Len(queue[k]) <= MaxQueued
        BY DEF IInv, TypeOK
  <2>2. CASE k = l
        BY <1>1, <1>3, <2>1, <2>2, SchedulerConstants
  <2>3. CASE k # l
        BY <1>3, <2>1, <2>3
  <2> QED BY <2>2, <2>3
<1> QED BY <1>5, <1>6, <1>7, <1>8

LEMMA DequeueKeeps ==
    ASSUME IInv, NEW l \in Lanes, Dequeue(l)
    PROVE  IInv'
<1>1. /\ thread[l] = "ready" /\ expired' = expired /\ clients' = clients /\ reactor' = reactor
      /\ observed' = observed /\ stop' = stop
      BY DEF Dequeue
<1>2. /\ job \in [Clients -> JobStates] /\ calls \in [Clients -> Nat]
      /\ busy \in [Lanes -> Clients \cup {None}]
      /\ thread \in [Lanes -> {"ready", "asleep", "calling", "exited"}]
      /\ stop \in BOOLEAN /\ expired \in [Clients -> BOOLEAN]
      /\ reactor \in {"collect", "poll", "polled", "serving", "exited", "joined"}
      /\ StopInv
      BY DEF IInv, TypeOK
<1>3. StopInv'
      BY <1>1, <1>2 DEF StopInv
<1>4. CASE queue[l] = <<>>
  <2>1. /\ thread' = [thread EXCEPT ![l] = "asleep"]
        /\ job' = job /\ queue' = queue /\ busy' = busy /\ calls' = calls
        BY <1>4 DEF Dequeue
  <2>2. /\ thread' \in [Lanes -> {"ready", "asleep", "calling", "exited"}]
        /\ \A k \in Lanes : thread'[k] = "calling" => thread[k] = "calling"
        BY <1>2, <2>1
  <2> QED BY <1>1, <1>2, <2>1, <2>2, FrameKeeps DEF StopInv
<1>5. CASE queue[l] # <<>>
  <2> DEFINE c == Head(queue[l])
  <2>1. queue' = [queue EXCEPT ![l] = Tail(@)]
        BY <1>5 DEF Dequeue
  <2>2. c \in Clients /\ Waiting(l, c)
        BY <1>5, FrontOfLane
  <2>3. CASE StillWanted(c)
    <3>1. /\ job' = [job EXCEPT ![c] = "Executing"] /\ busy' = [busy EXCEPT ![l] = c]
          /\ thread' = [thread EXCEPT ![l] = "calling"] /\ calls' = [calls EXCEPT ![c] = @ + 1]
          BY <1>5, <2>3 DEF Dequeue
    <3> HIDE DEF c
    <3>2. /\ job'[c] = "Executing" /\ calls[c] = 0 /\ calls'[c] = 1 /\ c # None
          /\ \A d \in Clients : d # c => job'[d] = job[d] /\ calls'[d] = calls[d]
          BY <1>2, <2>2, <3>1, SchedulerConstants DEF Waiting
    <3>3. /\ QueueInv' /\ OnceInv' /\ queue' \in [Lanes -> Seq(Clients)]
          /\ \A k \in Lanes : Len(queue'[k]) <= MaxQueued
          BY <1>5, <2>1, <3>2, PopKeeps DEF c
    <3>4. \A d \in Clients : calls[d] # 0 => calls'[d] # 0
          BY <3>2
    <3>5. CallInv'
      <4>1. \A d \in Clients : job'[d] \in {"Absent", "Reading", "Queued"} => calls'[d] = 0
            BY <3>2 DEF IInv, CallInv
      <4>2. ASSUME NEW k \in Lanes, busy'[k] # None
            PROVE  calls'[busy'[k]] # 0
        <5>1. CASE k = l
              BY <1>2, <3>1, <3>2, <5>1
        <5>2. CASE k # l
          <6>1. busy'[k] = busy[k] /\ busy[k] \in Clients
                BY <1>2, <3>1, <4>2, <5>2
          <6> QED BY <3>4, <4>2, <6>1 DEF IInv, CallInv
        <5> QED BY <5>1, <5>2
      <4>3. ASSUME NEW k \in Lanes, thread'[k] = "calling"
            PROVE  busy'[k] # None
            BY <1>2, <3>1, <3>2, <4>3 DEF IInv, CallInv
      <4> QED BY <4>1, <4>2, <4>3 DEF CallInv
    <3>6. TypeOK'
      <4>1. job' \in [Clients -> JobStates] /\ busy' \in [Lanes -> Clients \cup {None}]
            BY <1>2, <2>2, <3>1 DEF JobStates
      <4>2. /\ thread' \in [Lanes -> {"ready", "asleep", "calling", "exited"}]
            /\ calls' \in [Clients -> Nat]
            BY <1>2, <2>2, <3>1
      <4> QED BY <1>1, <3>3, <4>1, <4>2 DEF IInv, TypeOK
    <3> QED BY <1>3, <3>3, <3>5, <3>6 DEF IInv
  <2>4. CASE ~StillWanted(c)
    <3>1. /\ job' = [job EXCEPT ![c] = "Closed"] /\ busy' = busy /\ thread' = thread
          /\ calls' = calls
          BY <1>5, <2>4 DEF Dequeue
    <3> HIDE DEF c
    <3>2. job'[c] = "Closed" /\ \A d \in Clients : d # c => job'[d] = job[d] /\ calls'[d] = calls[d]
          BY <1>2, <2>2, <3>1
    <3>3. /\ QueueInv' /\ OnceInv' /\ queue' \in [Lanes -> Seq(Clients)]
          /\ \A k \in Lanes : Len(queue'[k]) <= MaxQueued
          BY <1>5, <2>1, <3>2, PopKeeps DEF c
    <3>4. CallInv'
      <4>1. \A d \in Clients : job'[d] \in {"Absent", "Reading", "Queued"} =>
                                   job[d] \in {"Absent", "Reading", "Queued"}
            BY <3>2
      <4> QED BY <3>1, <4>1, CallsStay
    <3>5. TypeOK'
      <4>1. job' \in [Clients -> JobStates]
            BY <1>2, <2>2, <3>1 DEF JobStates
      <4> QED BY <1>1, <3>1, <3>3, <4>1 DEF IInv, TypeOK
    <3> QED BY <1>3, <3>3, <3>4, <3>5 DEF IInv
  <2> QED BY <2>3, <2>4
<1> QED BY <1>4, <1>5

\* A thread that leaves its call holds no request; the request it held was called.
LEMMA LeaveCall ==
    ASSUME IInv, NEW l \in Lanes, thread[l] = "calling",
           busy' = [busy EXCEPT ![l] = None], calls' = calls,
           \A k \in Lanes : k # l /\ thread'[k] = "calling" => thread[k] = "calling",
           thread'[l] # "calling",
           \A d \in Clients : job'[d] \in {"Absent", "Reading", "Queued"} =>
                                  job[d] \in {"Absent", "Reading", "Queued"}
    PROVE  CallInv' /\ busy[l] \in Clients /\ calls[busy[l]] # 0
           /\ busy' \in [Lanes -> Clients \cup {None}]
<1>1. busy \in [Lanes -> Clients \cup {None}]
      BY DEF IInv, TypeOK
<1>2. busy[l] \in Clients /\ calls[busy[l]] # 0
      BY <1>1 DEF IInv, CallInv
<1>3. busy'[l] = None /\ \A k \in Lanes : k # l => busy'[k] = busy[k]
      BY <1>1
<1>4. CallInv'
      BY <1>3 DEF IInv, CallInv
<1> QED BY <1>1, <1>2, <1>4

LEMMA ReturnKeeps ==
    ASSUME IInv, NEW l \in Lanes, Return(l)
    PROVE  IInv'
<1> DEFINE c == busy[l]
<1>1. /\ thread[l] = "calling" /\ busy' = [busy EXCEPT ![l] = None]
      /\ thread' = [thread EXCEPT ![l] = "ready"] /\ clients' = clients /\ queue' = queue
      /\ reactor' = reactor /\ observed' = observed /\ stop' = stop /\ calls' = calls
      BY DEF Return
<1>2. \/ job[c] # "Closed" /\ (Respond(c) \/ Close(c))
      \/ job' = job /\ expired' = expired
      BY DEF Return
<1>3. /\ job \in [Clients -> JobStates] /\ expired \in [Clients -> BOOLEAN]
      /\ thread \in [Lanes -> {"ready", "asleep", "calling", "exited"}]
      BY DEF IInv, TypeOK
<1>4. c \in Clients /\ calls[c] # 0 /\ job[c] \notin {"Absent", "Reading", "Queued"}
      BY <1>1 DEF IInv, CallInv, TypeOK
<1> HIDE DEF c
<1>5. /\ job' \in [Clients -> JobStates] /\ expired' \in [Clients -> BOOLEAN]
      /\ job'[c] \notin {"Absent", "Reading", "Queued"}
      /\ \A d \in Clients : d # c => job'[d] = job[d]
  <2>1. CASE Respond(c)
        BY <1>3, <1>4, <2>1 DEF Respond, JobStates
  <2>2. CASE Close(c)
        BY <1>3, <1>4, <2>2 DEF Close, JobStates
  <2>3. CASE job' = job /\ expired' = expired
        BY <1>3, <1>4, <2>3
  <2> QED BY <1>2, <2>1, <2>2, <2>3
<1>6. \A d \in Clients : job'[d] \in {"Absent", "Reading", "Queued"} =>
                             job[d] \in {"Absent", "Reading", "Queued"}
      BY <1>5
<1>7. QueueInv' /\ OnceInv'
  <2>1. \A d \in Clients : job[d] \in {"Queued", "Closed"} /\ calls[d] = 0 =>
                               job'[d] \in {"Queued", "Closed"}
        BY <1>4, <1>5
  <2> QED BY <1>1, <2>1, QueueStays
<1>8. /\ thread' \in [Lanes -> {"ready", "asleep", "calling", "exited"}]
      /\ thread'[l] # "calling"
      /\ \A k \in Lanes : k # l /\ thread'[k] = "calling" => thread[k] = "calling"
      BY <1>1, <1>3
<1>9. CallInv' /\ busy' \in [Lanes -> Clients \cup {None}]
      BY <1>1, <1>6, <1>8, LeaveCall
<1>10. TypeOK'
      BY <1>1, <1>5, <1>8, <1>9 DEF IInv, TypeOK
<1>11. StopInv'
      BY <1>1 DEF IInv, StopInv
<1> QED BY <1>7, <1>9, <1>10, <1>11 DEF IInv

LEMMA ThrowKeeps ==
    ASSUME IInv, NEW l \in Lanes, Throw(l)
    PROVE  IInv'
<1>1. /\ thread[l] = "calling" /\ busy' = [busy EXCEPT ![l] = None]
      /\ thread' = [Wake(thread) EXCEPT ![l] = "exited"] /\ clients' = clients /\ queue' = queue
      /\ reactor' = reactor /\ observed' = observed /\ stop' = TRUE /\ calls' = calls
      /\ job' = job /\ expired' = expired
      BY DEF Throw
<1>2. /\ Wake(thread) \in [Lanes -> {"ready", "asleep", "calling", "exited"}]
      /\ \A k \in Lanes : Wake(thread)[k] = "calling" => thread[k] = "calling"
      BY WakeFacts DEF IInv, TypeOK
<1>3. /\ thread' \in [Lanes -> {"ready", "asleep", "calling", "exited"}]
      /\ thread'[l] # "calling"
      /\ \A k \in Lanes : k # l /\ thread'[k] = "calling" => thread[k] = "calling"
      BY <1>1, <1>2
<1>4. QueueInv' /\ OnceInv'
      BY <1>1, QueueStays
<1>5. CallInv' /\ busy' \in [Lanes -> Clients \cup {None}]
      BY <1>1, <1>3, LeaveCall
<1>6. TypeOK'
      BY <1>1, <1>3, <1>5 DEF IInv, TypeOK
<1>7. StopInv'
      BY <1>1 DEF StopInv
<1> QED BY <1>4, <1>5, <1>6, <1>7 DEF IInv

LEMMA JoinKeeps ==
    ASSUME IInv, JoinScheduler
    PROVE  IInv'
<1>1. /\ reactor = "exited" /\ reactor' = "joined"
      /\ job' = [c \in Clients |-> IF Contains(clients, c) THEN "Closed" ELSE job[c]]
      /\ clients' = <<>> /\ queue' = [l \in Lanes |-> <<>>] /\ expired' = expired
      /\ busy' = busy /\ thread' = thread /\ observed' = observed /\ stop' = stop
      /\ calls' = calls
      BY DEF JoinScheduler
<1>2. \A c \in Clients : job'[c] = "Closed" \/ job'[c] = job[c]
      BY <1>1
<1>3. job \in [Clients -> JobStates]
      BY DEF IInv, TypeOK
<1>4. job' \in [Clients -> JobStates]
      BY <1>1, <1>3 DEF JobStates
<1>5. CallInv'
  <2>1. \A c \in Clients : job'[c] \in {"Absent", "Reading", "Queued"} =>
                               job[c] \in {"Absent", "Reading", "Queued"}
        BY <1>2
  <2> QED BY <1>1, <2>1, CallsStay
<1>6. \A l \in Lanes : Len(queue'[l]) = 0
      BY <1>1
<1>7. QueueInv' /\ OnceInv'
      BY <1>6 DEF QueueInv, OnceInv
<1>8. TypeOK'
  <2>1. /\ queue' \in [Lanes -> Seq(Clients)] /\ clients' \in Seq(Clients)
        /\ Len(clients') = 0
        BY <1>1
  <2> QED BY <1>1, <1>4, <1>6, <2>1, SchedulerConstants DEF IInv, TypeOK
<1>9. StopInv'
      BY <1>1 DEF IInv, StopInv
<1> QED BY <1>5, <1>7, <1>8, <1>9 DEF IInv

-----------------------------------------------------------------------------
(* The theorems. *)

LEMMA InitIInv == Init => IInv
<1> SUFFICES ASSUME Init PROVE IInv
    OBVIOUS
<1>1. /\ job \in [Clients -> JobStates] /\ expired \in [Clients -> BOOLEAN]
      /\ busy \in [Lanes -> Clients \cup {None}] /\ calls \in [Clients -> Nat]
      /\ thread \in [Lanes -> {"ready", "asleep", "calling", "exited"}]
      BY DEF Init, JobStates
<1>2. /\ clients \in Seq(Clients) /\ Len(clients) = 0 /\ observed \in Seq(Clients)
      /\ queue \in [Lanes -> Seq(Clients)] /\ \A l \in Lanes : Len(queue[l]) = 0
      BY DEF Init
<1>3. TypeOK
  <2>1. /\ reactor \in {"collect", "poll", "polled", "serving", "exited", "joined"}
        /\ stop \in BOOLEAN
        BY DEF Init
  <2>2. Len(clients) <= MaxConnections /\ \A l \in Lanes : Len(queue[l]) <= MaxQueued
        BY <1>2, SchedulerConstants
  <2> QED BY <1>1, <1>2, <2>1, <2>2 DEF TypeOK
<1>4. QueueInv /\ OnceInv
      BY <1>2 DEF QueueInv, OnceInv
<1>5. /\ \A c \in Clients : calls[c] = 0
      /\ \A l \in Lanes : busy[l] = None /\ thread[l] = "ready"
      BY DEF Init
<1>6. CallInv
      BY <1>5 DEF CallInv
<1>7. StopInv
      BY DEF Init, StopInv
<1> QED BY <1>3, <1>4, <1>6, <1>7 DEF IInv

LEMMA NextIInv == IInv /\ [Next]_vars => IInv'
<1> SUFFICES ASSUME IInv, [Next]_vars PROVE IInv'
    OBVIOUS
<1>1. CASE Collect
      BY <1>1, CollectKeeps
<1>2. CASE PollReturns \/ ServeEnds \/ RequestSchedulerStop
      BY <1>2, PollKeeps
<1>3. CASE Serve
      BY <1>3, ServeKeeps
<1>4. CASE ReactorExits(FALSE) \/ ReactorExits(TRUE)
      BY <1>4, ReactorExitsKeeps
<1>5. ASSUME NEW c \in Clients, Accept(c) \/ DeadlinePasses(c)
      PROVE  IInv'
      BY <1>5, AcceptKeeps, PollKeeps
<1>6. ASSUME NEW l \in Lanes, Dequeue(l) \/ Return(l) \/ Throw(l) \/ LaneExits(l)
      PROVE  IInv'
      BY <1>6, DequeueKeeps, ReturnKeeps, ThrowKeeps, PollKeeps
<1>7. CASE JoinScheduler
      BY <1>7, JoinKeeps
<1>8. CASE UNCHANGED vars
      BY <1>8 DEF vars, IInv, TypeOK, QueueInv, Waiting, OnceInv, CallInv, StopInv
<1> QED BY <1>1, <1>2, <1>3, <1>4, <1>5, <1>6, <1>7, <1>8 DEF Next, Reactor

\* The queues of the scheduler (unix_execution_service_scheduler.cpp) only ever
\* hold requests that were never handed to the authority, each of them once and in
\* the lane its operation belongs to; a thread that is in a call holds its request;
\* and the reactor never ends without the stop flag.
THEOREM SchedulerInvariant == Spec => []IInv
BY InitIInv, NextIInv, PTL DEF Spec

\* The connection table and the three lanes stay within their limits.
THEOREM SchedulerTypes == Spec => []TypeOK
<1>1. IInv => TypeOK
      BY DEF IInv
<1> QED BY <1>1, SchedulerInvariant, PTL

LEMMA CallsStep ==
    ASSUME IInv, [Next]_vars, NEW c \in Clients, calls'[c] # calls[c]
    PROVE  job[c] = "Queued" /\ calls[c] = 0 /\ calls'[c] = 1
<1>1. \/ calls' = calls
      \/ \E l \in Lanes : Dequeue(l)
      BY DEF Next, Reactor, Collect, PollReturns, Serve, ServeEnds, ReactorExits, Accept,
             DeadlinePasses, Return, Throw, LaneExits, RequestSchedulerStop, JoinScheduler, vars
<1>2. PICK l \in Lanes : Dequeue(l)
      BY <1>1
<1>3. /\ queue[l] # <<>> /\ StillWanted(Head(queue[l]))
      /\ calls' = [calls EXCEPT ![Head(queue[l])] = @ + 1]
      BY <1>2 DEF Dequeue
<1>4. Head(queue[l]) \in Clients /\ Waiting(l, Head(queue[l]))
      BY <1>3, FrontOfLane
<1>5. calls \in [Clients -> Nat]
      BY DEF IInv, TypeOK
<1>6. c = Head(queue[l])
      BY <1>3, <1>4, <1>5
<1> QED BY <1>3, <1>4, <1>5, <1>6 DEF Waiting, StillWanted

\* An authority thread calls the handler for a request at most once, and only for a
\* request that is still queued: never for one that was closed or that overran its
\* deadline while it waited.
THEOREM RequestsDispatchedOnce == Spec => DispatchedOnce
<1>1. IInv /\ [Next]_vars =>
        [\A c \in Clients :
            calls'[c] # calls[c] => job[c] = "Queued" /\ calls[c] = 0 /\ calls'[c] = 1]_vars
      BY CallsStep
<1> QED BY <1>1, SchedulerInvariant, PTL DEF Spec, DispatchedOnce

LEMMA ReplyStep ==
    ASSUME IInv, [Next]_vars, NEW c \in Clients, job[c] = "Executing", job'[c] # "Executing"
    PROVE  stop' \/ \E l \in Lanes : busy[l] = c /\ busy'[l] = None
<1>1. job \in [Clients -> JobStates] /\ observed \in Seq(Clients)
      /\ busy \in [Lanes -> Clients \cup {None}]
      BY DEF IInv, TypeOK
<1>2. CASE Collect
      BY <1>2 DEF Collect, Overdue
<1>3. CASE PollReturns \/ ServeEnds \/ RequestSchedulerStop \/ UNCHANGED vars
      BY <1>3 DEF PollReturns, ServeEnds, RequestSchedulerStop, vars
<1>4. CASE Serve
  <2> DEFINE d == Head(observed)
  <2>1. d \in Clients
        BY <1>1, <1>4 DEF Serve
  <2>2. /\ job[d] \in {"Reading", "Writing", "Closed"}
        /\ \A e \in Clients : e # d => job'[e] = job[e]
    <3>1. CASE ReceiveClient(d)
          BY <1>1, <2>1, <3>1 DEF ReceiveClient, Close, Respond, Enqueue
    <3>2. CASE WriteClient(d)
          BY <1>1, <2>1, <3>2 DEF WriteClient, Close
    <3> QED BY <1>4, <3>1, <3>2 DEF Serve
  <2> QED BY <2>1, <2>2
<1>5. CASE ReactorExits(FALSE) \/ ReactorExits(TRUE)
      BY <1>5 DEF ReactorExits
<1>6. ASSUME NEW d \in Clients, Accept(d) \/ DeadlinePasses(d)
      PROVE  FALSE
  <2>1. CASE Accept(d)
        BY <1>1, <2>1 DEF Accept
  <2>2. CASE DeadlinePasses(d)
        BY <2>2 DEF DeadlinePasses
  <2> QED BY <1>6, <2>1, <2>2
<1>7. ASSUME NEW l \in Lanes, Dequeue(l)
      PROVE  FALSE
  <2>1. CASE queue[l] = <<>>
        BY <1>7, <2>1 DEF Dequeue
  <2>2. CASE queue[l] # <<>>
    <3> DEFINE d == Head(queue[l])
    <3>1. d \in Clients /\ job[d] # "Executing"
          BY <2>2, FrontOfLane DEF Waiting
    <3>2. job' = [job EXCEPT ![d] = "Executing"] \/ job' = [job EXCEPT ![d] = "Closed"]
          BY <1>7, <2>2 DEF Dequeue
    <3> QED BY <1>1, <3>1, <3>2
  <2> QED BY <2>1, <2>2
<1>8. ASSUME NEW l \in Lanes, Return(l)
      PROVE  busy[l] = c /\ busy'[l] = None
  <2>1. busy' = [busy EXCEPT ![l] = None]
        BY <1>8 DEF Return
  <2>2. CASE busy[l] # c
    <3>1. job'[c] = job[c]
          BY <1>1, <1>8, <2>2 DEF Return, Respond, Close
    <3> QED BY <3>1
  <2> QED BY <1>1, <2>1, <2>2
<1>9. ASSUME NEW l \in Lanes, Throw(l) \/ LaneExits(l)
      PROVE  FALSE
      BY <1>9 DEF Throw, LaneExits
<1>10. CASE JoinScheduler
      BY <1>10 DEF JoinScheduler, IInv, StopInv
<1> QED BY <1>2, <1>3, <1>4, <1>5, <1>6, <1>7, <1>8, <1>9, <1>10 DEF Next, Reactor

\* Once a request is executing its reply channel outlives every deadline: it is
\* given up only by the end of its own call or by a stop of the service.
THEOREM ExecutingRepliesKept == Spec => ExecutingReplyKept
<1>1. IInv /\ [Next]_vars =>
        [\A c \in Clients : job[c] = "Executing" /\ job'[c] # "Executing" =>
            stop' \/ \E l \in Lanes : busy[l] = c /\ busy'[l] = None]_vars
      BY ReplyStep
<1> QED BY <1>1, SchedulerInvariant, PTL DEF Spec, ExecutingReplyKept

=============================================================================
