---------------------------- MODULE ServiceScheduler ----------------------------
(* The execution service's request scheduler (UnixExecutionServiceServer): one *)
(* reactor thread reads frames and writes replies; three authority threads,    *)
(* one per lane, take decoded requests from bounded FIFO queues and call the   *)
(* execution authority without holding m_schedulerMutex.                       *)
(*                                                                             *)
(* A step is one critical section of m_schedulerMutex.  The reactor keeps the  *)
(* mutex while it serves the descriptors it polled ("serving"), so the lanes   *)
(* wait.  Time is a flag: a job's deadline may pass at any moment.             *)
EXTENDS Integers, Sequences, SequencesExt

CONSTANTS Clients,         \* the connections peers may open, each used once
          Operation,       \* the operation each connection's request asks for
          MaxConnections,  \* kMaxConnections
          MaxQueued,       \* kMaxQueuedPerLane
          None             \* no job

ASSUME SchedulerConstants ==
    MaxConnections \in Nat /\ MaxQueued \in Nat /\ None \notin Clients

Lanes == {"control", "exit", "command"}

VARIABLES job,        \* ClientJob::state, "Absent" before the connection
          expired,    \* the deadline of the job's present phase has passed
          clients,    \* m_clients
          queue,      \* m_controlQueue, m_exitQueue, m_commandQueue
          busy,       \* the job each authority thread is executing
          thread,     \* where each authority thread is
          reactor,    \* where the reactor thread is
          observed,   \* the descriptors polled and not yet served
          stop,       \* m_stop
          calls       \* how often each job's request reached the authority

vars == <<job, expired, clients, queue, busy, thread, reactor, observed, stop, calls>>

JobStates == {"Absent", "Reading", "Queued", "Executing", "Writing", "Closed"}

TypeOK ==
    /\ job \in [Clients -> JobStates]
    /\ expired \in [Clients -> BOOLEAN]
    /\ clients \in Seq(Clients) /\ Len(clients) <= MaxConnections
    /\ queue \in [Lanes -> Seq(Clients)]
    /\ \A l \in Lanes : Len(queue[l]) <= MaxQueued
    /\ busy \in [Lanes -> Clients \cup {None}]
    /\ thread \in [Lanes -> {"ready", "asleep", "calling", "exited"}]
    /\ reactor \in {"collect", "poll", "polled", "serving", "exited", "joined"}
    /\ observed \in Seq(Clients)
    /\ stop \in BOOLEAN
    /\ calls \in [Clients -> Nat]

Init ==
    /\ job = [c \in Clients |-> "Absent"]
    /\ expired = [c \in Clients |-> FALSE]
    /\ clients = <<>> /\ observed = <<>>
    /\ queue = [l \in Lanes |-> <<>>]
    /\ busy = [l \in Lanes |-> None]
    /\ thread = [l \in Lanes |-> "ready"]
    /\ reactor = "collect"
    /\ stop = FALSE
    /\ calls = [c \in Clients |-> 0]

-----------------------------------------------------------------------------
(* Which queue a decoded request joins.                                        *)

ControlOperations ==
    {"GetServiceIdentity", "QueryCommandStatus", "RecoveryQueryCommandStatus",
     "FenceSessionOwner", "FenceAccountNewEntries", "ReleaseSessionOwnerFence"}

ExitOperations == {"CancelIbOrder", "FlattenPosition"}

\* Fault: guarded exits share the short control lane.
ExitsWithControl(operation) ==
    IF operation \in ControlOperations \cup ExitOperations THEN "control" ELSE "command"

Lane(operation) ==
    CASE operation \in ControlOperations -> "control"
      [] operation \in ExitOperations -> "exit"
      [] OTHER -> "command"

Wake(threads) == [l \in Lanes |-> IF threads[l] = "asleep" THEN "ready" ELSE threads[l]]

\* The mutex is free for the authority threads.
MutexFree == reactor # "serving"

-----------------------------------------------------------------------------
(* The reactor: AcceptLoop.                                                    *)

\* Fault: an overdue job is closed although its request is executing.
OverdueAnywhere(c) == expired[c] /\ job[c] # "Absent"

Overdue(c) == expired[c] /\ job[c] \in {"Reading", "Queued", "Writing"}

\* t has the entries of s that are in S, in their order.
Filters(s, S, t) ==
    /\ ToSet(t) = ToSet(s) \cap S
    /\ \A i, j \in 1 .. Len(t) : i < j =>
          \E m, n \in 1 .. Len(s) : m < n /\ t[i] = s[m] /\ t[j] = s[n]

\* Overdue jobs are closed, closed ones leave the table, and the others that wait
\* for their peer are polled.
Collect ==
    /\ reactor = "collect"
    /\ job' = [c \in Clients |-> IF Overdue(c) THEN "Closed" ELSE job[c]]
    /\ \E kept, polled \in SeqOf(Clients, MaxConnections) :
          /\ Filters(clients, { c \in Clients : job'[c] # "Closed" }, kept)
          /\ Filters(clients, { c \in Clients : job'[c] \in {"Reading", "Writing"} }, polled)
          /\ clients' = kept /\ observed' = polled
    /\ reactor' = "poll"
    /\ UNCHANGED <<expired, queue, busy, thread, stop, calls>>

\* poll() returned and m_stop was not set; the mutex is taken afterwards.
PollReturns ==
    /\ \/ reactor = "poll" /\ ~stop /\ reactor' = "polled"
       \/ reactor = "polled" /\ reactor' = "serving"
    /\ UNCHANGED <<job, expired, clients, queue, busy, thread, observed, stop, calls>>

\* The loop ends on a stop, a failed poll or an exception while it serves, and
\* closes every client it still has.
ReactorExits(failed) ==
    /\ \/ ~failed /\ stop /\ reactor \in {"collect", "poll"}
       \/ failed /\ reactor \in {"poll", "serving"}
    /\ stop' = TRUE
    /\ thread' = IF failed THEN Wake(thread) ELSE thread
    /\ reactor' = "exited"
    /\ observed' = <<>>
    /\ job' = [c \in Clients |-> IF Contains(clients, c) THEN "Closed" ELSE job[c]]
    /\ UNCHANGED <<expired, clients, queue, busy, calls>>

\* SetResponse: the reply has a write window of its own.
Respond(c) ==
    /\ job' = [job EXCEPT ![c] = "Writing"]
    /\ expired' = [expired EXCEPT ![c] = FALSE]

Close(c) == job' = [job EXCEPT ![c] = "Closed"] /\ UNCHANGED expired

\* Fault: a full lane takes one more request.
EnqueueAnyway(c) ==
    LET l == Lane(Operation[c]) IN
    /\ job' = [job EXCEPT ![c] = "Queued"]
    /\ expired' = [expired EXCEPT ![c] = FALSE]
    /\ queue' = [queue EXCEPT ![l] = Append(@, c)]
    /\ thread' = Wake(thread)

\* A complete frame decodes and joins its lane, if the lane has room.
Enqueue(c) ==
    LET l == Lane(Operation[c]) IN
    IF Len(queue[l]) >= MaxQueued
    THEN Close(c) /\ UNCHANGED <<queue, thread>>
    ELSE /\ job' = [job EXCEPT ![c] = "Queued"]
         /\ expired' = [expired EXCEPT ![c] = FALSE]
         /\ queue' = [queue EXCEPT ![l] = Append(@, c)]
         /\ thread' = Wake(thread)

\* ReceiveClient on a polled descriptor: nothing complete yet, the peer closed
\* or sent a bad length, the request does not decode, or it is queued.
ReceiveClient(c) ==
    /\ job[c] = "Reading"
    /\ \/ UNCHANGED <<job, expired, queue, thread>>
       \/ Close(c) /\ UNCHANGED <<queue, thread>>
       \/ Respond(c) /\ UNCHANGED <<queue, thread>>
       \/ Enqueue(c)

\* WriteClient, or a hangup: the reply needs more room, or the client is closed.
WriteClient(c) ==
    /\ job[c] = "Writing"
    /\ (Close(c) \/ UNCHANGED <<job, expired>>)
    /\ UNCHANGED <<queue, thread>>

Serve ==
    /\ reactor = "serving" /\ observed # <<>>
    /\ LET c == Head(observed) IN
       \/ ReceiveClient(c)
       \/ WriteClient(c)
       \/ job[c] = "Closed" /\ UNCHANGED <<job, expired, queue, thread>>
    /\ observed' = Tail(observed)
    /\ UNCHANGED <<clients, busy, reactor, stop, calls>>

\* After the polled descriptors: accept a connection, unless the table is full.
Accept(c) ==
    /\ reactor = "serving" /\ observed = <<>>
    /\ job[c] = "Absent" /\ Len(clients) < MaxConnections
    /\ job' = [job EXCEPT ![c] = "Reading"]
    /\ clients' = Append(clients, c)
    /\ UNCHANGED <<expired, queue, busy, thread, reactor, observed, stop, calls>>

ServeEnds ==
    /\ reactor = "serving" /\ observed = <<>>
    /\ reactor' = "collect"
    /\ UNCHANGED <<job, expired, clients, queue, busy, thread, observed, stop, calls>>

DeadlinePasses(c) ==
    /\ job[c] \notin {"Absent", "Closed"} /\ ~expired[c]
    /\ expired' = [expired EXCEPT ![c] = TRUE]
    /\ UNCHANGED <<job, clients, queue, busy, thread, reactor, observed, stop, calls>>

-----------------------------------------------------------------------------
(* The authority threads: AuthorityLoop.                                       *)

\* Fault: a popped job is executed although its client was closed in the queue.
StillWantedUnchecked(c) == TRUE

StillWanted(c) == job[c] # "Closed" /\ ~expired[c]

\* Waiting for a request, taking the front one or dropping it if it is closed
\* or overdue.
Dequeue(l) ==
    /\ thread[l] = "ready" /\ ~stop /\ MutexFree
    /\ IF queue[l] = <<>>
       THEN /\ thread' = [thread EXCEPT ![l] = "asleep"]
            /\ UNCHANGED <<job, queue, busy, calls>>
       ELSE LET c == Head(queue[l]) IN
            /\ queue' = [queue EXCEPT ![l] = Tail(@)]
            /\ IF StillWanted(c)
               THEN /\ job' = [job EXCEPT ![c] = "Executing"]
                    /\ busy' = [busy EXCEPT ![l] = c]
                    /\ thread' = [thread EXCEPT ![l] = "calling"]
                    /\ calls' = [calls EXCEPT ![c] = @ + 1]
               ELSE /\ job' = [job EXCEPT ![c] = "Closed"]
                    /\ UNCHANGED <<busy, thread, calls>>
    /\ UNCHANGED <<expired, clients, reactor, observed, stop>>

\* HandleRequest returned: the reply is set unless the service is stopping, or
\* the response cannot be framed, which closes the client.
Return(l) ==
    /\ thread[l] = "calling" /\ MutexFree
    /\ LET c == busy[l] IN
       IF ~stop /\ job[c] # "Closed"
       THEN Respond(c) \/ Close(c)
       ELSE UNCHANGED <<job, expired>>
    /\ busy' = [busy EXCEPT ![l] = None]
    /\ thread' = [thread EXCEPT ![l] = "ready"]
    /\ UNCHANGED <<clients, queue, reactor, observed, stop, calls>>

\* HandleRequest threw: RequestSchedulerStop, and this lane ends.
Throw(l) ==
    /\ thread[l] = "calling" /\ MutexFree
    /\ stop' = TRUE
    /\ busy' = [busy EXCEPT ![l] = None]
    /\ thread' = [Wake(thread) EXCEPT ![l] = "exited"]
    /\ UNCHANGED <<job, expired, clients, queue, reactor, observed, calls>>

LaneExits(l) ==
    /\ thread[l] = "ready" /\ stop
    /\ thread' = [thread EXCEPT ![l] = "exited"]
    /\ UNCHANGED <<job, expired, clients, queue, busy, reactor, observed, stop, calls>>

-----------------------------------------------------------------------------
\* Fault: the stop flag is set and the sleeping lanes are not notified.
StopUnannounced ==
    /\ ~stop /\ MutexFree
    /\ stop' = TRUE
    /\ UNCHANGED <<job, expired, clients, queue, busy, thread, reactor, observed, calls>>

\* Stop() from outside.
RequestSchedulerStop ==
    /\ ~stop /\ MutexFree
    /\ stop' = TRUE
    /\ thread' = Wake(thread)
    /\ UNCHANGED <<job, expired, clients, queue, busy, reactor, observed, calls>>

JoinScheduler ==
    /\ reactor = "exited" /\ \A l \in Lanes : thread[l] = "exited"
    /\ reactor' = "joined"
    /\ job' = [c \in Clients |-> IF Contains(clients, c) THEN "Closed" ELSE job[c]]
    /\ clients' = <<>>
    /\ queue' = [l \in Lanes |-> <<>>]
    /\ UNCHANGED <<expired, busy, thread, observed, stop, calls>>

Reactor ==
    \/ Collect \/ PollReturns \/ Serve \/ ServeEnds
    \/ ReactorExits(FALSE)

Next ==
    \/ Reactor \/ ReactorExits(TRUE)
    \/ \E c \in Clients : Accept(c) \/ DeadlinePasses(c)
    \/ \E l \in Lanes : Dequeue(l) \/ Return(l) \/ Throw(l) \/ LaneExits(l)
    \/ RequestSchedulerStop \/ JoinScheduler

\* The authority call of a control operation returns.
ControlReturns ==
    \E l \in Lanes : busy[l] # None /\ Operation[busy[l]] \in ControlOperations /\ Return(l)

(* The threads are scheduled.  A lane gets the mutex that the reactor releases *)
(* on every round, while it polls (strong fairness), and the authority calls   *)
(* of control operations return: they are local snapshot and control calls.    *)
(* Exits and commands may do venue I/O and are not assumed to return.          *)
Fairness ==
    /\ WF_vars(Reactor) /\ WF_vars(JoinScheduler)
    /\ \A l \in Lanes : SF_vars(Dequeue(l)) /\ WF_vars(LaneExits(l))
    /\ SF_vars(ControlReturns)

Spec == Init /\ [][Next]_vars /\ Fairness

-----------------------------------------------------------------------------
\* A request reaches the authority at most once, and only while its client is
\* open: one that was closed while it sat in the queue (deadline, hangup) is
\* dropped by AuthorityLoop, so a caller told "transport failure" before the
\* dispatch is right that nothing was executed.
DispatchedOnce ==
    [][\A c \in Clients :
        calls'[c] # calls[c] => job[c] = "Queued" /\ calls[c] = 0 /\ calls'[c] = 1]_vars

\* Once a request is executing no deadline closes its reply channel; only the
\* end of the call or the end of the service does.
ExecutingReplyKept ==
    [][\A c \in Clients : job[c] = "Executing" /\ job'[c] # "Executing" =>
            stop' \/ \E l \in Lanes : busy[l] = c /\ busy'[l] = None]_vars

\* A queued fence, fence release or status query is taken from its queue although
\* the exit and command lanes may be stuck in venue calls for ever.
ControlServed ==
    \A c \in Clients :
        (job[c] = "Queued" /\ Operation[c] \in ControlOperations) ~> (job[c] # "Queued")

\* When every authority call returns, a stop ends the four threads and closes
\* every client: no lane sleeps through the stop.
StopDrains ==
    (\A l \in Lanes : []<>(busy[l] = None)) =>
        (stop ~> (reactor = "joined" /\ \A c \in Clients : job[c] \in {"Absent", "Closed"}))

=============================================================================
