------------------------ MODULE NotificationDelivery ------------------------
(***************************************************************************)
(* How a notification reaches a browser: a transaction stores it, and the  *)
(* server pushes it over the receiver's SSE streams.                       *)
(*                                                                         *)
(*   - a publisher inserts the row; its transaction commits or rolls back; *)
(*   - a published event is handed, after the commit, to a bounded thread  *)
(*     pool (notiExecutor), whose threads send it; a direct message is     *)
(*     sent by the request thread, inside its transaction;                 *)
(*   - a stream (SseEmitter) is registered first and then sent what its    *)
(*     client missed since the last event id it has seen.                  *)
(*                                                                         *)
(* Note n is both a row and the transaction that inserts it; ids come from *)
(* one AUTO_INCREMENT counter, so they follow the order of the inserts and *)
(* not the order of the commits.                                           *)
(***************************************************************************)
EXTENDS FiniteSets, Naturals, Sequences

CONSTANTS
    Users,
    Emitters,        \* the streams ever opened
    Kinds,           \* which publishers run: event, dm, subscription
    MaxNotes,        \* how many notifications are ever stored
    Core, MaxPool,   \* threads of notiExecutor (4 and 8)
    QueueCapacity,   \* its waiting tasks (1000)
    ReplayLimit,     \* rows a reconnect reads (100)
    MaxCrashes,      \* how often the server may restart
    None

Notes == 1..MaxNotes

ASSUME DeliveryAssumption ==
    /\ Kinds \subseteq {"event", "dm", "subscription"}
    /\ MaxNotes \in Nat /\ QueueCapacity \in Nat /\ MaxCrashes \in Nat
    /\ Core \in Nat \ {0} /\ MaxPool \in Nat /\ Core <= MaxPool
    /\ ReplayLimit \in Nat \ {0}
    /\ None \notin Users \cup Notes

VARIABLES
    tx,          \* state of each row's transaction
    kind, to,    \* publisher and receiver of each row
    job,         \* progress of the push of each row
    targets,     \* streams the push has still to write to
    queue,       \* tasks waiting in the pool
    poolSize,    \* threads of the pool
    registered,  \* the streams in SseEmitterRepository.data
    user,        \* receiver of each stream
    conn,        \* state of each stream
    phase,       \* progress of the connect request of each stream
    lastId,      \* the lastEventId parameter of that request
    replay,      \* missed rows still to be written
    written,     \* ids written to each stream, in order
    read,        \* how many of them the client has read
    before,      \* history: rows committed before the stream was registered
    crashes

rows    == <<tx, kind, to>>
push    == <<job, targets, queue, poolSize>>
streams == <<registered, user, conn, phase, lastId, replay, written, read, before>>
vars == <<tx, kind, to, job, targets, queue, poolSize, registered, user, conn,
          phase, lastId, replay, written, read, before, crashes>>

TypeOK ==
    /\ tx \in [Notes -> {"none", "open", "committed", "rolledBack", "deleted"}]
    /\ kind \in [Notes -> Kinds \cup {None}]
    /\ to \in [Notes -> Users \cup {None}]
    /\ job \in [Notes -> {"none", "queued", "running", "sending", "done",
                          "rejected", "lost"}]
    /\ targets \in [Notes -> SUBSET Emitters]
    /\ queue \in Seq(Notes) /\ Len(queue) <= QueueCapacity
    /\ poolSize \in 0..MaxPool
    /\ registered \subseteq Emitters
    /\ user \in [Emitters -> Users \cup {None}]
    /\ conn \in [Emitters -> {"unused", "open", "gone", "failed", "closed"}]
    /\ phase \in [Emitters -> {"none", "query", "replay", "ready"}]
    /\ lastId \in [Emitters -> Notes \cup {None}]
    /\ replay \in [Emitters -> SUBSET Notes]
    /\ written \in [Emitters -> Seq(Notes)]
    /\ read \in [Emitters -> Nat]
    /\ before \in [Emitters -> SUBSET Notes]
    /\ crashes \in 0..MaxCrashes

Init ==
    /\ tx = [n \in Notes |-> "none"]
    /\ kind = [n \in Notes |-> None]
    /\ to = [n \in Notes |-> None]
    /\ job = [n \in Notes |-> "none"]
    /\ targets = [n \in Notes |-> {}]
    /\ queue = <<>>
    /\ poolSize = 0
    /\ registered = {}
    /\ user = [e \in Emitters |-> None]
    /\ conn = [e \in Emitters |-> "unused"]
    /\ phase = [e \in Emitters |-> "none"]
    /\ lastId = [e \in Emitters |-> None]
    /\ replay = [e \in Emitters |-> {}]
    /\ written = [e \in Emitters |-> <<>>]
    /\ read = [e \in Emitters |-> 0]
    /\ before = [e \in Emitters |-> {}]
    /\ crashes = 0

Ids(s) == {s[i] : i \in 1..Len(s)}

-----------------------------------------------------------------------------
(* Publishers.                                                              *)

\* notificationRepository.save inside the publisher's transaction.
Insert(n, u, k) ==
    /\ tx[n] = "none"
    /\ \A m \in Notes : m < n => tx[m] # "none"
    /\ tx' = [tx EXCEPT ![n] = "open"]
    /\ kind' = [kind EXCEPT ![n] = k]
    /\ to' = [to EXCEPT ![n] = u]
    /\ UNCHANGED <<push, streams, crashes>>

\* The streams findAllByReceiverIdsIn returns for the receiver of row n.
EmittersOf(u) == {e \in registered : user[e] = u}

\* The push of row n looks up the streams it will write to.
StartSending(n) ==
    /\ targets' = [targets EXCEPT ![n] = EmittersOf(to[n])]
    /\ job' = [job EXCEPT ![n] = IF EmittersOf(to[n]) = {} THEN "done" ELSE "sending"]

\* DmService.saveMessage calls SseService.send before its transaction commits.
DmSend(n) ==
    /\ kind[n] = "dm" /\ tx[n] = "open" /\ job[n] = "none"
    /\ StartSending(n)
    /\ UNCHANGED <<rows, queue, poolSize, streams, crashes>>

Commit(n) ==
    /\ tx[n] = "open"
    /\ kind[n] = "dm" => job[n] = "done"
    /\ tx' = [tx EXCEPT ![n] = "committed"]
    /\ UNCHANGED <<kind, to, push, streams, crashes>>

Rollback(n) ==
    /\ tx[n] = "open"
    /\ job[n] # "sending"
    /\ tx' = [tx EXCEPT ![n] = "rolledBack"]
    /\ UNCHANGED <<kind, to, push, streams, crashes>>

\* NotificationService.delete.
Delete(n) ==
    /\ tx[n] = "committed"
    /\ tx' = [tx EXCEPT ![n] = "deleted"]
    /\ UNCHANGED <<kind, to, push, streams, crashes>>

-----------------------------------------------------------------------------
(* The pool: a task gets a new thread while there are fewer than Core, then *)
(* a place in the queue, then a new thread up to MaxPool, and is refused    *)
(* when there is none of these.                                             *)

Submit(n) ==
    \/ /\ poolSize < Core \/ (Len(queue) = QueueCapacity /\ poolSize < MaxPool)
       /\ poolSize' = poolSize + 1
       /\ job' = [job EXCEPT ![n] = "running"]
       /\ UNCHANGED queue
    \/ /\ poolSize >= Core /\ Len(queue) < QueueCapacity
       /\ queue' = Append(queue, n)
       /\ job' = [job EXCEPT ![n] = "queued"]
       /\ UNCHANGED poolSize
    \/ /\ poolSize = MaxPool /\ Len(queue) = QueueCapacity
       /\ job' = [job EXCEPT ![n] = "rejected"]
       /\ UNCHANGED <<queue, poolSize>>

\* Mutation: the listener runs when the event is published.
AfterCommitEagerly(n) ==
    /\ tx[n] # "none"
    /\ kind[n] = "event" /\ job[n] = "none"
    /\ Submit(n)
    /\ UNCHANGED <<rows, targets, streams, crashes>>

\* The listener fires for NotificationCreatedEvent only; a subscription is
\* published as a bare NotificationDto.
AfterCommit(n) ==
    /\ tx[n] \in {"committed", "deleted"}
    /\ kind[n] = "event" /\ job[n] = "none"
    /\ Submit(n)
    /\ UNCHANGED <<rows, targets, streams, crashes>>

Busy == {n \in Notes : kind[n] # "dm" /\ job[n] \in {"running", "sending"}}

\* Mutation: the pool loses the task at the head of its queue.
TakeDrops ==
    /\ queue # <<>>
    /\ Cardinality(Busy) < poolSize
    /\ queue' = Tail(queue)
    /\ UNCHANGED <<rows, job, targets, poolSize, streams, crashes>>

Take ==
    /\ queue # <<>>
    /\ Cardinality(Busy) < poolSize
    /\ queue' = Tail(queue)
    /\ job' = [job EXCEPT ![Head(queue)] = "running"]
    /\ UNCHANGED <<rows, targets, poolSize, streams, crashes>>

\* A thread beyond Core ends after its idle time.
Retire ==
    /\ queue = <<>>
    /\ poolSize > Core /\ Cardinality(Busy) < poolSize
    /\ poolSize' = poolSize - 1
    /\ UNCHANGED <<rows, job, targets, queue, streams, crashes>>

-----------------------------------------------------------------------------
(* SseService.send.                                                         *)

LookUp(n) ==
    /\ job[n] = "running"
    /\ StartSending(n)
    /\ UNCHANGED <<rows, queue, poolSize, streams, crashes>>

\* emitter.send: until the connect request has returned it only fills a
\* buffer; then the write to a client that has left may fail, and the
\* emitter completes with the error. A completed emitter takes nothing.
Write(e, n) ==
    \/ /\ conn[e] = "open"
       /\ written' = [written EXCEPT ![e] = Append(@, n)]
       /\ UNCHANGED conn
    \/ /\ conn[e] # "open"
       /\ UNCHANGED <<written, conn>>
    \/ /\ conn[e] = "gone" /\ phase[e] = "ready"
       /\ conn' = [conn EXCEPT ![e] = "failed"]
       /\ UNCHANGED written

Send(n, e) ==
    /\ job[n] = "sending" /\ e \in targets[n]
    /\ Write(e, n)
    /\ targets' = [targets EXCEPT ![n] = @ \ {e}]
    /\ job' = [job EXCEPT ![n] = IF targets[n] = {e} THEN "done" ELSE @]
    /\ UNCHANGED <<rows, queue, poolSize, registered, user, phase, lastId, replay,
                   read, before, crashes>>

-----------------------------------------------------------------------------
(* Streams.                                                                 *)

\* The event id a browser resumes stream e from (its EventSource remembers it).
ResumeId(e) == IF read[e] = 0 THEN lastId[e] ELSE written[e][read[e]]

\* SseService.connect up to the query: the emitter is in the repository from
\* here on. A browser that has seen no id yet sends no lastEventId.
Connect(e, u, last) ==
    /\ conn[e] = "unused"
    /\ conn' = [conn EXCEPT ![e] = "open"]
    /\ registered' = registered \cup {e}
    /\ user' = [user EXCEPT ![e] = u]
    /\ lastId' = [lastId EXCEPT ![e] = last]
    /\ phase' = [phase EXCEPT ![e] = IF last = None THEN "ready" ELSE "query"]
    /\ before' = [before EXCEPT ![e] = {n \in Notes : tx[n] = "committed"}]
    /\ UNCHANGED <<rows, push, replay, written, read, crashes>>

FirstConnect(e, u) == Connect(e, u, None)

\* The browser lost stream old, or its end, and opens e in its place.
Reconnect(e, old) ==
    /\ conn[old] \in {"gone", "failed", "closed"}
    /\ Connect(e, user[old], ResumeId(old))

\* findTop100ByUserIdAndIdGreaterThanOrderByIdAsc.
Missed(e) == {n \in Notes : tx[n] = "committed" /\ to[n] = user[e] /\ n > lastId[e]}

\* Mutation: the page holds the newest missed rows.
QueryNewest(e) ==
    /\ phase[e] = "query"
    /\ replay' = [replay EXCEPT ![e] =
           {n \in Missed(e) : Cardinality({m \in Missed(e) : m > n}) < ReplayLimit}]
    /\ phase' = [phase EXCEPT ![e] = "replay"]
    /\ UNCHANGED <<rows, push, registered, user, conn, lastId, written, read, before,
                   crashes>>

Query(e) ==
    /\ phase[e] = "query"
    /\ replay' = [replay EXCEPT ![e] =
           {n \in Missed(e) : Cardinality({m \in Missed(e) : m < n}) < ReplayLimit}]
    /\ phase' = [phase EXCEPT ![e] = "replay"]
    /\ UNCHANGED <<rows, push, registered, user, conn, lastId, written, read, before,
                   crashes>>

\* The query throws: completeWithError and delete.
QueryFails(e) ==
    /\ phase[e] = "query"
    /\ phase' = [phase EXCEPT ![e] = "ready"]
    /\ conn' = [conn EXCEPT ![e] = "closed"]
    /\ registered' = registered \ {e}
    /\ UNCHANGED <<rows, push, user, lastId, replay, written, read, before, crashes>>

Replay(e) ==
    /\ phase[e] = "replay"
    /\ \E n \in replay[e] :
           /\ \A m \in replay[e] : n <= m
           /\ Write(e, n)
           /\ replay' = [replay EXCEPT ![e] = @ \ {n}]
    /\ UNCHANGED <<rows, push, registered, user, phase, lastId, read, before, crashes>>

\* The request returns and the buffered events go out.
ConnectReturns(e) ==
    /\ phase[e] = "replay" /\ replay[e] = {}
    /\ phase' = [phase EXCEPT ![e] = "ready"]
    /\ UNCHANGED <<rows, push, registered, user, conn, lastId, replay, written, read,
                   before, crashes>>

Read(e) ==
    /\ conn[e] = "open" /\ phase[e] = "ready"
    /\ read[e] < Len(written[e])
    /\ read' = [read EXCEPT ![e] = @ + 1]
    /\ UNCHANGED <<rows, push, registered, user, conn, phase, lastId, replay, written,
                   before, crashes>>

\* The tab is closed or the network drops; the server does not know.
Leave(e) ==
    /\ conn[e] = "open"
    /\ conn' = [conn EXCEPT ![e] = "gone"]
    /\ UNCHANGED <<rows, push, registered, user, phase, lastId, replay, written, read,
                   before, crashes>>

\* SseService.heartbeat on a client that has left: the write fails; the
\* delete(emitter) that follows finds nothing in the reverse map.
Heartbeat(e) ==
    /\ e \in registered
    /\ conn[e] = "gone" /\ phase[e] = "ready"
    /\ conn' = [conn EXCEPT ![e] = "failed"]
    /\ UNCHANGED <<rows, push, registered, user, phase, lastId, replay, written, read,
                   before, crashes>>

Closes(e) ==
    /\ conn' = [conn EXCEPT ![e] = "closed"]
    /\ registered' = registered \ {e}
    /\ UNCHANGED <<rows, push, user, phase, lastId, replay, written, read, before,
                   crashes>>

\* Mutation: the callbacks look the receiver up in the reverse map.
CallbackByEmitter(e) ==
    /\ conn[e] = "failed"
    /\ conn' = [conn EXCEPT ![e] = "closed"]
    /\ UNCHANGED <<rows, push, registered, user, phase, lastId, replay, written, read,
                   before, crashes>>

\* The onError and onCompletion callbacks of an emitter that failed.
Callback(e) == conn[e] = "failed" /\ Closes(e)

\* The onTimeout callback, an hour after the connect.
Timeout(e) == conn[e] \in {"open", "gone"} /\ phase[e] = "ready" /\ Closes(e)

\* The server restarts: open transactions roll back, tasks and streams go.
Crash ==
    /\ crashes < MaxCrashes
    /\ crashes' = crashes + 1
    /\ tx' = [n \in Notes |-> IF tx[n] = "open" THEN "rolledBack" ELSE tx[n]]
    /\ job' = [n \in Notes |-> IF job[n] \in {"queued", "running", "sending"}
                                  \/ (tx[n] # "none" /\ job[n] = "none")
                               THEN "lost" ELSE job[n]]
    /\ targets' = [n \in Notes |-> {}]
    /\ queue' = <<>>
    /\ poolSize' = 0
    /\ registered' = {}
    /\ conn' = [e \in Emitters |-> IF conn[e] = "unused" THEN "unused" ELSE "closed"]
    /\ phase' = [e \in Emitters |-> IF conn[e] = "unused" THEN "none" ELSE "ready"]
    /\ replay' = [e \in Emitters |-> {}]
    /\ UNCHANGED <<kind, to, user, lastId, written, read, before>>

-----------------------------------------------------------------------------

Publish == \E n \in Notes :
    \/ \E u \in Users, k \in Kinds : Insert(n, u, k)
    \/ DmSend(n) \/ Commit(n) \/ Rollback(n) \/ Delete(n)

PushStep(n) == AfterCommit(n) \/ LookUp(n) \/ \E e \in Emitters : Send(n, e)

Pool == Take \/ Retire \/ \E n \in Notes : PushStep(n)

ConnectStep(e) == Query(e) \/ QueryFails(e) \/ Replay(e) \/ ConnectReturns(e)

Stream(e) ==
    \/ \E u \in Users : FirstConnect(e, u)
    \/ \E old \in Emitters : Reconnect(e, old)
    \/ ConnectStep(e)
    \/ Read(e) \/ Leave(e) \/ Heartbeat(e) \/ Callback(e) \/ Timeout(e)

Next == Publish \/ Pool \/ (\E e \in Emitters : Stream(e)) \/ Crash

Spec == Init /\ [][Next]_vars

\* Threads run, the heartbeat is scheduled every 25 seconds, the container
\* calls back for an emitter that failed, and a connected browser reads.
Fairness ==
    /\ WF_vars(Take)
    /\ \A n \in Notes : WF_vars(PushStep(n))
    /\ \A e \in Emitters :
           WF_vars(ConnectStep(e)) /\ WF_vars(Read(e)) /\ WF_vars(Heartbeat(e))
           /\ WF_vars(Callback(e))

FairSpec == Spec /\ Fairness

-----------------------------------------------------------------------------
(* Correctness.                                                             *)

Established(e) == conn[e] = "open" /\ phase[e] = "ready"

\* Rows a reconnect of stream e may have read before row n.
Ahead(e, n) == {m \in Notes : /\ tx[m] \in {"committed", "deleted"}
                              /\ to[m] = user[e] /\ lastId[e] < m /\ m < n}

\* No gap between replay and live push, whatever the order of commits, lookups
\* and registrations: on an open stream, a row that was committed before the
\* stream was registered came with the replay (if it fits the page), and a row
\* of an event that was committed later came with the push.
NoGap ==
    \A e \in Emitters, n \in Notes :
        Established(e) /\ tx[n] = "committed" /\ to[n] = user[e] =>
            /\ n \notin before[e] /\ kind[n] = "event" /\ job[n] = "done" =>
                   n \in Ids(written[e])
            /\ n \in before[e] /\ lastId[e] # None =>
                   \/ n <= lastId[e]
                   \/ Cardinality(Ahead(e, n)) >= ReplayLimit
                   \/ n \in Ids(written[e])

\* What a client is told through an event is never rolled back afterwards.
SentAfterCommit ==
    \A e \in Emitters : \A n \in Ids(written[e]) :
        kind[n] = "event" => tx[n] \in {"committed", "deleted"}

\* Replay and push may overlap, but a stream carries a row at most twice, and
\* once if it was opened without an id to resume from.
FewCopies ==
    \A e \in Emitters, n \in Notes :
        Cardinality({i \in 1..Len(written[e]) : written[e][i] = n})
            <= IF lastId[e] = None THEN 1 ELSE 2

\* The types hold, nobody is told what did not happen, and no stream repeats
\* itself beyond the overlap of replay and push.
DeliveryInv == TypeOK /\ SentAfterCommit /\ FewCopies

\* What was committed gets pushed, unless the full pool refused it or the server
\* restarted (README: real-time notification of subscription, follow and DM). It
\* does not hold of subscriptions, which nothing listens for.
PushedInTheEnd ==
    \A n \in Notes : tx[n] = "committed" ~> job[n] \in {"done", "rejected", "lost"}

\* A stream whose client has left does not stay in the repository for ever.
GoneIsForgotten ==
    \A e \in Emitters : conn[e] = "gone" ~> e \notin registered

\* A browser that stays connected reads every event row committed after it
\* connected, unless the full pool refused it.
LiveDelivered ==
    \A e \in Emitters, n \in Notes :
        (/\ conn[e] = "open" /\ tx[n] = "committed" /\ kind[n] = "event"
         /\ to[n] = user[e] /\ n \notin before[e])
        ~> (\/ \E i \in 1..read[e] : written[e][i] = n
            \/ conn[e] # "open" \/ job[n] \in {"rejected", "lost"})

\* What is committed reaches the pool, and the browsers that stay connected.
DeliveredInTheEnd == PushedInTheEnd /\ LiveDelivered
=============================================================================
