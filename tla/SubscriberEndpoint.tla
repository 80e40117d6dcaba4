------------------------- MODULE SubscriberEndpoint -------------------------
(***************************************************************************)
(* One Subscriber object from create() to its end: the descriptors it      *)
(* owns, its two tables of attachments, the events it has fetched from     *)
(* epoll, the thread inside subscribe() or run(), and the thread that      *)
(* moves or destroys it.                                                   *)
(*                                                                         *)
(* Source: src/src/subscriber.cpp, src/src/fd_helpers.cpp.                 *)
(*                                                                         *)
(* The broker introduces publishers by packets with three descriptors for  *)
(* each attachment, and says when a publisher has ended.  The kernel gives *)
(* a received file the lowest free number, so a number may come back for   *)
(* another file while an event of the old one is in a fetched batch.  The  *)
(* registrations are edge triggered: an event is reported once after its   *)
(* file is signalled, or once when a readable file is added.               *)
(*                                                                         *)
(* Abstractions.  A publisher is the number of messages it has committed,  *)
(* and an attachment reads them by counting; how they travel through the   *)
(* segment is DataPlane.  The broker numbers the attachments in the order  *)
(* it makes them; its tables are Broker.                                   *)
(***************************************************************************)
EXTENDS Integers, Sequences, FiniteSets

CONSTANTS
  Attachments,      \* bound: attachments the broker makes, 1 .. Attachments
  MaxMessages,      \* bound: messages each publisher commits
  FdLimit,          \* descriptors the process may have, numbered 1 .. FdLimit
  MaxEvents,        \* kMaxEvents
  MaxBatch,         \* kMaxAttachmentsPerBatch
  Modes,            \* values flags_ may have: TRUE when a worker runs run(), FALSE when the
                    \* application calls subscribe()
  MaxFaults,        \* bound: failed calls, exceptions of the callback, refused descriptors
  MaxMoves,         \* bound: times the object is moved
  BrokerMayEnd      \* the broker may end before the object

ASSUME BoundsAssumption ==
  /\ {Attachments, MaxMessages, FdLimit, MaxEvents, MaxBatch} \subseteq Nat \ {0}
  /\ {MaxFaults, MaxMoves} \subseteq Nat
  /\ Modes \subseteq BOOLEAN /\ BrokerMayEnd \in BOOLEAN

Id == 1 .. Attachments
Fd == 1 .. FdLimit
BrokerEventId == 0
ShutdownEventId == Attachments + 1

\* An open file: what it is, and of which attachment (0: of the object itself).
NoFile == <<"none", 0>>
Own(kind) == <<kind, 0>>
File == ({"epoll", "broker", "shutdown", "exit"} \X {0}) \cup ({"shm", "space", "data"} \X Id)

VARIABLES
  \* broker and publishers
  greeted,          \* the broker has answered the registration
  introduced,       \* attachments made so far
  queue,            \* packets in the control socket
  ended,            \* attachments whose publisher has ended
  brokerGone,
  published,        \* messages committed, per attachment
  unsignalled,      \* attachments whose publisher has committed and not yet signalled
  \* the kernel, for this process
  files,            \* the descriptor table
  counter,          \* eventfds that are readable
  registered,       \* epoll: registered files with their event ids
  ready,            \* epoll: event ids signalled since they were last reported
  mapped,           \* segments that are mapped
  \* the object
  phase,            \* next step of create(), "alive", or "gone"
  fdOf,             \* data_available_event_fd_by_attachment_id_
  attachmentAt,     \* publisher_attachment_by_data_available_event_fd_
  batch,            \* events_ from event_index_ on, in any order
  active,           \* run_thread_active_
  promise,          \* worker_exit_promise_
  \* the thread inside subscribe() or run()
  pc,
  cur,              \* event_fd of handle_data_available_event
  assembled,        \* messages in the MessageBatch that subscribe() will return
  outcome,          \* what the last subscribe() or run() returned
  \* the thread that owns the object
  owner, purpose, wasActive,
  asynchronous,     \* flags_
  \* history
  delivered,        \* messages given to the application, per attachment
  faults, moves

env == <<greeted, introduced, queue, ended, brokerGone, published, unsignalled>>
kernel == <<files, counter, registered, ready, mapped>>
object == <<phase, fdOf, attachmentAt, batch, active, promise>>
thread == <<pc, cur, assembled, outcome>>
owning == <<owner, purpose, wasActive, moves, asynchronous>>
vars == <<env, kernel, object, thread, owning, delivered, faults>>

Free == {fd \in Fd : files[fd] = NoFile}
NthFree(n) == CHOOSE fd \in Free : Cardinality({f \in Free : f <= fd}) = n

Fault == faults < MaxFaults /\ faults' = faults + 1

\* Is the file of an event readable?  epoll_wait drops the events whose file is not.
Readable(id) ==
  \E r \in registered :
    r.id = id /\ \/ r.file \in counter
                 \/ r.file = Own("broker") /\ (queue # <<>> \/ brokerGone)
Pending == {id \in ready : Readable(id)}
IdsOf(file) == {r.id : r \in {s \in registered : s.file = file}}

Init ==
  /\ greeted = FALSE /\ introduced = 0 /\ queue = <<>> /\ ended = {} /\ brokerGone = FALSE
  /\ published = [id \in Id |-> 0] /\ unsignalled = {}
  /\ files = [fd \in Fd |-> NoFile] /\ counter = {} /\ registered = {} /\ ready = {} /\ mapped = {}
  /\ phase = "epoll" /\ fdOf = <<>> /\ attachmentAt = <<>> /\ batch = {}
  /\ active = FALSE /\ promise = "unset"
  /\ pc = "out" /\ cur = 0 /\ assembled = 0 /\ outcome = "nothing"
  /\ owner = "none" /\ purpose = "none" /\ wasActive = FALSE /\ moves = 0
  /\ asynchronous \in Modes
  /\ delivered = [id \in Id |-> 0] /\ faults = 0

-----------------------------------------------------------------------------
(* create() *)

Open(kind) == Free # {} /\ files' = [files EXCEPT ![NthFree(1)] = Own(kind)]
Watch(kind, id) == registered' = registered \cup {[file |-> Own(kind), id |-> id]}

CreateStep ==
  /\ \/ /\ phase = "epoll" /\ Open("epoll") /\ phase' = "connect"
        /\ UNCHANGED <<counter, registered, ready, active, pc>>
     \/ /\ phase = "connect" /\ ~brokerGone /\ Open("broker") /\ phase' = "register"
        /\ UNCHANGED <<counter, registered, ready, active, pc>>
     \/ /\ phase = "register" /\ ~brokerGone /\ phase' = "watch"
        /\ UNCHANGED <<files, counter, registered, ready, active, pc>>
     \/ /\ phase = "watch" /\ Watch("broker", BrokerEventId)
        /\ ready' = ready \cup {BrokerEventId}
        /\ phase' = IF asynchronous THEN "shutdown" ELSE "alive"
        /\ UNCHANGED <<files, counter, active, pc>>
     \/ /\ phase = "shutdown" /\ Open("shutdown") /\ Watch("shutdown", ShutdownEventId)
        /\ phase' = "exit"
        /\ UNCHANGED <<counter, ready, active, pc>>
     \/ /\ phase = "exit" /\ Open("exit") /\ phase' = "start"
        /\ UNCHANGED <<counter, registered, ready, active, pc>>
     \/ /\ phase = "start" /\ phase' = "alive" /\ active' = TRUE /\ pc' = "loop"
        /\ UNCHANGED <<files, counter, registered, ready>>
  /\ UNCHANGED <<env, mapped, fdOf, attachmentAt, batch, promise, cur, assembled, outcome, owning,
                 delivered, faults>>

\* What release_resources and the guards of create() do: everything is closed.
Records == {attachmentAt[fd] : fd \in DOMAIN attachmentAt}
FdsOf(records) == UNION {{r.shm, r.space, r.data} : r \in records}
OwnFds == {fd \in Fd : files[fd] \in {Own("epoll"), Own("broker"), Own("shutdown"), Own("exit")}}
ReleaseAll ==
  /\ files' = [fd \in Fd |-> IF fd \in FdsOf(Records) \cup OwnFds THEN NoFile ELSE files[fd]]
  /\ mapped' = mapped \ {r.segment : r \in Records}
  /\ registered' = {} /\ ready' = {} /\ counter' = counter \ {Own("shutdown"), Own("exit")}
  /\ fdOf' = <<>> /\ attachmentAt' = <<>> /\ batch' = {}
  /\ phase' = "gone"

CannotGoOn == \/ Free = {} /\ phase \in {"epoll", "connect", "shutdown", "exit"}
              \/ brokerGone /\ phase \in {"connect", "register"}

\* A step of create() fails, or there is no descriptor or no broker for it.
CreateFails ==
  /\ phase \notin {"alive", "gone"}
  /\ Fault \/ (CannotGoOn /\ faults' = faults + 1)
  /\ ReleaseAll
  /\ UNCHANGED <<env, active, promise, thread, owning, delivered>>

-----------------------------------------------------------------------------
(* The broker and the publishers, as long as the object is there *)

Connected == phase \notin {"epoll", "connect", "register", "gone"} /\ ~brokerGone

Post(packet) ==
  /\ queue' = Append(queue, packet)
  /\ ready' = ready \cup IdsOf(Own("broker"))

\* The broker answers a registration with the publishers that are there, and
\* announces each later one by itself.
BrokerAttaches ==
  /\ Connected
  /\ \E n \in 0 .. MaxBatch :
       /\ n + introduced <= Attachments
       /\ greeted => n = 1
       /\ introduced' = introduced + n
       /\ Post([type |-> "SubscriberAttachmentBatch", ids |-> [i \in 1 .. n |-> introduced + i]])
  /\ greeted' = TRUE
  /\ UNCHANGED <<ended, brokerGone, published, unsignalled, files, counter, registered, mapped,
                 object, thread, owning, delivered, faults>>

PublisherEnds(id) ==
  /\ Connected /\ id \in (1 .. introduced) \ ended
  /\ ended' = ended \cup {id} /\ unsignalled' = unsignalled \ {id}
  /\ Post([type |-> "PublisherDisconnected", ids |-> <<id>>])
  /\ UNCHANGED <<greeted, introduced, brokerGone, published, files, counter, registered, mapped,
                 object, thread, owning, delivered, faults>>

BrokerEnds ==
  /\ BrokerMayEnd /\ phase # "gone" /\ ~brokerGone /\ brokerGone' = TRUE
  /\ ready' = ready \cup IdsOf(Own("broker"))
  /\ UNCHANGED <<greeted, introduced, queue, ended, published, unsignalled, files, counter,
                 registered, mapped, object, thread, owning, delivered, faults>>

PublisherCommits(id) ==
  /\ phase # "gone" /\ id \in (1 .. introduced) \ ended /\ published[id] < MaxMessages
  /\ published' = [published EXCEPT ![id] = @ + 1] /\ unsignalled' = unsignalled \cup {id}
  /\ UNCHANGED <<greeted, introduced, queue, ended, brokerGone, kernel, object, thread, owning,
                 delivered, faults>>

PublisherSignals(id) ==
  /\ phase # "gone" /\ id \in unsignalled /\ unsignalled' = unsignalled \ {id}
  /\ counter' = counter \cup {<<"data", id>>}
  /\ ready' = ready \cup IdsOf(<<"data", id>>)
  /\ UNCHANGED <<greeted, introduced, queue, ended, brokerGone, published, files, registered,
                 mapped, object, thread, owning, delivered, faults>>

-----------------------------------------------------------------------------
(* subscribe() and run() *)

\* subscribe() or run() returns.
Ends(result) ==
  /\ outcome' = result
  /\ pc' = IF asynchronous THEN "promise" ELSE "out"

\* A data error is taken for a quiet period. (mutant)
DataErrorIsTimeout(reason) == "Timeout"

\* What subscribe() makes of an error of the data path.
map_run_error_to_subscribe_error(reason) ==
  CASE reason \in {"DataAvailableEventAttachmentMissing", "DataAvailableEventReadFailed",
                   "ConsumptionFailed"} -> "DataPathFailed"

DataFails(reason) ==
  Ends(IF asynchronous THEN reason ELSE map_run_error_to_subscribe_error(reason))
ControlFails ==
  Ends(IF asynchronous THEN "BrokerControlMessageProcessingFailed" ELSE "BrokerUnavailable")

Subscribe ==
  /\ ~asynchronous /\ phase = "alive" /\ owner = "none" /\ pc = "out"
  /\ pc' = "loop" /\ outcome' = "nothing"
  /\ UNCHANGED <<env, kernel, object, cur, assembled, owning, delivered, faults>>

\* The deadline is looked at before every event and limits epoll_pwait2.
Timeout ==
  /\ ~asynchronous /\ pc = "loop" /\ Ends("Timeout")
  /\ UNCHANGED <<env, kernel, object, cur, assembled, owning, delivered, faults>>

Fetch ==
  /\ pc = "loop" /\ batch = {}
  /\ \/ /\ Pending # {}
        /\ \E b \in SUBSET Pending :
             /\ Cardinality(b) = MaxEvents \/ (b = Pending /\ Cardinality(b) < MaxEvents)
             /\ batch' = b /\ ready' = Pending \ b
        /\ UNCHANGED <<pc, outcome, faults>>
     \/ /\ Fault /\ Ends(IF asynchronous THEN "EpollWaitFailed" ELSE "EventWaitFailed")
        /\ UNCHANGED <<batch, ready>>
  /\ UNCHANGED <<env, files, counter, registered, mapped, phase, fdOf, attachmentAt, active,
                 promise, cur, assembled, owning, delivered>>

\* event_index_ moves on before the event is handled.
Consume(id) == batch' = batch \ {id}

\* An id that is not found is an error. (mutant)
StaleIsError == DataFails("DataAvailableEventAttachmentMissing")

\* An attachment that has gone since the batch was fetched.
SkipStale == UNCHANGED <<pc, outcome>>

\* The events of a batch, one by one.
HandleEvent ==
  /\ pc = "loop"
  /\ \E id \in batch :
       /\ Consume(id)
       /\ \/ /\ id = BrokerEventId /\ pc' = "control"
             /\ UNCHANGED <<counter, cur, outcome, faults>>
          \/ /\ id = ShutdownEventId
             /\ \/ Ends("None") /\ counter' = counter \ {Own("shutdown")} /\ UNCHANGED faults
                \/ Fault /\ Ends("ShutdownEventReadFailed") /\ UNCHANGED counter
             /\ UNCHANGED cur
          \/ /\ id \in Id \ DOMAIN fdOf /\ SkipStale
             /\ UNCHANGED <<counter, cur, faults>>
          \/ /\ id \in Id \cap DOMAIN fdOf
             /\ IF fdOf[id] \in DOMAIN attachmentAt
                  THEN /\ pc' = "data" /\ cur' = fdOf[id]
                       /\ counter' = counter \ {files[fdOf[id]]}
                       /\ UNCHANGED outcome
                  ELSE /\ DataFails("DataAvailableEventAttachmentMissing")
                       /\ UNCHANGED <<counter, cur>>
             /\ UNCHANGED faults
          \/ /\ id \in Id \cap DOMAIN fdOf
             /\ Fault /\ DataFails("DataAvailableEventReadFailed") /\ UNCHANGED <<counter, cur>>
  /\ UNCHANGED <<env, files, registered, ready, mapped, phase, fdOf, attachmentAt, active, promise,
                 assembled, owning, delivered>>

\* read_data, for the attachment that cur stands for: hands one message over
\* and stores the read index.  The callback may throw; then the index stays.
ReadMessage ==
  LET at == attachmentAt[cur]
      a == at.segment
      Advance == attachmentAt' = [attachmentAt EXCEPT ![cur].read = @ + 1]
      HandOver == IF asynchronous
                    THEN delivered' = [delivered EXCEPT ![a] = @ + 1] /\ UNCHANGED assembled
                    ELSE assembled' = assembled + 1 /\ UNCHANGED delivered
  IN /\ pc = "data" /\ at.read < published[a]
     /\ \/ HandOver /\ Advance /\ UNCHANGED <<pc, cur, outcome, faults>>
        \/ /\ Fault /\ DataFails("ConsumptionFailed") /\ cur' = 0    \* the MessageBatch is dropped
           /\ Advance /\ assembled' = 0
           /\ IF asynchronous THEN HandOver ELSE UNCHANGED delivered
        \/ /\ asynchronous /\ Fault /\ Ends("WorkerException") /\ cur' = 0
           /\ HandOver /\ UNCHANGED attachmentAt
     /\ UNCHANGED <<env, kernel, phase, fdOf, batch, active, promise, owning>>

\* Everything up to the write index has been read.
ReadAll ==
  LET a == attachmentAt[cur].segment
  IN /\ pc = "data" /\ attachmentAt[cur].read = published[a] /\ cur' = 0
     /\ IF assembled > 0
          THEN /\ Ends("Messages") /\ assembled' = 0
               /\ delivered' = [delivered EXCEPT ![a] = @ + assembled]
          ELSE pc' = "loop" /\ UNCHANGED <<assembled, outcome, delivered>>
     /\ UNCHANGED <<env, kernel, object, owning, faults>>

-----------------------------------------------------------------------------
(* process_broker_control_messages *)

\* The descriptors are closed and epoll is left alone. (mutant)
ReleaseRegistered(records) ==
  /\ files' = [fd \in Fd |-> IF fd \in FdsOf(records) THEN NoFile ELSE files[fd]]
  /\ mapped' = mapped \ {r.segment : r \in records}
  /\ UNCHANGED <<registered, ready>>

\* release_publisher_attachment, for several attachments at a time.
Release(records) ==
  LET gone == {files[r.data] : r \in records}
  IN /\ files' = [fd \in Fd |-> IF fd \in FdsOf(records) THEN NoFile ELSE files[fd]]
     /\ mapped' = mapped \ {r.segment : r \in records}
     /\ registered' = {r \in registered : r.file \notin gone}
     /\ ready' = ready \ UNION {IdsOf(file) : file \in gone}

\* What the kernel makes of the packet: fds[3 * i - 2 .. 3 * i] belong to the
\* i-th attachment.
ReceivedFds(ids) == [k \in 1 .. 3 * Len(ids) |-> NthFree(k)]
ReceivedFile(ids, k) ==
  <<CASE k % 3 = 1 -> "shm" [] k % 3 = 2 -> "space" [] k % 3 = 0 -> "data", ids[(k + 2) \div 3]>>

\* A reader starts at the write index. (mutant)
ReceivedLate(ids, fds, i) ==
  [shm |-> fds[3 * i - 2], space |-> fds[3 * i - 1], data |-> fds[3 * i], segment |-> ids[i],
   read |-> published[ids[i]]]

Received(ids, fds, i) ==
  [shm |-> fds[3 * i - 2], space |-> fds[3 * i - 1], data |-> fds[3 * i], segment |-> ids[i],
   read |-> 0]

\* Descriptors that are not closed when n attachments of a batch are installed:
\* those of the one that failed have left the guard. (mutant)
KeptOnFailure(ids, n) == 1 .. 3 * (IF n < Len(ids) THEN n + 1 ELSE n)

Kept(ids, n) == 1 .. 3 * n

\* The first n attachments of the batch are installed; the descriptors of the
\* others are closed, by release_publisher_attachment and ReceivedFdsGuard.
Install(ids, fds, n) ==
  LET new == {Received(ids, fds, i) : i \in 1 .. n}
      New(fd) == CHOOSE r \in new : r.data = fd
  IN /\ files' = [fd \in Fd |-> IF \E k \in Kept(ids, n) : fds[k] = fd
                                 THEN ReceivedFile(ids, CHOOSE k \in Kept(ids, n) : fds[k] = fd)
                                 ELSE files[fd]]
     /\ mapped' = mapped \cup {r.segment : r \in new}
     /\ registered' = registered \cup {[file |-> <<"data", ids[i]>>, id |-> ids[i]] : i \in 1 .. n}
     /\ ready' = ready \cup {ids[i] : i \in 1 .. n}
     /\ fdOf' = [id \in DOMAIN fdOf \cup {r.segment : r \in new} |->
                   IF id \in DOMAIN fdOf THEN fdOf[id]
                                         ELSE (CHOOSE r \in new : r.segment = id).data]
     /\ attachmentAt' = [fd \in DOMAIN attachmentAt \cup {r.data : r \in new} |->
                           IF fd \in DOMAIN attachmentAt THEN attachmentAt[fd] ELSE New(fd)]

Acceptable(ids, fds, i) == ids[i] \notin DOMAIN fdOf /\ fds[3 * i] \notin DOMAIN attachmentAt

ReadOn == UNCHANGED <<pc, outcome>>

InstallBatch(ids) ==
  LET fds == ReceivedFds(ids)
  IN \/ /\ \A i \in 1 .. Len(ids) : Acceptable(ids, fds, i)
        /\ Install(ids, fds, Len(ids))
        /\ ReadOn /\ UNCHANGED faults
     \/ \E n \in 0 .. Len(ids) - 1 :
          /\ \A i \in 1 .. n : Acceptable(ids, fds, i)
          /\ IF Acceptable(ids, fds, n + 1) THEN Fault ELSE UNCHANGED faults
          /\ Install(ids, fds, n)
          /\ ControlFails

HandleDisconnected(id) ==
  /\ Release({attachmentAt[fdOf[id]]})
  /\ fdOf' = [i \in DOMAIN fdOf \ {id} |-> fdOf[i]]
  /\ attachmentAt' = [fd \in DOMAIN attachmentAt \ {fdOf[id]} |-> attachmentAt[fd]]

tables == <<files, registered, ready, mapped, fdOf, attachmentAt>>

\* One turn of the loop over recvmsg.
ReadPacket ==
  /\ pc = "control"
  /\ \/ /\ queue = <<>> /\ ~brokerGone /\ pc' = "loop"
        /\ UNCHANGED <<queue, tables, outcome, faults>>
     \/ /\ queue = <<>> /\ brokerGone /\ ControlFails
        /\ UNCHANGED <<queue, tables, faults>>
     \/ /\ Fault /\ ControlFails /\ UNCHANGED <<queue, tables>>
     \/ /\ queue # <<>> /\ queue' = Tail(queue)
        /\ LET p == Head(queue) IN
           \/ /\ p.type = "SubscriberAttachmentBatch" /\ 3 * Len(p.ids) <= Cardinality(Free)
              /\ InstallBatch(p.ids)
           \/ /\ p.type = "SubscriberAttachmentBatch" /\ 3 * Len(p.ids) > Cardinality(Free)
              /\ ControlFails /\ faults' = faults + 1
              /\ UNCHANGED tables
           \/ /\ p.type = "PublisherDisconnected" /\ p.ids[1] \in DOMAIN fdOf
              /\ HandleDisconnected(p.ids[1])
              /\ ReadOn /\ UNCHANGED faults
           \/ /\ p.type = "PublisherDisconnected" /\ p.ids[1] \notin DOMAIN fdOf
              /\ ControlFails
              /\ UNCHANGED <<tables, faults>>
  /\ UNCHANGED <<greeted, introduced, ended, brokerGone, published, unsignalled, counter, phase,
                 batch, active, promise, cur, assembled, owning, delivered>>

-----------------------------------------------------------------------------
(* The end of the worker, and the owner of the object *)

WorkerExits ==
  /\ \/ /\ pc = "promise" /\ pc' = "announce"
        /\ promise' = IF promise = "unset" THEN outcome ELSE "twice"
        /\ UNCHANGED <<counter, active>>
     \/ /\ pc = "announce" /\ pc' = "deactivate"
        /\ counter' = counter \cup {Own("exit")}
        /\ UNCHANGED <<promise, active>>
     \/ /\ pc = "deactivate" /\ pc' = "finished" /\ active' = FALSE
        /\ UNCHANGED <<counter, promise>>
  /\ UNCHANGED <<env, files, registered, ready, mapped, phase, fdOf, attachmentAt, batch, cur,
                 assembled, outcome, owning, delivered, faults>>

\* stop_run_thread, first half.  Nobody is inside subscribe() meanwhile.
BeginStop ==
  /\ phase = "alive" /\ owner = "none" /\ (asynchronous \/ pc = "out")
  /\ \/ purpose' = "destroy" /\ UNCHANGED moves
     \/ moves < MaxMoves /\ moves' = moves + 1 /\ purpose' = "move"
  /\ IF pc = "out" THEN owner' = "stopped" /\ wasActive' = FALSE
                   ELSE owner' = "signal" /\ wasActive' = active
  /\ UNCHANGED <<env, kernel, object, thread, asynchronous, delivered, faults>>

SignalShutdown ==
  /\ owner = "signal" /\ owner' = "join"
  /\ IF wasActive THEN /\ counter' = counter \cup {Own("shutdown")}
                       /\ ready' = ready \cup IdsOf(Own("shutdown"))
                  ELSE UNCHANGED <<counter, ready>>
  /\ UNCHANGED <<env, files, registered, mapped, object, thread, purpose, wasActive, moves,
                 asynchronous, delivered, faults>>

Join ==
  /\ owner = "join" /\ pc = "finished"
  /\ owner' = "stopped" /\ pc' = "out"
  /\ UNCHANGED <<env, kernel, object, cur, assembled, outcome, purpose, wasActive, moves,
                 asynchronous, delivered, faults>>

Leaves == owner' = "none" /\ purpose' = "none" /\ wasActive' = FALSE

Destroy ==
  /\ owner = "stopped" /\ purpose = "destroy" /\ Leaves
  /\ ReleaseAll
  /\ UNCHANGED <<env, active, promise, thread, moves, asynchronous, delivered, faults>>

\* take_resources_from: everything moves as it is.  A worker that was running,
\* and ended because it was asked to, is started again.
\* Whatever the worker ended with. (mutant)
RestartsAnyway == wasActive
\* A worker is not started again. (mutant)
NeverRestarts == FALSE

Restarts == wasActive /\ promise = "None"

\* The fetched events are left behind. (mutant)
NothingCarried == {}

Carried == batch

\* The old promise is used again. (mutant)
StartWithoutReset == active' = TRUE /\ pc' = "loop" /\ UNCHANGED promise

\* start_run_thread
StartWorker == promise' = "unset" /\ active' = TRUE /\ pc' = "loop"

Move ==
  /\ owner = "stopped" /\ purpose = "move" /\ Leaves
  /\ \/ /\ ~Restarts /\ batch' = Carried
        /\ UNCHANGED <<kernel, phase, fdOf, attachmentAt, active, promise, pc, faults>>
     \/ /\ Restarts /\ batch' = Carried
        /\ counter' = counter \ {Own("shutdown"), Own("exit")}
        /\ StartWorker
        /\ UNCHANGED <<files, registered, ready, mapped, phase, fdOf, attachmentAt, faults>>
     \/ /\ Restarts /\ Fault    \* the eventfds cannot be drained: nothing has moved
        /\ UNCHANGED <<kernel, object, pc>>
     \/ /\ Restarts /\ Fault    \* the thread cannot be started: the new object releases all
        /\ ReleaseAll /\ promise' = "unset"
        /\ UNCHANGED <<active, pc>>
  /\ UNCHANGED <<env, cur, assembled, outcome, moves, asynchronous, delivered>>

-----------------------------------------------------------------------------

Next ==
  \/ CreateStep \/ CreateFails
  \/ BrokerAttaches \/ BrokerEnds
  \/ \E id \in Id : PublisherEnds(id) \/ PublisherCommits(id) \/ PublisherSignals(id)
  \/ Subscribe \/ Timeout \/ Fetch \/ HandleEvent \/ ReadMessage \/ ReadAll \/ ReadPacket
  \/ WorkerExits
  \/ BeginStop \/ SignalShutdown \/ Join \/ Destroy \/ Move

Spec == Init /\ [][Next]_vars

OwnerStep == CreateStep \/ SignalShutdown \/ Join \/ Destroy \/ Move
InsideCall == ReadMessage \/ ReadAll \/ ReadPacket \/ WorkerExits

\* Both threads run, and a publisher that has committed signals.  Whoever calls
\* subscribe() goes on doing so, with time-outs that sometimes last long enough
\* for an event to be fetched and handled.
Fairness ==
  /\ WF_vars(OwnerStep) /\ WF_vars(Subscribe \/ InsideCall) /\ SF_vars(Fetch \/ HandleEvent)
  /\ \A id \in Id : WF_vars(PublisherSignals(id))

FairSpec == Spec /\ Fairness

-----------------------------------------------------------------------------
Installed == DOMAIN fdOf
At(id) == attachmentAt[fdOf[id]]

EnvTypeOK ==
  /\ greeted \in BOOLEAN /\ introduced \in 0 .. Attachments /\ brokerGone \in BOOLEAN
  /\ ended \subseteq Id /\ unsignalled \subseteq Id /\ published \in [Id -> 0 .. MaxMessages]

KernelTypeOK ==
  /\ files \in [Fd -> File \cup {NoFile}] /\ counter \subseteq File /\ mapped \subseteq Id
  /\ registered \subseteq [file : File, id : 0 .. ShutdownEventId]
  /\ ready \subseteq 0 .. ShutdownEventId /\ batch \subseteq 0 .. ShutdownEventId

TablesTypeOK ==
  /\ Installed \subseteq Id /\ \A id \in Installed : fdOf[id] \in Fd
  /\ DOMAIN attachmentAt \subseteq Fd
  /\ \A r \in Records : r \in [shm : Fd, space : Fd, data : Fd, segment : Id, read : 0 .. MaxMessages]

ThreadTypeOK ==
  /\ delivered \in [Id -> 0 .. MaxMessages] /\ assembled \in 0 .. MaxMessages
  /\ promise \in {"unset", "None", "EpollWaitFailed", "BrokerControlMessageProcessingFailed",
                  "DataAvailableEventReadFailed", "ConsumptionFailed", "ShutdownEventReadFailed",
                  "WorkerException"}
  /\ pc \in {"out", "loop", "control", "data", "promise", "announce", "deactivate", "finished"}
  /\ pc = "data" => cur \in DOMAIN attachmentAt

\* Every variable has its type.
TypeOK == EnvTypeOK /\ KernelTypeOK /\ TablesTypeOK /\ ThreadTypeOK

\* The process holds exactly the descriptors and mappings that the object can
\* give back: nothing leaks and nothing is closed twice, whatever failed, and
\* whichever file has had the number before (release_publisher_attachment,
\* ReceivedFdsGuard, FdGuard).
DescriptorsAreOwned ==
  /\ \A r \in Records : /\ files[r.shm] = <<"shm", r.segment>>
                         /\ files[r.space] = <<"space", r.segment>>
                         /\ files[r.data] = <<"data", r.segment>>
  /\ {fd \in Fd : files[fd] # NoFile} \subseteq FdsOf(Records) \cup OwnFds
  /\ mapped = {r.segment : r \in Records}
  /\ phase = "gone" => Free = Fd

\* The event of an attachment leads through both tables to the segment it was
\* registered for, though descriptor numbers come back (subscribe, run).
EventsFindTheirSegment ==
  /\ \A id \in Installed : fdOf[id] \in DOMAIN attachmentAt /\ At(id).segment = id
                           /\ At(id).data = fdOf[id]
  /\ {r \in registered : r.id \in Id} = {[file |-> <<"data", id>>, id |-> id] : id \in Installed}
  /\ Cardinality(Records) = Cardinality(Installed)

\* An unread message or packet has been announced and the announcement is not
\* lost: it is with epoll, in the fetched batch, which moves with the object,
\* or being handled.
NothingIsForgotten ==
  (phase = "alive" /\ faults = 0 /\ ~brokerGone) =>
    /\ \A id \in Installed : At(id).read < published[id] =>
         id \in ended \cup unsignalled \/ id \in Pending \/ id \in batch \/ (pc = "data" /\ cur = fdOf[id])
    /\ queue # <<>> => BrokerEventId \in Pending \cup batch \/ pc = "control"

\* No call and no worker fails unless a system call or the callback has, or
\* the broker has ended: a stale event or a late packet is no error.  And a
\* worker ends without an error only because its owner stops it: a shutdown
\* event of an earlier stop does not reach the next worker.
NothingEndsByItself ==
  /\ (faults = 0 /\ ~brokerGone) => outcome \in {"nothing", "None", "Messages", "Timeout"}
  /\ (asynchronous /\ outcome = "None" /\ pc \in {"promise", "announce", "deactivate", "finished"})
       => owner = "join"

\* A message is given to the application once: also one whose callback threw,
\* since no worker reads again after a failure (take_resources_from).
MessagesAreDeliveredOnce ==
  \A id \in Installed : delivered[id] <= At(id).read \/
     /\ delivered[id] = At(id).read + 1 /\ outcome = "WorkerException"
     /\ pc \notin {"loop", "control", "data"}

\* A message that has been read and is not handed to the application is
\* reported by DataPathFailed, in the same call (consume_contiguous_messages).
Unreported(id) == At(id).read - delivered[id] - (IF cur = fdOf[id] THEN assembled ELSE 0)
LossIsReported ==
  [][\A id \in Installed \cap DOMAIN fdOf' :
       Unreported(id)' > Unreported(id) => outcome' \in {"DataPathFailed", "ConsumptionFailed"}]_vars

\* The object keeps the promise of Subscription.  In particular the messages of
\* a publisher are dropped unread only after it has ended, whatever the order
\* of its data event and of PublisherDisconnected (handle_publisher_disconnected).
Promise == INSTANCE Subscription WITH
  attached <- Installed,
  consumed <- [id \in Id |-> IF id \in Installed THEN At(id).read ELSE 0],
  open <- phase # "gone"
ImplementsSubscription == Promise!Spec

\* Nothing that the object has been told stays undone, until something fails or
\* the object is gone: every message of a publisher that lives reaches the
\* application, and every attachment whose publisher has ended is given back,
\* however the object is moved meanwhile and whichever events it takes along.
\* Destruction waits for the worker and nothing else, so it ends, also after a
\* failure.  (MaxMessages and Attachments end the publishing, so no announcement
\* can hide behind later ones.)
EveryAnnouncementIsHandled ==
  []<>(/\ purpose # "destroy"
       /\ \/ faults > 0 \/ brokerGone \/ phase = "gone"
          \/ \A id \in 1 .. introduced :
               IF id \in ended THEN id \notin Installed ELSE delivered[id] = published[id])

=============================================================================
