# DriveBus, specified

DriveBus is a publish/subscribe bus for processes of one machine. A *broker*
process introduces publishers and subscribers to each other over a Unix socket
and passes file descriptors between them. The messages themselves go through a
shared-memory segment that each publisher owns, without the broker.

This directory holds TLA+ modules of that program, TLC configurations that check
them on small instances, and proofs checked by TLAPS. `PROJECT.json` lists the
components, runs, source lines of every definition, hazards and theorems.

## The system

| Component | State | Operations | Talks to |
| --- | --- | --- | --- |
| Data plane, `SharedData` | descriptor ring, write index, a read index per slot, free list per size class, reference bits per chunk, usage tracker (debug builds) | accessed by the two below | shared memory |
| Publisher, synchronous | `seq_`, tracked slots, leftover epoll events | `publish(payload, timeout)` | eventfds, control socket |
| Publisher, asynchronous | the same, pending queue, in-flight message, worker thread | `publish(payload)`, worker loop, stop, move | application threads |
| Subscriber | two tables of attachments, descriptors and mappings, read index and expected sequence number per attachment, fetched epoll events, worker thread | `create`, `subscribe(timeout)` or worker with callback, control messages, stop, move | eventfds, control socket |
| Broker | role of each connection, topic lists on both sides, heap of free slots per publisher, attachments per subscriber | registrations, end of a connection, status query, shutdown | control sockets |
| Usage tracker (debug builds) | one entry per chunk, robust mutex, in shared memory | take, release, list | publisher and subscriber processes |
| Logger | front and back buffer, level, file, backend thread | `logf`, `setLevel`, `setLogFilePath`, destructor | threads of a process |
| Status client, packet and descriptor helpers | see `PROJECT.json` | | |

What is hard in it:

- No lock protects the data plane in release builds. Publisher and subscribers
  write the ring, the reference bits and the free list from different processes;
  the protocol decides who may write what and when.
- A subscriber may die at any instruction. The publisher learns of it from the
  broker some time later and takes over what the dead one held.
- The broker gives a slot to the next subscriber before the publisher has cleaned
  it up after the last one.
- All waiting is on edge-triggered eventfds; only the last holder of a chunk
  signals the publisher.
- Each endpoint reads its control packets at its own pace; ends, registrations
  and failed sends come in every order.
- A subscriber object owns descriptors whose numbers the kernel gives out again
  while events of the old ones are still in a fetched batch, and it may be moved
  between fetching events and handling them.

What makes each component correct:

- Data plane: no unread message is overwritten; every subscriber gets every
  message after its join once and in order; a chunk is given back once, and none
  is lost while nobody dies inside `read_data`; a payload is stable while its
  callback runs; no wake-up is lost.
- Broker and control plane: the tables agree with each other and, but for the
  packets on their way, with what the endpoints know; a slot changes hands
  safely; matching endpoints are attached in the end; ends are noticed.
- Asynchronous queue: each ticket is completed once; a message in publication is
  not overwritten; the queue order is kept.
- Subscriber object: it owns exactly what it can give back; events lead to the
  segment they were registered for; what it was told is neither forgotten nor
  done twice; what it loses it reports.
- Usage tracker: its checks raise no alarm in a correct system, even after its
  mutex is lost; nobody waits for ever.
- Logger: entries leave once and in order, and all of them before the destructor
  returns.

## Modules

| Module | What it is |
| --- | --- |
| `RingIndex` | arithmetic of the descriptor ring: advancing, slowest reader, full or not |
| `MessageLog` | what the data plane promises: a log, and a position in it for each subscriber |
| `DataPlane` | the detailed data plane: one publisher, its segment, its subscribers; implements `MessageLog` |
| `DataPlane_proofs` | lemmas about `RingIndex` for every ring size; types and safety of `DataPlane`, and the refinement |
| `DataPlaneFreeList_proofs` | the free list of `DataPlane`, and that no run-time check fires |
| `Broker` | broker, sockets, and the control side of the clients |
| `Broker_proofs` | the agreement of the broker's tables, and of the clients with them |
| `ListLemmas` | lemmas about lists: first index, flattening, removing; least element and induction on numbers |
| `TicketQueue` | what an asynchronous publisher promises: a bounded queue, and one final value for each ticket |
| `AsyncPublisher` | the queue, the worker thread, and the owner that moves or destroys the object; implements `TicketQueue` |
| `AsyncPublisher_proofs` | its types, its safety properties and the refinement |
| `Subscription` | what a subscriber object promises about attachments and messages |
| `SubscriberEndpoint` | one subscriber object: descriptors, tables, events, `subscribe`/`run`, its owner; implements `Subscription` |
| `SubscriberEndpoint_proofs` | its types, its safety properties and the refinement |
| `UsageTracker`, `UsageTracker_proofs` | the debug usage tracker and its robust mutex |
| `Logger`, `Logger_proofs` | the logger with its backend thread |
| `MCDataPlane`, `MCBroker`, `MCAsyncPublisher`, `MCSubscriberEndpoint` | instances for TLC; `UsageTracker` and `Logger` are checked as they are |

### DataPlane

The variables are the fields of `SharedData` (`rd`, `wr`, `ring`, `head`, `tail`,
`word`, `seqOf`, `refs`, `inUse`), the readiness of the eventfds, and a program
counter with the live locals for the publisher and for each subscriber. `joined`
is a history variable. The actions follow the code in order:

- publisher: `PublishCall`, `ScanRing`, `TakeChunk`, `WriteMessage`, `Commit`,
  `SignalData` are `publish` and `try_publish_one`; `SpaceEvent`, `EventsDone`,
  `WaitTimeout` the waiting and the leftovers of a timed-out call; `ReapBegin`,
  `ReapKeep`, `ReapRelease`, `ReapLink`, `ReapPush`, `ReapEnd`, `ControlDone`
  the control messages and `reap_dead_subscribers`; `Track` is
  `track_subscriber`.
- subscriber: `DataEvent`, `LoadWrapped`, `LoadContiguous`, then for each
  descriptor `Deliver`, `ClearBit`, `StoreIndex` or `StoreIndexLast`, `Release`,
  `Link`, `Push`, `SignalSpace`; `Leave` is the end of the process.

Abstractions: one size class (the classes share nothing but the ring); a chunk is
its number and a payload its sequence number; a reference count is the set of the
slots whose bit is set. The model is of the build the Makefile produces, with
`ENABLE_DEBUG_CHECKS`; its checks are actions that fail.

The first word of a free chunk and the magic of a message share four bytes, as in
the code, so that a bad push would damage a message.

Steps that are joined, and why nobody can tell:

- The scan of the read indices and the decision on it are one step. A read index
  that moves afterwards only makes room, and when the decision is "full" the
  publisher goes to `epoll_wait`, where the eventfd keeps what was signalled in
  between.
- The load of the tail and the take-over of the tracker entry are joined; what
  the tracker does in between is `UsageTracker`, where `EntryHasOneUser` shows
  that nobody else is at that entry.
- Descriptors are copied together with the load of the write index: the slots
  between the two indices do not change while the reader holds its bits, which
  `UnreadIsHeld` states.
- The memory is sequentially consistent. The code publishes with release stores
  and reads with acquire loads. Most relaxed loads are of a variable that only the
  reader writes. The exception is the tail of the free list (`subscriber.cpp:506`,
  `publisher.cpp:748`), which every process writes: it is ordered by the `acq_rel`
  `fetch_and` on the words with the reference bits (`subscriber.cpp:477`,
  `publisher.cpp:726`). Who has pushed clears its bits in later messages after that,
  so the last holder of a later message, the next to push (`OnePusher`), reads a word
  that was written after the push. For a subscriber that has died the publisher
  clears them, after a packet from the broker.

One choice is wider than the code: after a timed-out call any pending event, not
only those of the leftover batch, may be handled before the next attempt.

The broker is reduced to `Track` (of a free slot) and `ReapBegin` (of a dead
subscriber). That a slot changes hands no other way is what `Broker` shows with
`SlotsChangeHandsSafely`. A subscriber that is dead before it is tracked is
`Track` followed by `Leave`.

### Broker

The broker handles one packet or one end of a connection per step, with every
table it changes and every packet it sends. A socket is a FIFO queue. A send
fails when the receiver has ended (`EPIPE`) or its queue is full (`EAGAIN`);
`Post` delivers (`Arrives`, to each client) what was sent before the failure and the
handler ends the broker as the code does (`exit(1)` or `return 1`). `Exits` names the
reasons; "inconsistent" stands for every look-up that finds a table without the
entry. The status snapshot is the one send whose failure is ignored.

Clients connect, register, read their packets one at a time, and may die at any
moment. A publisher waits inside `create` for the count and the registrations of
its handshake; a subscriber does not wait. `tracked` is what a publisher has in
its slots and `installed` what a subscriber has mapped, by attachment.

Assumptions: a client is one connection, so a process that starts again is
another client; a subscriber does not list a topic twice (the code does not
reject it; it would be attached twice to the same publisher); packets are
well-formed.

### AsyncPublisher

Three threads share a publisher in asynchronous mode: the application calls
`publish(payload)` (`Publish`, `PublishRefused`), the worker runs `run()`, and the
owner of the object moves or destroys it (`BeginStop`, `SignalStop`, `Destroyed`,
`MovedAndRestarted`, `MovedAndIdle`). While the owner does, nobody calls
`publish`, as the comment at `publisher.cpp:567` demands.

The variables are `pending_messages_`, `in_flight_message_` with its state, the
promise of each message (`ticket`), the events, and the locals of the worker. A
critical section of `publish_state_mutex_` is one step: `StartWork` and
`Attempted` are those of `handle_publish_work_event`, with the turn of its loop
in `TakeNext`; `TryPublish` runs between them without the lock; `PickCandidate`
is the one of `can_publish_next_message`, and `CheckSpace` uses its result after
the unlock. `Fetch` is `epoll_wait`; `batch` is what it returned and `fresh` what
it would return, since the registrations are edge triggered. `Deactivate` and
`WorkerEnds` are the end of the thread.

A ticket keeps what its promise was given, and becomes "twice" where
`set_value` would throw and "broken" where the promise is destroyed without a
value. The queue is not emptied when the worker completes it, as in the code; a
failed worker leaves it like that to the object that is moved to.

Abstractions: a message is its number and size class; the data plane is the
number of free chunks of each class, and the ring being full is one more way for
`free` to be zero (what is published and how space comes back is `DataPlane`'s
matter). The events of a batch may be handled in any order. Every subscriber
signals the space event some time after it has given back a chunk, and signals
that nobody has handled yet are merged, as an eventfd does. All errors of `run()`
are one. A system call fails only when `CanFail` is set.

Assumption: `Capacity` is at least 2 (64 in the code). With 1, `publish` would
take the front of an empty queue while the only message is in publication.

### SubscriberEndpoint

One `Subscriber` object, from the first descriptor of `create()` to its end, in
either mode (`flags_`, chosen by `Init`). The broker and the publishers are an
environment that attaches, commits, signals and ends. The kernel is explicit
where the code depends on it: `files` is the descriptor table, and a new file
gets the lowest free number; `registered` and `ready` are epoll, where an event
is reported once after its file was signalled, and once when a readable file is
added.

- `CreateStep`, `CreateFails`: `create()`, and what its guards give back.
- `Subscribe`, `Timeout`, `Fetch`, `HandleEvent`, `ReadMessage`, `ReadAll`: the
  bodies of `subscribe()` and `run()`, which share the fetched batch, and
  `read_data` with a callback that may throw.
- `ReadPacket`: one turn of `process_broker_control_messages`, with
  `install_subscriber_attachment_batch` (`Install`, in full or up to the
  attachment that fails), truncation when the process is out of descriptors, and
  `handle_publisher_disconnected`.
- `WorkerExits`: the promise, the exit eventfd and `run_thread_active_`, one after
  the other; `BeginStop`, `SignalShutdown`, `Join`, `Destroy`, `Move` the owner.

A publisher is the number of its committed messages (how they travel is
`DataPlane`), and the broker's tables are `Broker`. Events of a batch are handled
in any order, which is wider than the array the code walks. `Subscription` is the
abstract side: attach, read in order, hand over, detach only what has ended.

### UsageTracker

The tracker of debug builds is one step of `DataPlane`. Here it is taken apart:
`Lock`, `Check`, `Write`, `Unlock` for the three users of the table (taking a
chunk, releasing it, listing it), and `Die` at each of these places. The code
ignores what `pthread_mutex_lock` returns, so the mutex goes from `normal` to
`dirty` (its holder died) to `notrecoverable` (unlocked without having been made
consistent), and from then on excludes nobody. Ring and free list are reduced to
who holds a chunk.

### Logger

`Logf`, `Log`, `Push` are the three looks a call takes at the level and the
buffer; `Lock`, `Wake`, `SpuriousWake`, `TimeOut`, `Swap`, `Write`, `Flush` the
loop of the backend thread, which keeps the mutex from the swap to the flush;
`Construct`, `SetLevel`, `SetLogFilePath`, `Stop`, `NotifyAll`, `Join` the life of
the instance. `accepted` and `before` are history variables.

## Runs

| Run | Bounds | Shows |
| --- | --- | --- |
| `DataPlane_crash` | 2 slots, 3 chunks, ring of 3, 4 messages, time-outs, death at every step of `read_data` | `TypeOK`, `NoLap`, `UnreadIsHeld`, `CountIsZero`, `FreeListSound`, `OnePusher`, `NobodyFails`, and that the data plane implements `MessageLog` |
| `DataPlane_live` | the same without death inside `read_data`, fairness | `FreeListComplete`, `EveryMessageArrives`, `BlockedPublisherResumes` |
| `Broker_reuse` | 1 publisher with 2 slots, 3 subscribers, a status client, queues of 4, batches of 1 | `TypeOK`, `PublisherAgrees`, `SlotsArePartitioned`, `NoPacketIsRejected`, `SlotsChangeHandsSafely` |
| `Broker_mesh` | 2 publishers of 2 topics, a subscriber of both and one of the first, queues of 3, batches of 2, fairness | `SubscriberAgrees` (with `TopicTablesAgree`), `ClientsCatchUp` |
| `AsyncPublisher_queue` | 4 calls, a queue of 2, 1 publication per work event, 2 size classes with 1 chunk each, 1 move, 1 control event, failing calls, fairness | `TypeOK`, `PayloadPinned`, `PublishedInOrder`, `TicketsTellTheTruth`, `NoTicketIsBroken`, that it implements `TicketQueue`, `EveryTicketCompletes` |
| `SubscriberEndpoint_safe` | both modes, 2 attachments of 2 messages, 8 descriptors, 2 events per batch, 1 fault, 1 move, a broker that may end | `TypeOK`, `DescriptorsAreOwned`, `EventsFindTheirSegment`, `NothingIsForgotten`, `NothingEndsByItself`, `MessagesAreDeliveredOnce`, `LossIsReported`, and that it implements `Subscription` |
| `SubscriberEndpoint_live` | both modes, 2 attachments of 1 message, 1 move, fairness | `EveryAnnouncementIsHandled` |
| `UsageTracker_safe` | publisher, 2 subscribers, 2 chunks, 4 messages, everybody may die anywhere, fairness | `EntryHasOneUser`, `NoFalseAlarm`, `NobodyIsStuck` |
| `Logger_order` | 2 threads, 3 calls, threshold 3, 2 levels, fairness | `LinesInOrder`, `StopWritesEverything`, `BackendGetsDone` |
| `Broker_unregistered` | as `Broker_reuse` | counterexample to `ClosedConnectionHasRole` |
| `Broker_ends` | as `Broker_reuse` | counterexample to `DisconnectsAreDelivered` |
| `UsageTracker_exclusion` | as `UsageTracker_safe`, 3 messages | counterexample to `MutualExclusion` |

Why the bounds are enough for what the runs ask:

- `DataPlane_crash` is one instance for both kinds of publisher. `Synchronous`
  only restricts: a synchronous publisher reads its control socket nowhere but in
  a blocked `publish`. With `Synchronous = FALSE` and `CanTimeout = TRUE` the
  publisher may do all that a worker may and all that a `publish` with a
  time-out may, so what is safe there is safe for both.
- `DataPlane_live` has the same two constants, and is for both kinds too. What a
  synchronous publisher does under fairness, a worker may do under fairness, with
  one exception: a synchronous publisher may stay idle for ever and leave a dead
  subscriber unreaped. There it is not blocked, and data wake-ups do not depend on
  it. Time-outs are never forced, so a blocked `publish` whose caller waits without
  a limit has to be woken, also when calls before it have timed out and left
  events, or a control packet, unhandled.
- Four messages let a ring of 3 wrap after the slots have joined, so that indices
  below and above the write index both occur. With 3 descriptors a reader can be
  up to date, behind, or block the publisher; with as many chunks as descriptors,
  one of each kept back, both run out at a time.
- Two slots make "last holder" and "not the last" differ, and a subscriber races
  for a chunk that the publisher reaps for the other.
- In `Broker_reuse` three subscribers and two slots force every slot to be reused
  while packets are unread, and the third one to find no slot. Queues of 4 are
  filled by a publisher that does not read.
- In `Broker_mesh` a subscriber and a publisher of each topic may come first or
  second, one pair shares no topic, and a batch carries both publishers when the
  subscriber comes last.
- In `AsyncPublisher_queue` two of four calls meet a full queue, with the message
  in flight blocked, in publication, or absent. The third message is of the other
  size class, so a blocked message is overwritten by one that has space, and the
  other way round. One publication per work event makes the worker reschedule
  itself whenever something is left.
- In `SubscriberEndpoint_safe` 8 descriptors hold the object's own and one
  attachment, and truncate a packet with two; a number freed by the first is
  given to the second at once. Two events per batch leave others in epoll. One
  fault is enough to fail each call at each place; after it the object is only
  released or moved.
- In `UsageTracker_safe` the second subscriber and the publisher live on after
  the mutex has become not recoverable, with messages left to publish and release.
- In `Logger_order` two entries are below the threshold and the third reaches it.
- The formulas `[]<>(...)` of the liveness properties say that nothing stays
  undone: a bound on messages ends the publishing, so nothing can hide behind
  later work, and the state in question is the final one or recurs.
- Symmetry is used in `Broker_reuse` only, over the subscribers, which differ in
  nothing; the run has no liveness property.

`CHECK_DEADLOCK FALSE`: a behaviour of `DataPlane` ends when its messages are
published and read, one of `Broker` when the broker has gone and every client is
dead, one of `AsyncPublisher` or `SubscriberEndpoint` when the object is
destroyed, one of `UsageTracker` when all are dead, one of `Logger` when the
instance is gone.

### Fairness

`DataPlane`: the threads that are in the middle of something go on, a subscriber
takes its data event, and the publisher, when it waits, handles the space event or
the control messages that are there. `ControlDone` is strongly fair: `recvmsg`
finds the socket empty again and again. Nothing forces a call of `publish`, a
join, a leave or a time-out.

`Broker`: its loop runs, and clients read their packets: a worker thread does, and
so does an application that keeps calling `subscribe`, or `publish` on a full
ring. Nothing forces a client to connect, register or die, or the broker to stay.

`AsyncPublisher`: the thread of the worker runs, a move or destruction that has
begun goes on, and subscribers read and signal. Without a subscriber, messages
wait as long as the object lives. Nothing forces a call of `publish`, a move or
the destruction, and no system call has to fail (`EventFails` is no part of
`WorkerStep`).

`SubscriberEndpoint`: the worker and the owner run, and a publisher that has
committed goes on to signal. `Fetch \/ HandleEvent` is strongly fair: in
synchronous mode `Timeout` can end every call before an event is looked at, so an
application that is to get its messages has to call `subscribe` again and again,
with time-outs that sometimes last long enough.

`UsageTracker`: processes run. `Lock` is strongly fair: POSIX does not promise
that a waiting thread gets a mutex that is released again and again; the run
assumes it.

`Logger`: the backend and the destructor run. `TimeOut` is strongly fair since
`wait_for` computes its deadline once: waking up in vain does not push it back.

## Proofs

TLC sees one instance; the proofs are for any number of slots, chunks, messages,
processes, threads, topics, clients, any ring, any capacity of the queue. TLAPS
proves:

| Theorem | Says |
| --- | --- |
| `DataPlane_proofs!AvailableLeavesRoom` | when the comparison of `try_publish_one` finds a descriptor, one more message laps nobody |
| `DataPlane_proofs!TypeCorrect` | `Spec => []TypeOK` |
| `DataPlane_proofs!NeverLapped` | `Spec => []NoLap` |
| `DataPlane_proofs!WaitingIsHeld` | `Spec => []UnreadIsHeld` |
| `DataPlane_proofs!CountsAreSound` | `Spec => []CountIsZero` |
| `DataPlane_proofs!DataPlaneImplementsLog` | `Spec => ImplementsLog` |
| `DataPlaneFreeList_proofs!PushesAreExclusive` | `Spec => []OnePusher` |
| `DataPlaneFreeList_proofs!ChecksNeverFire` | `Spec => []NobodyFails` |
| `DataPlaneFreeList_proofs!FreeListLeadsToTail` | `Spec => []FreeListSound` |
| `DataPlaneFreeList_proofs!NoChunkLeaks` | `~CrashMidRead => (Spec => []FreeListComplete)` |
| `AsyncPublisher_proofs!TypeCorrect` | `Spec => []TypeOK` |
| `AsyncPublisher_proofs!PayloadStaysPinned` | `Spec => []PayloadPinned` |
| `AsyncPublisher_proofs!OrderIsKept` | `Spec => []PublishedInOrder` |
| `AsyncPublisher_proofs!TicketsAreTrue` | `Spec => []TicketsTellTheTruth` |
| `AsyncPublisher_proofs!TicketsAreCompleted` | `Spec => []NoTicketIsBroken` |
| `AsyncPublisher_proofs!AsyncPublisherImplementsQueue` | `Spec => ImplementsQueue` |
| `Broker_proofs!BrokerInvariant` | `Spec => []IInv`, with the types of the broker's tables |
| `Broker_proofs!SlotsStayPartitioned` | `Spec => []SlotsArePartitioned` |
| `Broker_proofs!TopicTablesStayRight` | `Spec => []TopicTablesAgree` |
| `Broker_proofs!SocketInvariant` | `Spec => [](IInv /\ SocketInv)`: what the packets on their way say |
| `Broker_proofs!BrokerTypeCorrect` | `Spec => []TypeOK` |
| `Broker_proofs!ClientsRejectNothing` | `Spec => []NoPacketIsRejected` |
| `Broker_proofs!PublishersAgree` | `Spec => []PublisherAgrees` |
| `Broker_proofs!SubscribersAgree` | `Spec => []SubscriberAgrees` |
| `Broker_proofs!SlotsChangeHands` | `Spec => SlotsChangeHandsSafely` |
| `SubscriberEndpoint_proofs!TypeCorrect` | `Spec => []TypeOK` |
| `SubscriberEndpoint_proofs!DescriptorsStayOwned` | `Spec => []DescriptorsAreOwned` |
| `SubscriberEndpoint_proofs!EventsAlwaysFindTheirSegment` | `Spec => []EventsFindTheirSegment` |
| `SubscriberEndpoint_proofs!NothingIsEverForgotten` | `Spec => []NothingIsForgotten` |
| `SubscriberEndpoint_proofs!NothingEverEndsByItself` | `Spec => []NothingEndsByItself` |
| `SubscriberEndpoint_proofs!MessagesAreNeverRepeated` | `Spec => []MessagesAreDeliveredOnce` |
| `SubscriberEndpoint_proofs!LossIsAlwaysReported` | `Spec => LossIsReported` |
| `SubscriberEndpoint_proofs!EndpointImplementsSubscription` | `Spec => ImplementsSubscription` |
| `UsageTracker_proofs!TypeCorrect` | `Spec => []TypeOK` |
| `UsageTracker_proofs!EntriesHaveOneUser` | `Spec => []EntryHasOneUser` |
| `UsageTracker_proofs!ChecksStaySilent` | `Spec => []NoFalseAlarm` |
| `UsageTracker_proofs!MarksStayExact` | `Spec => []MarksAreExact` |
| `Logger_proofs!TypeCorrect` | `Spec => []TypeOK` |
| `Logger_proofs!Ordered` | `Spec => []LinesInOrder` |
| `Logger_proofs!StopComplete` | `Spec => []StopWritesEverything` |

They assume the named assumptions of the modules on their constants: a ring of at
least one descriptor, at least one slot and one chunk, a capacity of at least 2,
distinct names, roles that share no client, topic lists that name no topic twice.

`DataPlane`. None of these invariants is inductive. Types alone need `CursorInv`:
the private read index of a subscriber and the descriptors it has copied lie
between its shared read index and the write index. The rest is proved together, by
`SafetyInv == CursorInv /\ CountInv /\ HeldInv /\ NoLap`: that the publisher does
not overwrite an unread message (`HeldInv`) needs that a chunk which the tracker calls
free has no bits set (`CountInv`), which needs that bits are cleared once, and
`NoLap` is what makes "the message at the read index" a fact about the ring. The
proofs have one step per action. `AvailableLeavesRoom` is used where the publisher
decides to go on.

That the push without a lock is sound rests on more, `GiveInv`. Every slot in use,
alive, dead or being reaped, `Owns` the last so many of the committed messages: all
from the descriptor it has reached, without the first when its bit there is cleared
already (`Dropped`). `SuffixInv` says that it has its bit in each of those chunks. So
the slot that `fetch_and` elects as the last holder of a chunk owns more messages
than anybody else (`LastHolderLeads`), and as long as it gives the chunk back nobody
owns more than it does (`GiverInv`); somebody who were the last holder of another
chunk meanwhile would have to. This is `OnePusher`. The reaper is no exception: what
a dead slot owns starts at the descriptor the reaper has come to.

`SuffixInv` fails when a chunk is written again while a slot that has cleared its bit
there has not yet moved its read index past the old descriptor: that slot's bit would
be set where it no longer looks. `NotReused` excludes it, by way of the list. `ListInv`
says that the free list is a sequence of different chunks from `head` to `tail`,
linked by `word`, which nobody holds, uses or is giving back, and that a chunk
somebody has `Dropped` is not on it or is the last. It may be the last, since another
slot may have given it back meanwhile; it never gets further forward, because whoever
pushes the next chunk owns the messages the slow slot has still to pass
(`TailPassed`), and it is not taken, because the publisher leaves the last chunk on
the list. This is what the test `head_off == tail_off` is for, which the log calls
`free-list empty` (`publisher.cpp:983`): the list has one chunk more.

The list stays, loses its head or gets a new last chunk (`ListKept`, `ListShrinks`,
`ListGrows`), and `ListStep` sorts the actions into these three. `NobodyFails` then
follows at the four steps that could fail: the head is loose (`ListEnds`), a chunk
with a bit is in use (`CountInv`), and what is read has its magic (`MagicInv`: a link
is written into the last chunk of the list, which has no bits) and its number (`NoLap`
and `HeldInv`). With deaths inside `read_data` chunks leak, so `NoChunkLeaks` is stated
without them. `Walk`, the recursive function behind the two properties of the list, is
shown to go along the sequence (`WalkFollows`), which is no longer than there are
chunks (`ListLength`). TLC checked all parts of `GiveInv` with 2 slots before they were
proved, with and without deaths inside `read_data`.

`AsyncPublisher`. That the worker publishes in order and that tickets are true
cannot be separated: a message overwritten, restored or taken at the wrong moment
breaks both. `IInv` joins the queue, the tickets and shared memory. `OrderInv`: the
message in flight and those behind it are in the order of the calls. `WaitInv`: a
ticket waits if and only if its message is in that line and the thread has not
completed the line yet. `LogInv`: everything in shared memory is older than what is
in the line, but for the message in flight, in state `Publishing`, between
`try_publish_one` and its completion. `ControlInv` ties this to where the worker and
the owner are: a worker without an error ends only for an owner that joins it, with
the intent of that owner. For the refinement the line is counted: a bijection with
the tickets that wait shows that `queue_is_full` means what `TicketQueue` calls full.

`Broker`. The tables are updated one after the other, and neither theorem is
inductive alone. `ListsInv`: the lists of a topic hold the registered clients that
named it, each once. `AttachmentsInv`: a subscriber has one attachment to each
publisher it matches, and none else. `SlotsInv`: a slot is free or leased, to one.
A publisher's end finds its attachments because of the first two
(`FirstToIs`); a subscriber's registration gives each publisher's slot out once
because the publishers of its topics occur once in what it goes through
(`RoutesAre`), which is where the lists of the topics matter. `TopicTablesAgree`
also counts: the attachments of a subscriber are a bijection with its publishers.

The clients see the tables through their sockets, and `SocketInv` says how. What a
client holds under a *key* (the attachment in a slot, for a publisher; an attachment
id, for a subscriber) is changed by the packets in its queue one after the other;
`Says` is what a packet says of a key, `Told` the last thing said before a position.
`LedgerInv`: leases and ends of leases of a key take turns, so the client accepts
each. `AgreeInv`: behind the last packet stands what the broker has leased, as long
as the broker runs and the client lives; the clause about a living client is needed
because a death empties the queue before the broker hears of it. `HandshakeInv`:
the count comes first, and the registrations that a publisher waits for are behind
it, before any disconnect. `NewsInv`: a tenant that a publisher is told to forget,
or that had the slot of a new one before, is dead; it is kept by the handlers because
of `TenantsInv`, that a tenant without an attachment is dead, and by everything else
because nobody comes back to life. `ConnectionInv` ties the state of a process to its
role and its queue.

The handlers of the broker differ in what they send, and a send may fail anywhere,
so the proof is split there. `Queues` is about any list of packets of which any
prefix arrives: if the list says of each lease of each living client what the handler
does to the lease, once and in turn (`Turns`), and nothing that is false (`True`),
then the queues are as `SocketInv` wants them. It rests on `ArrivesIs` (what arrives
at a client is the part of the list that is for it, in order) and `Writing`. Each handler then has to be shown to send such a list, and for
`PublisherRegistration` that the list begins the handshake (`HandshakeStarts`, which
counts). Clients read by `Reading`: taking the head of a queue changes what the
client holds by what the head says, and nothing else.
`PublisherAgrees` and `SubscriberAgrees` follow from `AgreeInv`,
`NoPacketIsRejected` from `ConnectionInv`, whose clause on `"failed"` needs
`LedgerInv` and `HandshakeInv`; `SlotsChangeHandsSafely` follows from `NewsInv` at
the two steps that change `tracked`. TLC checked all parts of `SocketInv` on the
instances of `Broker_reuse` and `Broker_mesh` before they were proved, with
attachment ids up to 20.

`SubscriberEndpoint`. `IInv` has ten parts, and the proofs of their preservation
cite each other. `DescriptorsAreOwned` is close to inductive, but a disconnect closes
the right descriptors only because the two tables are inverse to each other
(`TablesInv`), and a batch installs under free numbers only because a publisher is
announced once and its announcement comes before its end (`QueueInv`, about all
packets that have been sent and not read). That the descriptors of a packet get
distinct free numbers is a fact about counting (`NthElement`, by induction on the
size of a set; `Installation` says what a batch does of which any number of
attachments has been installed). `MessagesInv` bounds the read index between what
was delivered and what was committed. It fails by one when a callback throws, so
`ControlInv` and `WorkerInv` say that the thread is then past its loop, and
`ShutdownInv` that only an owner that is going to join makes it leave the loop
without an error: nobody reads that message again. `NothingIsForgotten` is not
inductive since a packet brings an attachment that has messages already: `ProgressInv`
says the same of attachments that wait in the socket, and that the signal of such a
publisher is still in its eventfd. The action property follows from `IInv` at each
step; the refinement maps the object's steps to those of `Subscription` or to
stutters, step by step. Before they were proved, TLC checked all parts of `IInv` on the
instance of `SubscriberEndpoint_safe`.

`ListLemmas` carries what these proofs need of `FlattenSeq` and `RemoveFirst` for
lists of every length. Induction is stated with a set, not a predicate (`Induct`),
from the well-foundedness of `<` on `Nat`; recursive functions are then reasoned
about as sets of numbers for which they exist (`FlattenFunction`).

`UsageTracker`. `IInv == TypeOK /\ Custody`: a chunk is on the free list, or has
bits, or is in the hands of exactly one process that is at the tracker for it, and
its entry is what that place says. `Custody` does not mention the mutex. That is
the point: the checks stay right after the mutex has become useless, because the
protocol of the reference bits gives every entry one user.

`Logger`. `IInv == TypeOK /\ LinesInOrder /\ LastSwap`: once the backend has
swapped after `stop_` was set, what was pushed before is at or behind the back
buffer. The order of the buffers comes from associativity of concatenation, and
from the back buffer being empty whenever it is swapped.

Model-checked only:

- liveness under fairness, which is beyond the prover: `EveryMessageArrives`,
  `BlockedPublisherResumes`, `ClientsCatchUp`, `EveryTicketCompletes`,
  `EveryAnnouncementIsHandled`, `NobodyIsStuck`, `BackendGetsDone`.

Every other property of a passing run is a theorem.

## What the code does and the documents deny

- `Broker_unregistered`: a connection that ends before it registers ends the
  broker (`broker.cpp:677`). `Subscriber::create` with an invalid topic list does
  this: it connects first and looks at the list afterwards.
- `Broker_ends`: when two associated endpoints end together, the notification of
  the second about the first fails and the broker exits (`broker.cpp:356`, `488`).
  Endpoints that are still alive are told nothing.
- `UsageTracker_exclusion`: `src/notes/01-spsc-ring/08-pthread-mutex-in-shm.md:241,244` says that the
  mutex protects `is_in_use` and that `EOWNERDEAD` is handled with
  `pthread_mutex_consistent`. The code ignores what `pthread_mutex_lock` returns
  (`publisher.cpp:1042`, `731`; `subscriber.cpp:488`, `974`) and never calls it: from
  the first unlock after a holder's death on, the mutex excludes nobody.

Smaller differences, found while reading: `tests/README.md:33` says that slots are
never reused, the broker reuses them from a heap; `docs/broker_protocol.md:45-48`
has one descriptor with a publisher's registration and two per attachment, the
code sends two and three.

## Not modelled

- Five size classes in `DataPlane`: the classes have separate free lists, and a
  message uses one. (`AsyncPublisher` has two.) A class of one chunk could never be
  used, since the last chunk is kept back.
- Overflow of `seq_` and of attachment ids: both are beyond the bound of every run,
  and no comparison of the code depends on what they become.
- A failure to write the shutdown eventfd of a worker (`publisher.cpp:680-686`): it
  is logged, and `join` then waits for a worker that nobody has told to stop.
  `SignalStop` succeeds.
- Refused arguments and `create()` of the publisher, the error returns of system
  calls inside it, malformed packets, which the broker does not send.
- Moving an endpoint onto an object with resources of its own, which releases
  those first, as destruction does.
- The eventfd, `accept` and epoll failures of the broker, and its descriptors.
- Tickets after a move that could not restart the worker: they are lost with the
  object, and `NoTicketIsBroken` leaves that case out.
- Packets behind one that failed: `NothingIsForgotten` leaves failures out.
- Weak memory: see `DataPlane`.
- The text of log entries and of the status snapshot, sample nodes, test scripts.

## Plan

1. Done: `RingIndex`, `MessageLog`, `DataPlane` with proofs, also about its free
   list; `UsageTracker`, `Logger` with proofs; `Broker` with proofs about its tables
   and its sockets; `TicketQueue`, `AsyncPublisher` with proofs; `Subscription`,
   `SubscriberEndpoint` with proofs.
2. `create()` of the publisher with its descriptors; the broker's own descriptors.
