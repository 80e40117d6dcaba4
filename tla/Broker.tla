------------------------------- MODULE Broker -------------------------------
(***************************************************************************)
(* The control plane: the broker process, its tables, the control sockets, *)
(* and what publishers and subscribers do with the broker's messages.      *)
(*                                                                         *)
(* Source: broker.cpp and the control-message handling of                  *)
(* src/src/publisher.cpp and src/src/subscriber.cpp.                       *)
(*                                                                         *)
(* The broker is one thread that handles a packet, or the end of a         *)
(* connection, at a time; a client reads its packets when it gets to them. *)
(* A socket is a FIFO queue.  A packet cannot be sent to a process that    *)
(* has ended (EPIPE) or to a full queue (EAGAIN), and every failed send of *)
(* the broker, but for the status snapshot, ends the broker.               *)
(*                                                                         *)
(* Abstractions.  A client is one connection: a process that starts again  *)
(* is another member of the set.  File descriptors are the attachment they *)
(* belong to.  SubscriberAttachment records never change, so they are kept *)
(* in the sequence granted and the tables hold attachment ids.             *)
(***************************************************************************)
EXTENDS Integers, SequencesExt

CONSTANTS
  Publishers, Subscribers,
  Observers,           \* broker_status_cli processes
  Topics,
  TopicOf,             \* topic of each publisher
  TopicsOf,            \* topic list of each subscriber
  SlotCount,           \* kMaxSubscribers
  MaxBatch,            \* kMaxAttachmentsPerBatch
  QueueCap             \* packets a socket's queue holds

ASSUME TopicAssumption ==
  /\ TopicOf \in [Publishers -> Topics]
  /\ \A s \in Subscribers :
       /\ TopicsOf[s] \in Seq(Topics) /\ TopicsOf[s] # <<>>
       /\ \A i, j \in DOMAIN TopicsOf[s] : TopicsOf[s][i] = TopicsOf[s][j] => i = j
ASSUME SizesAssumption == {SlotCount, MaxBatch, QueueCap} \subseteq Nat \ {0}
ASSUME RolesAssumption ==
  /\ Publishers \cap Subscribers = {}
  /\ Observers \cap (Publishers \cup Subscribers) = {}

Clients == Publishers \cup Subscribers \cup Observers
Slot == 0 .. SlotCount - 1
NoId == 0              \* kInvalidAttachmentId
Unknown == -1          \* the initial subscriber count has not arrived

VARIABLES
  \* the broker
  broker,              \* "up", or the reason it has exited
  role,                \* role_by_fd; "gone" when the connection is closed
  topicSubs,           \* subscriber_fds_by_topic_id
  topicPubs,           \* publisher_fds_by_topic_id
  free,                \* the heap of available slots of each publisher
  attach,              \* subscriber_attachments_by_subscriber_fd, ids in order
  granted,             \* the attachment of each id given out so far
  \* sockets
  pending,             \* the client's packet is waiting to be handled
  inbox,               \* packets to each client
  \* clients
  proc,                \* what each client process is doing
  awaiting,            \* registrations the publisher's handshake still expects
  tracked,             \* the attachment each slot of a publisher signals
  installed            \* attachments a subscriber has mapped

tables == <<role, topicSubs, topicPubs, free, attach, granted>>
clients == <<proc, awaiting, tracked, installed>>
vars == <<broker, tables, pending, inbox, clients>>

Exits == {"shutDown", "noRole", "noSlot", "batchTooLarge", "inconsistent", "registerSend",
          "disconnectSend"}

\* The process has its socket open.
Open(c) == proc[c] \notin {"off", "dead"}

Attachment(s, p, x) == [sub |-> s, pub |-> p, slot |-> x]

Init ==
  /\ broker = "up"
  /\ role = [c \in Clients |-> "none"]
  /\ topicSubs = [t \in Topics |-> <<>>] /\ topicPubs = [t \in Topics |-> <<>>]
  /\ free = [p \in Publishers |-> {}]
  /\ attach = [s \in Subscribers |-> <<>>]
  /\ granted = <<>>
  /\ pending = [c \in Clients |-> FALSE]
  /\ inbox = [c \in Clients |-> <<>>]
  /\ proc = [c \in Clients |-> "off"]
  /\ awaiting = [p \in Publishers |-> Unknown]
  /\ tracked = [p \in Publishers |-> [x \in Slot |-> NoId]]
  /\ installed = [s \in Subscribers |-> {}]

-----------------------------------------------------------------------------
(* Sending *)

CountPacket(p, n) == [to |-> p, type |-> "count", count |-> n]
Registered(p, x, id) ==
  [to |-> p, type |-> "SubscriberEventFdAndSlot", slot |-> x, id |-> id]
Left(p, x) == [to |-> p, type |-> "SubscriberDisconnected", slot |-> x]
Batch(s, ids) == [to |-> s, type |-> "SubscriberAttachmentBatch", ids |-> ids]
Gone(s, id) == [to |-> s, type |-> "PublisherDisconnected", id |-> id]

\* The k-th of a handler's packets finds its receiver alive and its queue not full.
Reaches(sends, k) ==
  LET c == sends[k].to IN
  /\ Open(c)
  /\ Len(inbox[c]) + Cardinality({i \in 1 .. k : sends[i].to = c}) <= QueueCap

\* How many are sent until the first that fails.
SentCount(sends) ==
  CHOOSE k \in 0 .. Len(sends) :
    /\ \A i \in 1 .. k : Reaches(sends, i)
    /\ k < Len(sends) => ~Reaches(sends, k + 1)

AllSent(sends) == SentCount(sends) = Len(sends)

\* What has been sent arrives, whether or not the handler goes on.
Arrives(sends, c) ==
  FlattenSeq([k \in 1 .. SentCount(sends) |-> IF sends[k].to = c THEN <<sends[k]>> ELSE <<>>])
\* (Bound by \E so that TLC evaluates the list once.)
Post(sends) ==
  \E list \in {sends} : inbox' = [c \in Clients |-> inbox[c] \o Arrives(list, c)]

-----------------------------------------------------------------------------
(* The broker.  After an exit its tables mean nothing. *)

\* The last topic of the list is left out.  (mutant)
RoutesButLast(topics) == FlattenSeq([k \in 1 .. Len(topics) - 1 |-> topicPubs[topics[k]]])

\* The publishers of the topics in the list, in the order they are attached.
Routes(topics) == FlattenSeq([k \in DOMAIN topics |-> topicPubs[topics[k]]])

\* The slot is read and not popped.  (mutant)
StillFree(p, x) == free[p]

\* The top of the min-heap, and the heap without it.
TopSlot(p) == Min(free[p])
WithoutSlot(p, x) == free[p] \ {x}

\* How many have a slot to give, up to the first that has none.
Fits(pubs) ==
  CHOOSE k \in 0 .. Len(pubs) :
    /\ \A i \in 1 .. k : free[pubs[i]] # {}
    /\ k < Len(pubs) => free[pubs[k + 1]] = {}

\* s is attached to the first fits of pubs.
RegisterWith(s, pubs, fits) ==
  LET ids == [k \in 1 .. fits |-> Len(granted) + k]
      sends == [k \in 1 .. fits |-> Registered(pubs[k], TopSlot(pubs[k]), ids[k])]
                 \o (IF fits = Len(pubs) /\ fits <= MaxBatch
                       THEN <<Batch(s, ids)>> ELSE <<>>)
  IN
  /\ broker = "up" /\ pending[s] /\ role[s] = "none"
  /\ pending' = [pending EXCEPT ![s] = FALSE]
  /\ role' = [role EXCEPT ![s] = "subscriber"]
  /\ topicSubs' = [t \in Topics |-> IF t \in Range(TopicsOf[s])
                                      THEN Append(topicSubs[t], s) ELSE topicSubs[t]]
  /\ free' = [p \in Publishers |-> IF p \in Range(SubSeq(pubs, 1, fits))
                                     THEN WithoutSlot(p, TopSlot(p)) ELSE free[p]]
  /\ granted' = granted \o [k \in 1 .. fits |->
                              Attachment(s, pubs[k], TopSlot(pubs[k]))]
  /\ attach' = [attach EXCEPT ![s] = ids]
  /\ Post(sends)
  /\ broker' = CASE \E k \in DOMAIN pubs : role[pubs[k]] # "publisher" -> "inconsistent"
                 [] ~AllSent(sends)   -> "registerSend"
                 [] fits < Len(pubs)  -> "noSlot"
                 [] fits > MaxBatch   -> "batchTooLarge"
                 [] OTHER             -> "up"
  /\ UNCHANGED <<topicPubs, clients>>

\* (Bound by \E so that TLC evaluates them once.)
HandleSubscriberRegistration(s) ==
  \E pubs \in {Routes(TopicsOf[s])} : \E fits \in {Fits(pubs)} : RegisterWith(s, pubs, fits)

\* Nobody looks whether the slots suffice.  (mutant)
RoomUnchecked(subs) == TRUE

\* The subscribers are no more than the slots of a new heap.
HasRoom(subs) == Len(subs) <= SlotCount

\* A publisher's heap is new: slots 0, 1, ... go to the subscribers of its topic.
HandlePublisherRegistration(p) ==
  LET subs == topicSubs[TopicOf[p]]
      fits == HasRoom(subs)
      known == 1 .. (IF fits THEN Len(subs) ELSE 0)
      sends == IF fits
                 THEN <<CountPacket(p, Len(subs))>> \o
                      [j \in 1 .. 2 * Len(subs) |->
                        LET k == (j + 1) \div 2 IN
                        IF j % 2 = 1 THEN Registered(p, k - 1, Len(granted) + k)
                                     ELSE Batch(subs[k], <<Len(granted) + k>>)]
                 ELSE <<>>
  IN
  /\ broker = "up" /\ pending[p] /\ role[p] = "none"
  /\ pending' = [pending EXCEPT ![p] = FALSE]
  /\ role' = [role EXCEPT ![p] = "publisher"]
  /\ topicPubs' = [topicPubs EXCEPT ![TopicOf[p]] = Append(@, p)]
  /\ free' = [free EXCEPT ![p] = Slot \ {k - 1 : k \in known}]
  /\ granted' = granted \o [k \in known |-> Attachment(subs[k], p, k - 1)]
  /\ attach' = [s \in Subscribers |->
                  IF \E k \in known : subs[k] = s
                    THEN Append(attach[s], Len(granted) + CHOOSE k \in known : subs[k] = s)
                    ELSE attach[s]]
  /\ Post(sends)
  /\ broker' = CASE ~fits           -> "noSlot"
                 [] \E k \in known : role[subs[k]] # "subscriber" -> "inconsistent"
                 [] ~AllSent(sends) -> "registerSend"
                 [] OTHER           -> "up"
  /\ UNCHANGED <<topicSubs, clients>>

\* The snapshot is sent or not, and the broker closes the connection.
HandleStatusQuery(o) ==
  /\ broker = "up" /\ pending[o]
  /\ pending' = [pending EXCEPT ![o] = FALSE]
  /\ role' = [role EXCEPT ![o] = "gone"]
  /\ UNCHANGED <<broker, topicSubs, topicPubs, free, attach, granted, inbox, clients>>

\* The connection is at its end: the process has, and its packet is handled.
Ended(c) == proc[c] = "dead" /\ ~pending[c]

\* The last publisher on the list is not told.  (mutant)
AllButLastLeft(s) ==
  [k \in 1 .. Len(attach[s]) - 1 |->
     Left(granted[attach[s][k]].pub, granted[attach[s][k]].slot)]

\* The position in the list is sent in place of the slot.  (mutant)
LeftByPosition(s) ==
  [k \in 1 .. Len(attach[s]) |-> Left(granted[attach[s][k]].pub, k - 1)]

LeftPackets(s) ==
  [k \in 1 .. Len(attach[s]) |->
     Left(granted[attach[s][k]].pub, granted[attach[s][k]].slot)]

\* The slots of s go back into the heaps.
Returned(s, p) == {granted[id].slot : id \in {i \in Range(attach[s]) : granted[i].pub = p}}

HandleSubscriberEnd(s) ==
  /\ broker = "up" /\ role[s] = "subscriber" /\ Ended(s)
  /\ role' = [role EXCEPT ![s] = "gone"]
  /\ topicSubs' = [t \in Topics |-> IF t \in Range(TopicsOf[s])
                                      THEN RemoveFirst(topicSubs[t], s) ELSE topicSubs[t]]
  /\ free' = [p \in Publishers |-> free[p] \cup Returned(s, p)]
  /\ attach' = [attach EXCEPT ![s] = <<>>]
  /\ Post(LeftPackets(s))
  /\ broker' = CASE \/ \E id \in Range(attach[s]) : role[granted[id].pub] # "publisher"
                    \/ \E t \in Range(TopicsOf[s]) : s \notin Range(topicSubs[t]) -> "inconsistent"
                 [] ~AllSent(LeftPackets(s)) -> "disconnectSend"
                 [] OTHER -> "up"
  /\ UNCHANGED <<topicPubs, granted, pending, clients>>

\* The attachment of s that find_if returns, if there is one.
FirstTo(s, p) ==
  LET found == {k \in DOMAIN attach[s] : granted[attach[s][k]].pub = p} IN
  IF found = {} THEN NoId
  ELSE attach[s][Min(found)]

\* The attachment stays in the subscriber's list.  (mutant)
KeepAttachment(s, id) == attach[s]

DropAttachment(s, id) == RemoveFirst(attach[s], id)

HandlePublisherEnd(p) ==
  LET subs == topicSubs[TopicOf[p]]
      sends == [k \in 1 .. Len(subs) |-> Gone(subs[k], FirstTo(subs[k], p))]
  IN
  /\ broker = "up" /\ role[p] = "publisher" /\ Ended(p)
  /\ role' = [role EXCEPT ![p] = "gone"]
  /\ topicPubs' = [topicPubs EXCEPT ![TopicOf[p]] = RemoveFirst(@, p)]
  /\ free' = [free EXCEPT ![p] = {}]
  /\ attach' = [s \in Subscribers |-> IF s \in Range(subs)
                                        THEN DropAttachment(s, FirstTo(s, p))
                                        ELSE attach[s]]
  /\ Post(sends)
  /\ broker' = CASE \/ p \notin Range(topicPubs[TopicOf[p]])
                    \/ \E s \in Range(subs) : FirstTo(s, p) = NoId -> "inconsistent"
                 [] ~AllSent(sends) -> "disconnectSend"
                 [] OTHER           -> "up"
  /\ UNCHANGED <<topicSubs, granted, pending, clients>>

\* The end of a connection without a role ends the broker.
HandleUnregisteredEnd(c) ==
  /\ broker = "up" /\ role[c] = "none" /\ Ended(c)
  /\ broker' = "noRole"
  /\ UNCHANGED <<tables, pending, inbox, clients>>

\* SIGINT or SIGTERM
Shutdown ==
  /\ broker = "up"
  /\ broker' = "shutDown"
  /\ UNCHANGED <<tables, pending, inbox, clients>>

-----------------------------------------------------------------------------
(* The clients *)

Connect(c) ==
  /\ proc[c] = "off" /\ broker = "up"
  /\ proc' = [proc EXCEPT ![c] = "connected"]
  /\ UNCHANGED <<broker, tables, pending, inbox, awaiting, tracked, installed>>

\* Publisher::create waits for the broker's answer, Subscriber::create does not.
Register(c) ==
  /\ proc[c] = "connected"
  /\ IF broker = "up"
       THEN /\ pending' = [pending EXCEPT ![c] = TRUE]
            /\ proc' = [proc EXCEPT ![c] = IF c \in Publishers THEN "greeting" ELSE "running"]
       ELSE /\ proc' = [proc EXCEPT ![c] = "cutOff"]
            /\ UNCHANGED pending
  /\ UNCHANGED <<broker, tables, inbox, awaiting, tracked, installed>>

\* Killed, returning from main, or failing in create().
Die(c) ==
  /\ Open(c)
  /\ proc' = [proc EXCEPT ![c] = "dead"]
  /\ inbox' = [inbox EXCEPT ![c] = <<>>]
  /\ tracked' = [p \in Publishers |-> IF p = c THEN [x \in Slot |-> NoId] ELSE tracked[p]]
  /\ installed' = [s \in Subscribers |-> IF s = c THEN {} ELSE installed[s]]
  /\ UNCHANGED <<broker, tables, pending, awaiting>>

\* recv returns 0
BrokerClosed(c) ==
  /\ broker # "up" /\ proc[c] \in {"greeting", "running"} /\ inbox[c] = <<>>
  /\ proc' = [proc EXCEPT ![c] = "cutOff"]
  /\ UNCHANGED <<broker, tables, pending, inbox, awaiting, tracked, installed>>

ReceiveCount(p) ==
  LET m == Head(inbox[p]) IN
  /\ proc[p] = "greeting" /\ awaiting[p] = Unknown /\ inbox[p] # <<>>
  /\ inbox' = [inbox EXCEPT ![p] = Tail(@)]
  /\ IF m.type = "count"
       THEN /\ awaiting' = [awaiting EXCEPT ![p] = m.count]
            /\ proc' = [proc EXCEPT ![p] = IF m.count = 0 THEN "running" ELSE "greeting"]
       ELSE /\ proc' = [proc EXCEPT ![p] = "failed"]
            /\ UNCHANGED awaiting
  /\ UNCHANGED <<broker, tables, pending, tracked, installed>>

\* track_subscriber: SlotAlreadyTracked
CanTrack(p, x) == tracked[p][x] = NoId

\* One of the registrations the count announced.
ReceiveInitialRegistration(p) ==
  LET m == Head(inbox[p]) IN
  /\ proc[p] = "greeting" /\ awaiting[p] > 0 /\ inbox[p] # <<>>
  /\ inbox' = [inbox EXCEPT ![p] = Tail(@)]
  /\ IF m.type = "SubscriberEventFdAndSlot" /\ CanTrack(p, m.slot)
       THEN /\ tracked' = [tracked EXCEPT ![p][m.slot] = m.id]
            /\ awaiting' = [awaiting EXCEPT ![p] = @ - 1]
            /\ proc' = [proc EXCEPT ![p] = IF awaiting[p] = 1 THEN "running" ELSE "greeting"]
       ELSE /\ proc' = [proc EXCEPT ![p] = "failed"]
            /\ UNCHANGED <<tracked, awaiting>>
  /\ UNCHANGED <<broker, tables, pending, installed>>

PublisherReceive(p) ==
  LET m == Head(inbox[p])
      tracks == m.type = "SubscriberEventFdAndSlot" /\ CanTrack(p, m.slot)
      reaps == m.type = "SubscriberDisconnected" /\ tracked[p][m.slot] # NoId
  IN
  /\ proc[p] = "running" /\ inbox[p] # <<>>
  /\ inbox' = [inbox EXCEPT ![p] = Tail(@)]
  /\ tracked' = CASE tracks -> [tracked EXCEPT ![p][m.slot] = m.id]
                  [] reaps  -> [tracked EXCEPT ![p][m.slot] = NoId]
                  [] OTHER  -> tracked
  /\ proc' = [proc EXCEPT ![p] = IF tracks \/ reaps THEN "running" ELSE "failed"]
  /\ UNCHANGED <<broker, tables, pending, awaiting, installed>>

\* install_subscriber_attachment_batch and handle_publisher_disconnected
SubscriberReceive(s) ==
  LET m == Head(inbox[s])
      installs == /\ m.type = "SubscriberAttachmentBatch"
                  /\ Range(m.ids) \cap installed[s] = {}
      drops == m.type = "PublisherDisconnected" /\ m.id \in installed[s]
  IN
  /\ proc[s] = "running" /\ inbox[s] # <<>>
  /\ inbox' = [inbox EXCEPT ![s] = Tail(@)]
  /\ installed' = CASE installs -> [installed EXCEPT ![s] = @ \cup Range(m.ids)]
                    [] drops    -> [installed EXCEPT ![s] = @ \ {m.id}]
                    [] OTHER    -> installed
  /\ proc' = [proc EXCEPT ![s] = IF installs \/ drops THEN "running" ELSE "failed"]
  /\ UNCHANGED <<broker, tables, pending, awaiting, tracked>>

-----------------------------------------------------------------------------
BrokerStep ==
  \/ \E s \in Subscribers : HandleSubscriberRegistration(s) \/ HandleSubscriberEnd(s)
  \/ \E p \in Publishers : HandlePublisherRegistration(p) \/ HandlePublisherEnd(p)
  \/ \E o \in Observers : HandleStatusQuery(o)
  \/ \E c \in Clients : HandleUnregisteredEnd(c)

PublisherStep(p) ==
  ReceiveCount(p) \/ ReceiveInitialRegistration(p) \/ PublisherReceive(p)

ClientReceives ==
  \/ \E p \in Publishers : PublisherStep(p)
  \/ \E s \in Subscribers : SubscriberReceive(s)

Next ==
  \/ BrokerStep \/ Shutdown \/ ClientReceives
  \/ \E c \in Clients : Connect(c) \/ Register(c) \/ Die(c) \/ BrokerClosed(c)

Spec == Init /\ [][Next]_vars

(***************************************************************************)
(* The broker's loop runs, and clients whose loop is a worker thread, or   *)
(* whose application keeps calling publish() and subscribe(), read their   *)
(* packets.  Nobody has to connect, register or die.  A client registers   *)
(* and ends once, so there is an end to what the broker and the clients    *)
(* have to do, and it is enough that each side goes on with any of it.     *)
(***************************************************************************)
Fairness ==
  /\ WF_vars(BrokerStep)
  /\ WF_vars(ClientReceives)

FairSpec == Spec /\ Fairness

-----------------------------------------------------------------------------
(* Properties *)

Ids == DOMAIN granted

BrokerTypeOK ==
  /\ broker \in {"up"} \cup Exits
  /\ role \in [Clients -> {"none", "subscriber", "publisher", "gone"}]
  /\ topicSubs \in [Topics -> Seq(Subscribers)]
  /\ topicPubs \in [Topics -> Seq(Publishers)]
  /\ free \in [Publishers -> SUBSET Slot]
  /\ granted \in Seq([sub : Subscribers, pub : Publishers, slot : Slot])
  /\ attach \in [Subscribers -> Seq(Ids)]

ClientTypeOK ==
  /\ pending \in [Clients -> BOOLEAN]
  /\ proc \in [Clients -> {"off", "connected", "greeting", "running", "cutOff", "failed",
                           "dead"}]
  /\ awaiting \in [Publishers -> {Unknown} \cup 0 .. SlotCount]
  /\ tracked \in [Publishers -> [Slot -> {NoId} \cup Ids]]
  /\ installed \in [Subscribers -> SUBSET Ids]

PublisherPackets(ids) ==
  [to : Publishers, type : {"count"}, count : 0 .. SlotCount] \cup
  [to : Publishers, type : {"SubscriberEventFdAndSlot"}, slot : Slot, id : ids] \cup
  [to : Publishers, type : {"SubscriberDisconnected"}, slot : Slot]
Batches(ids) == {batch \in Seq(ids) : Len(batch) <= MaxBatch}
SubscriberPackets(ids) ==
  [to : Subscribers, type : {"SubscriberAttachmentBatch"}, ids : Batches(ids)] \cup
  [to : Subscribers, type : {"PublisherDisconnected"}, id : ids]

PacketTypeOK ==
  /\ DOMAIN inbox = Clients
  /\ \A p \in Publishers : inbox[p] \in Seq(PublisherPackets(Ids))
  /\ \A s \in Subscribers : inbox[s] \in Seq(SubscriberPackets(Ids))
  /\ \A o \in Observers : inbox[o] = <<>>

(***************************************************************************)
(* Tables, packets and clients hold values of their types.  Every packet   *)
(* is one its receiver has a case for, and its fields are within what the  *)
(* receiver indexes with them: a slot is one of the publisher's, an id has *)
(* been given out, the count and a batch are no longer than the arrays     *)
(* they announce (BrokerSubscriberSlotCapacityError, kMaxAttachmentsPer-   *)
(* Batch).                                                                 *)
(***************************************************************************)
TypeOK == BrokerTypeOK /\ ClientTypeOK /\ PacketTypeOK

\* The broker and the client both count on each other.
Serving(c) == broker = "up" /\ Open(c) /\ role[c] \in {"subscriber", "publisher"}

\* The attachment that leases slot x of p to somebody, as the broker has it.
Lease(p, x) ==
  LET leased == {id \in UNION {Range(attach[s]) : s \in Subscribers} :
                   granted[id].pub = p /\ granted[id].slot = x}
  IN IF leased = {} THEN NoId ELSE CHOOSE id \in leased : TRUE

\* What p will signal in slot x when it has read the packets on their way.
TrackedAfter(p, x) ==
  LET about == {k \in DOMAIN inbox[p] : inbox[p][k].type # "count" /\ inbox[p][k].slot = x}
      last == inbox[p][Max(about)]
  IN IF about = {} THEN tracked[p][x]
     ELSE IF last.type = "SubscriberEventFdAndSlot" THEN last.id ELSE NoId

(***************************************************************************)
(* A publisher and the broker agree, but for the packets on their way, who *)
(* has which slot: the broker gives a slot away again before the publisher *)
(* has reaped the dead subscriber (handle_subsciber_disconect), and the    *)
(* order of the packets is all that keeps the two apart.                   *)
(***************************************************************************)
PublisherAgrees ==
  \A p \in Publishers : Serving(p) =>
    \A x \in Slot : TrackedAfter(p, x) = Lease(p, x)

\* What s will have mapped when it has read the packets on their way.
InstalledAfter(s) ==
  LET about(id) == {k \in DOMAIN inbox[s] :
                      IF inbox[s][k].type = "PublisherDisconnected"
                        THEN inbox[s][k].id = id ELSE id \in Range(inbox[s][k].ids)}
  IN {id \in Ids :
        IF about(id) = {} THEN id \in installed[s]
        ELSE inbox[s][Max(about(id))].type = "SubscriberAttachmentBatch"}

(***************************************************************************)
(* In the broker's tables a subscriber in the list of a topic is attached  *)
(* once to every publisher of the topic, and to nobody else, whoever came  *)
(* first and whoever has left: the look-ups of the registrations and of    *)
(* handle_publisher_disconnect find what they look for, on which they exit *)
(* otherwise.                                                              *)
(***************************************************************************)
TopicTablesAgree ==
  /\ broker # "inconsistent"
  /\ broker = "up" =>
       \A s \in Subscribers :
         LET pubs == UNION {Range(topicPubs[t]) :
                              t \in {u \in Topics : s \in Range(topicSubs[u])}}
         IN /\ {granted[id].pub : id \in Range(attach[s])} = pubs
            /\ Len(attach[s]) = Cardinality(pubs)

(***************************************************************************)
(* The broker and its subscribers agree who is attached to whom: the       *)
(* broker with itself, and each subscriber with the broker but for the     *)
(* packets on their way, in which batches and PublisherDisconnected        *)
(* packets of several publishers share a socket and name attachments by id.*)
(***************************************************************************)
SubscriberAgrees ==
  /\ TopicTablesAgree
  /\ \A s \in Subscribers : Serving(s) => InstalledAfter(s) = Range(attach[s])

(***************************************************************************)
(* No client ever meets a packet it rejects: a slot that is still tracked  *)
(* (SlotAlreadyTracked) or not tracked (PublisherDeadSubscriberNotTracked- *)
(* Error), an attachment id it has (AttachmentIdAlreadyExists) or does not *)
(* have (PublisherDisconnectedAttachmentMissing), a packet of another type *)
(* inside the publisher's handshake.                                       *)
(***************************************************************************)
NoPacketIsRejected == \A c \in Clients : proc[c] # "failed"

(***************************************************************************)
(* The heap of a registered publisher and the leases of its slots share    *)
(* nothing and make up all slots, and no two subscribers have the same one *)
(* (SubscriberTopicRegistration, PublisherTopicRegistration, disconnects). *)
(***************************************************************************)
SlotsArePartitioned ==
  LET leases == UNION {Range(attach[s]) : s \in Subscribers} IN
  broker = "up" =>
    /\ \A p \in Publishers : role[p] = "publisher" =>
         free[p] = Slot \ {granted[id].slot : id \in {i \in leases : granted[i].pub = p}}
    /\ \A i, j \in leases :
         granted[i].pub = granted[j].pub /\ granted[i].slot = granted[j].slot => i = j

(***************************************************************************)
(* A publisher forgets a slot only when the subscriber that had it is dead *)
(* and signals a new one in it only when all that had it before are.  This *)
(* is what DataPlane assumes of Track and ReapBegin.  A later tenant may   *)
(* already have the slot mapped: it does not touch it before the publisher *)
(* signals its own eventfd (initialize_subscriber_read_index).             *)
(***************************************************************************)
SlotsChangeHandsSafely ==
  [][\A p \in Publishers, x \in Slot :
       LET old == tracked[p][x]
           new == tracked'[p][x] IN
       old # new /\ Open(p)' =>
         \A id \in Ids :
           /\ granted[id].pub = p /\ granted[id].slot = x
           /\ id = old \/ id < new
           => proc[granted[id].sub] = "dead"]_vars

-----------------------------------------------------------------------------
(* Liveness *)

Signals(p, s) ==
  \E x \in Slot : tracked[p][x] # NoId /\ granted[tracked[p][x]].sub = s

Maps(s, p) == \E id \in installed[s] : granted[id].pub = p

Attached(s, p) ==
  \E id \in installed[s] : /\ granted[id].pub = p
                           /\ tracked[p][granted[id].slot] = id

(***************************************************************************)
(* The clients catch up with what has happened: a subscriber and a         *)
(* publisher of one of its topics that are both registered are attached to *)
(* each other, whichever came first; a publisher no longer signals a       *)
(* subscriber that has ended, so that it has reaped its messages; and a    *)
(* subscriber no longer maps the memory of a publisher that has ended.  (A *)
(* client comes and goes once, so what holds again and again holds from    *)
(* some time on.)                                                          *)
(***************************************************************************)
ClientsCatchUp ==
  []<>(\A s \in Subscribers, p \in Publishers :
         /\ TopicOf[p] \in Range(TopicsOf[s]) /\ Serving(s) /\ Serving(p) => Attached(s, p)
         /\ proc[s] = "dead" /\ Serving(p) => ~Signals(p, s)
         /\ proc[p] = "dead" /\ Serving(s) => ~Maps(s, p))

-----------------------------------------------------------------------------
(* What the repository says and the broker does not do *)

(***************************************************************************)
(* A closed connection always has a role: BrokerClosedFdRoleMissingError.  *)
(***************************************************************************)
ClosedConnectionHasRole == broker # "noRole"

(***************************************************************************)
(* When a subscriber or a publisher disconnects, the broker tells every    *)
(* associated endpoint; it does not exit over one that has ended too.      *)
(***************************************************************************)
DisconnectsAreDelivered == broker # "disconnectSend"

=============================================================================
