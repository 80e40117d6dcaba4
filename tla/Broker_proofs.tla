--------------------------- MODULE Broker_proofs ---------------------------
(***************************************************************************)
(* The broker's tables agree with each other, for any number of clients,   *)
(* topics and slots: the heap of a publisher and the leases of its slots   *)
(* make up all slots, a subscriber is attached once to every publisher of  *)
(* its topics and to nobody else, and no look-up of a handler fails.       *)
(*                                                                         *)
(* The handlers update several tables one after the other, so neither      *)
(* statement is inductive without the other, nor without the lists of the  *)
(* topics (ListsInv, AttachmentsInv).                                      *)
(*                                                                         *)
(* The second half is about the sockets: what a client holds and what the  *)
(* packets on their way to it say lead, one after the other and in turns,  *)
(* to what the broker has leased (LedgerInv, AgreeInv).  A handler keeps   *)
(* this whatever its list of packets and wherever the sends stop (Queues), *)
(* so for each handler it is left to show that it sends each client, of    *)
(* each lease, what it does to it (Turns), and nothing false (True).       *)
(***************************************************************************)
EXTENDS Broker, ListLemmas, FiniteSetTheorems, FunctionTheorems

\* The lists of a topic are the registered clients that named it, each once.
ListsInv ==
  /\ \A t \in Topics : IsInjective(topicSubs[t]) /\ IsInjective(topicPubs[t])
  /\ \A t \in Topics, s \in Subscribers :
       s \in Range(topicSubs[t]) <=> role[s] = "subscriber" /\ t \in Range(TopicsOf[s])
  /\ \A t \in Topics, p \in Publishers :
       p \in Range(topicPubs[t]) <=> role[p] = "publisher" /\ TopicOf[p] = t

\* They belong to each other.
Match(s, p) == /\ role[s] = "subscriber" /\ role[p] = "publisher"
               /\ TopicOf[p] \in Range(TopicsOf[s])

\* A subscriber has one attachment to each publisher of its topics.
AttachmentsInv ==
  /\ \A s \in Subscribers, id \in Ids :
       id \in Range(attach[s]) => granted[id].sub = s /\ Match(s, granted[id].pub)
  /\ \A s \in Subscribers : IsInjective(attach[s])
  /\ \A s \in Subscribers : \A i, j \in Range(attach[s]) :
       granted[i].pub = granted[j].pub => i = j
  /\ \A s \in Subscribers, p \in Publishers :
       Match(s, p) => \E id \in Range(attach[s]) : granted[id].pub = p

Leased(p, x) == \E s \in Subscribers : \E id \in Range(attach[s]) :
                  granted[id].pub = p /\ granted[id].slot = x

\* A slot is either free or leased, to one.
SlotsInv ==
  /\ \A p \in Publishers : role[p] = "publisher" => \A x \in Slot : x \in free[p] <=> ~Leased(p, x)
  /\ \A r, s \in Subscribers : \A i \in Range(attach[r]), j \in Range(attach[s]) :
       granted[i].pub = granted[j].pub /\ granted[i].slot = granted[j].slot => i = j

TablesInv == ListsInv /\ AttachmentsInv /\ SlotsInv

IInv ==
  /\ BrokerTypeOK
  /\ broker # "inconsistent"
  /\ broker = "up" => TablesInv

-----------------------------------------------------------------------------
LEMMA Given ==
  /\ TopicOf \in [Publishers -> Topics]
  /\ \A s \in Subscribers : /\ TopicsOf[s] \in Seq(Topics) /\ TopicsOf[s] # <<>>
                            /\ IsInjective(TopicsOf[s])
  /\ SlotCount \in Nat \ {0}
  /\ \A s \in Subscribers : s \notin Publishers /\ s \notin Observers /\ s \in Clients
  /\ \A p \in Publishers : p \notin Subscribers /\ p \notin Observers /\ p \in Clients
  /\ \A o \in Observers : o \in Clients
BY TopicAssumption, SizesAssumption, RolesAssumption DEF Clients, IsInjective

\* What the types say of an attachment.
LEMMA Granted ==
  ASSUME BrokerTypeOK
  PROVE  /\ Ids = 1 .. Len(granted) /\ Len(granted) \in Nat
         /\ \A id \in Ids : /\ granted[id].sub \in Subscribers /\ granted[id].pub \in Publishers
                            /\ granted[id].slot \in Slot
         /\ \A s \in Subscribers : attach[s] \in Seq(Ids) /\ Range(attach[s]) \subseteq Ids
<1>1. /\ granted \in Seq([sub : Subscribers, pub : Publishers, slot : Slot])
      /\ attach \in [Subscribers -> Seq(Ids)]
  BY DEF BrokerTypeOK
<1>2. Ids = 1 .. Len(granted) /\ Len(granted) \in Nat
  BY <1>1, LenProperties DEF Ids
<1>3. \A id \in 1 .. Len(granted) : granted[id] \in [sub : Subscribers, pub : Publishers, slot : Slot]
  BY <1>1, ElementOfSeq
<1>4. ASSUME NEW s \in Subscribers PROVE attach[s] \in Seq(Ids) /\ Range(attach[s]) \subseteq Ids
  BY <1>1, RangeOfSeq
<1> QED BY <1>2, <1>3, <1>4

\* The invariant speaks of the broker's tables only.
LEMMA QuietStep ==
  ASSUME IInv, UNCHANGED tables, broker' \in {broker, "noRole", "shutDown"}
  PROVE  IInv'
<1>1. UNCHANGED <<role, topicSubs, topicPubs, free, attach, granted>>
  BY DEF tables
<1>2. BrokerTypeOK'
  BY <1>1 DEF IInv, BrokerTypeOK, Ids, Exits
<1>3. broker' # "inconsistent" /\ (broker' = "up" => broker = "up")
  BY DEF IInv
<1>4. ASSUME broker' = "up" PROVE TablesInv'
  <2>1. TablesInv /\ broker = "up"
    BY <1>3, <1>4 DEF IInv
  <2>2. ListsInv'
    BY <1>1, <2>1 DEF TablesInv, ListsInv
  <2>3. AttachmentsInv'
    BY <1>1, <2>1 DEF TablesInv, AttachmentsInv, Match, Ids
  <2>4. SlotsInv'
    BY <1>1, <2>1 DEF TablesInv, SlotsInv, Leased
  <2> QED BY <2>2, <2>3, <2>4 DEF TablesInv
<1> QED BY <1>2, <1>3, <1>4 DEF IInv

\* The packets that clients read, and their coming and going, are not in the tables.
LEMMA ClientsAreQuiet ==
  ASSUME IInv,
         \/ \E c \in Clients : Connect(c) \/ Register(c) \/ Die(c) \/ BrokerClosed(c)
         \/ ClientReceives \/ Shutdown \/ \E c \in Clients : HandleUnregisteredEnd(c)
         \/ UNCHANGED vars
  PROVE  IInv'
<1>1. UNCHANGED tables /\ broker' \in {broker, "noRole", "shutDown"}
  <2>1. CASE \E c \in Clients : Connect(c) \/ Register(c) \/ Die(c) \/ BrokerClosed(c)
    BY <2>1 DEF Connect, Register, Die, BrokerClosed
  <2>2. CASE ClientReceives
    BY <2>2 DEF ClientReceives, PublisherStep, ReceiveCount, ReceiveInitialRegistration,
                PublisherReceive, SubscriberReceive
  <2>3. CASE Shutdown
    BY <2>3 DEF Shutdown
  <2>4. CASE \E c \in Clients : HandleUnregisteredEnd(c)
    BY <2>4 DEF HandleUnregisteredEnd
  <2>5. CASE UNCHANGED vars
    BY <2>5 DEF vars, tables
  <2> QED BY <2>1, <2>2, <2>3, <2>4, <2>5
<1> QED BY <1>1, QuietStep

\* An observer is in no table but role.
LEMMA StatusQueryStep ==
  ASSUME IInv, NEW o \in Observers, HandleStatusQuery(o)
  PROVE  IInv'
<1>1. /\ broker = "up" /\ role' = [role EXCEPT ![o] = "gone"]
      /\ UNCHANGED <<broker, topicSubs, topicPubs, free, attach, granted>>
      /\ BrokerTypeOK /\ TablesInv
  BY DEF HandleStatusQuery, IInv
<1>2. /\ \A s \in Subscribers : role'[s] = role[s]
      /\ \A p \in Publishers : role'[p] = role[p]
      /\ role' \in [Clients -> {"none", "subscriber", "publisher", "gone"}]
  BY <1>1, Given DEF BrokerTypeOK
<1>3. BrokerTypeOK'
  BY <1>1, <1>2 DEF BrokerTypeOK, Ids
<1>4. ListsInv'
  BY <1>1, <1>2 DEF TablesInv, ListsInv
<1>5. AttachmentsInv'
  <2>1. \A s \in Subscribers, p \in Publishers : Match(s, p)' <=> Match(s, p)
    BY <1>1, <1>2 DEF Match
  <2>2. \A id \in Ids : granted[id].pub \in Publishers
    BY <1>1, Granted
  <2> QED BY <1>1, <2>1, <2>2 DEF TablesInv, AttachmentsInv, Ids
<1>6. SlotsInv'
  BY <1>1, <1>2 DEF TablesInv, SlotsInv, Leased
<1> QED BY <1>1, <1>3, <1>4, <1>5, <1>6 DEF IInv, TablesInv

\* The end of a subscriber: its slots go back.
LEMMA SubscriberEndStep ==
  ASSUME IInv, NEW s \in Subscribers, HandleSubscriberEnd(s)
  PROVE  IInv'
<1>1. /\ broker = "up" /\ role[s] = "subscriber"
      /\ role' = [role EXCEPT ![s] = "gone"]
      /\ topicSubs' = [t \in Topics |-> IF t \in Range(TopicsOf[s])
                                          THEN RemoveFirst(topicSubs[t], s) ELSE topicSubs[t]]
      /\ free' = [p \in Publishers |-> free[p] \cup Returned(s, p)]
      /\ attach' = [attach EXCEPT ![s] = <<>>]
      /\ topicPubs' = topicPubs /\ granted' = granted
      /\ broker' = CASE \/ \E id \in Range(attach[s]) : role[granted[id].pub] # "publisher"
                        \/ \E t \in Range(TopicsOf[s]) : s \notin Range(topicSubs[t]) -> "inconsistent"
                     [] ~AllSent(LeftPackets(s)) -> "disconnectSend"
                     [] OTHER -> "up"
  BY DEF HandleSubscriberEnd
<1>2. BrokerTypeOK /\ ListsInv /\ AttachmentsInv /\ SlotsInv
  BY <1>1 DEF IInv, TablesInv
<1>3. /\ \A t \in Topics : topicSubs[t] \in Seq(Subscribers) /\ topicPubs[t] \in Seq(Publishers)
      /\ free \in [Publishers -> SUBSET Slot] /\ attach \in [Subscribers -> Seq(Ids)]
      /\ Range(TopicsOf[s]) \subseteq Topics
      /\ role \in [Clients -> {"none", "subscriber", "publisher", "gone"}]
  BY <1>2, Given, RangeOfSeq DEF BrokerTypeOK
<1>4. broker' \in {"up", "disconnectSend"}
  <2>1. ASSUME NEW id \in Range(attach[s]) PROVE role[granted[id].pub] = "publisher"
    BY <1>2, Granted DEF AttachmentsInv, Match
  <2>2. ASSUME NEW t \in Range(TopicsOf[s]) PROVE s \in Range(topicSubs[t])
    BY <1>1, <1>2, <1>3 DEF ListsInv
  <2>3. broker' = IF AllSent(LeftPackets(s)) THEN "up" ELSE "disconnectSend"
    BY <1>1, <2>1, <2>2
  <2> QED BY <2>3
<1>5. /\ \A r \in Subscribers \ {s} : role'[r] = role[r] /\ attach'[r] = attach[r]
      /\ \A p \in Publishers : role'[p] = role[p]
      /\ role'[s] = "gone" /\ attach'[s] = <<>> /\ Range(attach'[s]) = {}
      /\ role' \in [Clients -> {"none", "subscriber", "publisher", "gone"}]
      /\ attach' \in [Subscribers -> Seq(Ids)]
  <2>1. Range(<<>>) = {}
    BY DEF Range
  <2> QED BY <1>1, <1>3, <2>1, Given
<1>6. ASSUME NEW t \in Topics
      PROVE  /\ topicSubs'[t] \in Seq(Subscribers) /\ IsInjective(topicSubs'[t])
             /\ Range(topicSubs'[t]) = Range(topicSubs[t]) \ {s}
  <2>1. IsInjective(topicSubs[t])
    BY <1>2 DEF ListsInv
  <2>2. CASE t \in Range(TopicsOf[s])
    BY <1>1, <1>3, <2>1, <2>2, Removed
  <2>3. CASE t \notin Range(TopicsOf[s])
    <3>1. s \notin Range(topicSubs[t])
      BY <1>2, <2>3 DEF ListsInv
    <3> QED BY <1>1, <1>3, <2>1, <2>3, <3>1
  <2> QED BY <2>2, <2>3
<1>7. ASSUME NEW p \in Publishers PROVE free'[p] = free[p] \cup Returned(s, p) /\ Returned(s, p) \subseteq Slot
  BY <1>1, <1>2, Granted DEF Returned
<1>8. BrokerTypeOK'
  <2>1. topicSubs' \in [Topics -> Seq(Subscribers)]
    BY <1>1, <1>6
  <2>2. free' \in [Publishers -> SUBSET Slot]
    BY <1>1, <1>3, <1>7
  <2>3. Ids' = Ids
    BY <1>1 DEF Ids
  <2>4. broker' \in {"up"} \cup Exits
    BY <1>4 DEF Exits
  <2> QED BY <1>1, <1>2, <1>5, <2>1, <2>2, <2>3, <2>4 DEF BrokerTypeOK
<1>9. ListsInv'
  <2>1. \A t \in Topics : topicPubs'[t] = topicPubs[t]
    BY <1>1
  <2>2. \A t \in Topics : IsInjective(topicSubs'[t]) /\ IsInjective(topicPubs'[t])
    BY <1>2, <1>6, <2>1 DEF ListsInv
  <2>3. ASSUME NEW t \in Topics, NEW r \in Subscribers
        PROVE  r \in Range(topicSubs'[t]) <=> role'[r] = "subscriber" /\ t \in Range(TopicsOf[r])
    <3>1. r \in Range(topicSubs'[t]) <=> r \in Range(topicSubs[t]) /\ r # s
      BY <1>6
    <3>2. r \in Range(topicSubs[t]) <=> role[r] = "subscriber" /\ t \in Range(TopicsOf[r])
      BY <1>2 DEF ListsInv
    <3> QED BY <1>5, <3>1, <3>2
  <2>4. ASSUME NEW t \in Topics, NEW p \in Publishers
        PROVE  p \in Range(topicPubs'[t]) <=> role'[p] = "publisher" /\ TopicOf[p] = t
    BY <1>2, <1>5, <2>1 DEF ListsInv
  <2> QED BY <2>2, <2>3, <2>4 DEF ListsInv
<1>10. ASSUME NEW r \in Subscribers, NEW p \in Publishers
       PROVE  Match(r, p)' <=> r # s /\ Match(r, p)
  BY <1>5 DEF Match
<1>11. AttachmentsInv'
  <2>1. ASSUME NEW r \in Subscribers, NEW id \in Ids, id \in Range(attach'[r])
        PROVE  r # s /\ id \in Range(attach[r])
    BY <1>5, <2>1
  <2>2. ASSUME NEW r \in Subscribers, NEW id \in Ids, id \in Range(attach'[r])
        PROVE  granted[id].sub = r /\ Match(r, granted[id].pub)'
    <3>1. r # s /\ granted[id].sub = r /\ Match(r, granted[id].pub) /\ granted[id].pub \in Publishers
      BY <1>2, <2>1, <2>2, Granted DEF AttachmentsInv
    <3> QED BY <1>1, <1>10, <3>1
  <2>3. ASSUME NEW r \in Subscribers PROVE IsInjective(attach'[r])
    <3>1. IsInjective(<<>>)
      BY DEF IsInjective
    <3> QED BY <1>2, <1>5, <3>1 DEF AttachmentsInv
  <2>4. ASSUME NEW r \in Subscribers, NEW i \in Range(attach'[r]), NEW j \in Range(attach'[r]),
               granted[i].pub = granted[j].pub
        PROVE  i = j
    <3>1. r # s
      BY <1>5
    <3> QED BY <1>2, <1>5, <2>4, <3>1 DEF AttachmentsInv
  <2>5. ASSUME NEW r \in Subscribers, NEW p \in Publishers, Match(r, p)'
        PROVE  \E id \in Range(attach'[r]) : granted[id].pub = p
    BY <1>2, <1>5, <1>10, <2>5 DEF AttachmentsInv
  <2>6. Ids' = Ids
    BY <1>1 DEF Ids
  <2> QED BY <1>1, <2>2, <2>3, <2>4, <2>5, <2>6 DEF AttachmentsInv
<1>12. SlotsInv'
  <2>1. ASSUME NEW p \in Publishers, role'[p] = "publisher", NEW x \in Slot
        PROVE  x \in free'[p] <=> ~Leased(p, x)'
    <3>1. x \in free[p] <=> ~Leased(p, x)
      BY <1>2, <1>5, <2>1 DEF SlotsInv
    <3>2. x \in free'[p] <=> x \in free[p] \/ x \in Returned(s, p)
      BY <1>7
    <3>3. Leased(p, x)' => Leased(p, x)
      BY <1>1, <1>5 DEF Leased
    <3>4. ASSUME x \in Returned(s, p), Leased(p, x)' PROVE FALSE
      <4>1. PICK i \in Range(attach[s]) : granted[i].pub = p /\ granted[i].slot = x
        BY <3>4 DEF Returned
      <4>2. PICK r \in Subscribers :
              \E k \in Range(attach'[r]) : granted[k].pub = p /\ granted[k].slot = x
        BY <1>1, <3>4 DEF Leased
      <4>5. PICK j \in Range(attach'[r]) : granted[j].pub = p /\ granted[j].slot = x
        BY <4>2
      <4>3. r # s /\ j \in Range(attach[r])
        BY <1>5, <4>5
      <4>4. i = j
        BY <1>2, <4>1, <4>5, <4>3 DEF SlotsInv
      <4>6. i \in Ids /\ granted[i].sub = s
        BY <1>2, <4>1, Granted DEF AttachmentsInv
      <4>7. granted[j].sub = r
        BY <1>2, <4>3, <4>4, <4>6 DEF AttachmentsInv
      <4> QED BY <4>3, <4>4, <4>6, <4>7
    <3>5. ASSUME Leased(p, x), x \notin Returned(s, p) PROVE Leased(p, x)'
      <4>1. PICK r \in Subscribers :
              \E k \in Range(attach[r]) : granted[k].pub = p /\ granted[k].slot = x
        BY <3>5 DEF Leased
      <4>2. r # s
        BY <3>5, <4>1 DEF Returned
      <4> QED BY <1>1, <1>5, <4>1, <4>2 DEF Leased
    <3> QED BY <3>1, <3>2, <3>3, <3>4, <3>5
  <2>2. ASSUME NEW q \in Subscribers, NEW r \in Subscribers,
               NEW i \in Range(attach'[q]), NEW j \in Range(attach'[r]),
               granted[i].pub = granted[j].pub, granted[i].slot = granted[j].slot
        PROVE  i = j
    <3>1. q # s /\ r # s
      BY <1>5
    <3> QED BY <1>2, <1>5, <2>2, <3>1 DEF SlotsInv
  <2> QED BY <1>1, <2>1, <2>2 DEF SlotsInv
<1> QED BY <1>4, <1>8, <1>9, <1>11, <1>12 DEF IInv, TablesInv

\* What find_if returns is the attachment of s to p.
LEMMA FirstToIs ==
  ASSUME BrokerTypeOK, AttachmentsInv, NEW s \in Subscribers, NEW p \in Publishers
  PROVE  /\ Match(s, p) => /\ FirstTo(s, p) \in Range(attach[s]) /\ FirstTo(s, p) # NoId
                           /\ granted[FirstTo(s, p)].pub = p
         /\ \A id \in Range(attach[s]) : granted[id].pub = p => id = FirstTo(s, p)
<1> DEFINE found == {k \in DOMAIN attach[s] : granted[attach[s][k]].pub = p}
<1>1. /\ DOMAIN attach[s] \subseteq Nat /\ Range(attach[s]) \subseteq Ids /\ 0 \notin Ids
      /\ Range(attach[s]) = {attach[s][k] : k \in DOMAIN attach[s]}
  <2>1. attach[s] \in Seq(Ids) /\ Range(attach[s]) \subseteq Ids /\ Ids = 1 .. Len(granted)
    BY Granted
  <2>2. DOMAIN attach[s] = 1 .. Len(attach[s]) /\ Len(attach[s]) \in Nat
    BY <2>1, LenProperties
  <2> QED BY <2>1, <2>2 DEF Range
<1>2. ASSUME NEW id \in Range(attach[s]), granted[id].pub = p
      PROVE  /\ id = FirstTo(s, p) /\ FirstTo(s, p) # NoId
  <2>1. found # {} /\ found \in SUBSET Nat
    BY <1>1, <1>2
  <2>2. Min(found) \in found
    <3>1. \E m \in found : \A n \in found : m <= n
      BY <2>1, Least
    <3> HIDE DEF found
    <3> QED BY <3>1 DEF Min
  <2>3. FirstTo(s, p) = attach[s][Min(found)]
    BY <2>1 DEF FirstTo
  <2>4. FirstTo(s, p) \in Range(attach[s]) /\ granted[FirstTo(s, p)].pub = p
    <3> HIDE DEF found
    <3>1. Min(found) \in DOMAIN attach[s] /\ granted[attach[s][Min(found)]].pub = p
      BY <2>2 DEF found
    <3> QED BY <1>1, <2>3, <3>1
  <2>5. id = FirstTo(s, p)
    BY <1>2, <2>4 DEF AttachmentsInv
  <2> QED BY <1>1, <2>4, <2>5 DEF NoId
<1>3. Match(s, p) => \E id \in Range(attach[s]) : granted[id].pub = p
  BY DEF AttachmentsInv
<1> QED BY <1>2, <1>3

\* Its attachments are taken off the lists, and nobody else's.
LEMMA PublisherLeaves ==
  ASSUME BrokerTypeOK, AttachmentsInv, NEW p \in Publishers, NEW subs,
         \A s \in Subscribers : s \in Range(subs) <=> Match(s, p),
         attach' = [s \in Subscribers |-> IF s \in Range(subs)
                                            THEN DropAttachment(s, FirstTo(s, p)) ELSE attach[s]],
         NEW s \in Subscribers
  PROVE  /\ attach'[s] \in Seq(Ids) /\ IsInjective(attach'[s])
         /\ Range(attach'[s]) = {id \in Range(attach[s]) : granted[id].pub # p}
<1>1. attach[s] \in Seq(Ids) /\ IsInjective(attach[s]) /\ Range(attach[s]) \subseteq Ids
  BY Granted DEF AttachmentsInv
<1>2. CASE Match(s, p)
  <2>1. attach'[s] = RemoveFirst(attach[s], FirstTo(s, p))
    BY <1>2 DEF DropAttachment
  <2>2. /\ attach'[s] \in Seq(Ids) /\ IsInjective(attach'[s])
        /\ Range(attach'[s]) = Range(attach[s]) \ {FirstTo(s, p)}
    BY <1>1, <2>1, Removed
  <2>3. \A id \in Range(attach[s]) : granted[id].pub = p <=> id = FirstTo(s, p)
    BY <1>2, FirstToIs
  <2> QED BY <2>2, <2>3
<1>3. CASE ~Match(s, p)
  <2>1. attach'[s] = attach[s]
    BY <1>3
  <2>2. \A id \in Range(attach[s]) : granted[id].pub # p
    BY <1>1, <1>3 DEF AttachmentsInv
  <2> QED BY <1>1, <2>1, <2>2
<1> QED BY <1>2, <1>3

\* The end of a publisher: its attachments go.
LEMMA PublisherEndStep ==
  ASSUME IInv, NEW p \in Publishers, HandlePublisherEnd(p)
  PROVE  IInv'
<1> DEFINE subs == topicSubs[TopicOf[p]]
<1>1. /\ broker = "up" /\ role[p] = "publisher"
      /\ role' = [role EXCEPT ![p] = "gone"]
      /\ topicPubs' = [topicPubs EXCEPT ![TopicOf[p]] = RemoveFirst(@, p)]
      /\ free' = [free EXCEPT ![p] = {}]
      /\ attach' = [s \in Subscribers |-> IF s \in Range(subs)
                                            THEN DropAttachment(s, FirstTo(s, p)) ELSE attach[s]]
      /\ topicSubs' = topicSubs /\ granted' = granted
      /\ broker' \in {"inconsistent", "disconnectSend", "up"}
      /\ broker' = "inconsistent" => \/ p \notin Range(topicPubs[TopicOf[p]])
                                     \/ \E s \in Range(subs) : FirstTo(s, p) = NoId
  BY DEF HandlePublisherEnd
<1>2. BrokerTypeOK /\ ListsInv /\ AttachmentsInv /\ SlotsInv
  BY <1>1 DEF IInv, TablesInv
<1>3. /\ TopicOf[p] \in Topics
      /\ \A t \in Topics : topicSubs[t] \in Seq(Subscribers) /\ topicPubs[t] \in Seq(Publishers)
      /\ free \in [Publishers -> SUBSET Slot] /\ attach \in [Subscribers -> Seq(Ids)]
      /\ topicPubs \in [Topics -> Seq(Publishers)]
      /\ role \in [Clients -> {"none", "subscriber", "publisher", "gone"}]
      /\ Ids' = Ids
  BY <1>1, <1>2, Given DEF BrokerTypeOK, Ids
<1>4. ASSUME NEW s \in Subscribers PROVE s \in Range(subs) <=> Match(s, p)
  BY <1>1, <1>2, <1>3 DEF ListsInv, Match
<1>5. broker' # "inconsistent"
  <2>1. p \in Range(topicPubs[TopicOf[p]])
    BY <1>1, <1>2, <1>3 DEF ListsInv
  <2>2. ASSUME NEW s \in Range(subs) PROVE FirstTo(s, p) # NoId
    <3>1. s \in Subscribers
      BY <1>3, RangeOfSeq
    <3> QED BY <1>2, <1>4, <3>1, FirstToIs
  <2> QED BY <1>1, <2>1, <2>2
<1>6. ASSUME NEW s \in Subscribers
      PROVE  /\ attach'[s] \in Seq(Ids) /\ IsInjective(attach'[s])
             /\ Range(attach'[s]) = {id \in Range(attach[s]) : granted[id].pub # p}
  BY <1>1, <1>2, <1>4, PublisherLeaves
<1>7. /\ \A q \in Publishers \ {p} : role'[q] = role[q] /\ free'[q] = free[q]
      /\ \A s \in Subscribers : role'[s] = role[s]
      /\ role'[p] = "gone" /\ free'[p] = {}
      /\ role' \in [Clients -> {"none", "subscriber", "publisher", "gone"}]
      /\ free' \in [Publishers -> SUBSET Slot]
  BY <1>1, <1>3, Given
<1>8. ASSUME NEW t \in Topics
      PROVE  /\ topicPubs'[t] \in Seq(Publishers) /\ IsInjective(topicPubs'[t])
             /\ Range(topicPubs'[t]) = Range(topicPubs[t]) \ {p}
  <2>1. IsInjective(topicPubs[t]) /\ topicPubs[t] \in Seq(Publishers)
    BY <1>2, <1>3 DEF ListsInv
  <2>2. CASE t = TopicOf[p]
    <3>1. topicPubs'[t] = RemoveFirst(topicPubs[t], p)
      BY <1>1, <1>3, <2>2
    <3> QED BY <2>1, <3>1, Removed
  <2>3. CASE t # TopicOf[p]
    <3>1. p \notin Range(topicPubs[t])
      BY <1>2, <2>3 DEF ListsInv
    <3> QED BY <1>1, <1>3, <2>1, <2>3, <3>1
  <2> QED BY <2>2, <2>3
<1>9. BrokerTypeOK'
  <2>1. topicPubs' \in [Topics -> Seq(Publishers)]
    BY <1>1, <1>3, <1>8
  <2>2. attach' \in [Subscribers -> Seq(Ids)]
    BY <1>1, <1>6
  <2>3. broker' \in {"up"} \cup Exits
    BY <1>1 DEF Exits
  <2> QED BY <1>1, <1>2, <1>3, <1>7, <2>1, <2>2, <2>3 DEF BrokerTypeOK
<1>10. ListsInv'
  <2>1. \A t \in Topics : IsInjective(topicSubs'[t]) /\ IsInjective(topicPubs'[t])
    BY <1>1, <1>2, <1>8 DEF ListsInv
  <2>2. ASSUME NEW t \in Topics, NEW s \in Subscribers
        PROVE  s \in Range(topicSubs'[t]) <=> role'[s] = "subscriber" /\ t \in Range(TopicsOf[s])
    BY <1>1, <1>2, <1>7 DEF ListsInv
  <2>3. ASSUME NEW t \in Topics, NEW q \in Publishers
        PROVE  q \in Range(topicPubs'[t]) <=> role'[q] = "publisher" /\ TopicOf[q] = t
    <3>1. q \in Range(topicPubs'[t]) <=> q \in Range(topicPubs[t]) /\ q # p
      BY <1>8
    <3>2. q \in Range(topicPubs[t]) <=> role[q] = "publisher" /\ TopicOf[q] = t
      BY <1>2 DEF ListsInv
    <3> QED BY <1>7, <3>1, <3>2
  <2> QED BY <2>1, <2>2, <2>3 DEF ListsInv
<1>11. ASSUME NEW s \in Subscribers, NEW q \in Publishers
       PROVE  Match(s, q)' <=> q # p /\ Match(s, q)
  BY <1>7 DEF Match
<1>12. AttachmentsInv'
  <2>1. ASSUME NEW s \in Subscribers, NEW id \in Ids, id \in Range(attach'[s])
        PROVE  granted[id].sub = s /\ Match(s, granted[id].pub)'
    <3>1. id \in Range(attach[s]) /\ granted[id].pub # p
      BY <1>6, <2>1
    <3>2. granted[id].sub = s /\ Match(s, granted[id].pub) /\ granted[id].pub \in Publishers
      BY <1>2, <3>1, Granted DEF AttachmentsInv
    <3> QED BY <1>1, <1>11, <3>1, <3>2
  <2>2. ASSUME NEW s \in Subscribers, NEW i \in Range(attach'[s]), NEW j \in Range(attach'[s]),
               granted[i].pub = granted[j].pub
        PROVE  i = j
    BY <1>2, <1>6, <2>2 DEF AttachmentsInv
  <2>3. ASSUME NEW s \in Subscribers, NEW q \in Publishers, Match(s, q)'
        PROVE  \E id \in Range(attach'[s]) : granted[id].pub = q
    <3>1. PICK id \in Range(attach[s]) : granted[id].pub = q
      BY <1>2, <1>11, <2>3 DEF AttachmentsInv
    <3> QED BY <1>6, <1>11, <2>3, <3>1
  <2> QED BY <1>1, <1>3, <1>6, <2>1, <2>2, <2>3 DEF AttachmentsInv
<1>13. SlotsInv'
  <2>1. ASSUME NEW q \in Publishers, role'[q] = "publisher", NEW x \in Slot
        PROVE  x \in free'[q] <=> ~Leased(q, x)'
    <3>1. q # p /\ role[q] = "publisher" /\ free'[q] = free[q]
      BY <1>7, <2>1
    <3>2. Leased(q, x)' <=> Leased(q, x)
      BY <1>1, <1>6, <3>1 DEF Leased
    <3> QED BY <1>2, <3>1, <3>2 DEF SlotsInv
  <2>2. ASSUME NEW r \in Subscribers, NEW s \in Subscribers,
               NEW i \in Range(attach'[r]), NEW j \in Range(attach'[s]),
               granted[i].pub = granted[j].pub, granted[i].slot = granted[j].slot
        PROVE  i = j
    BY <1>2, <1>6, <2>2 DEF SlotsInv
  <2> QED BY <1>1, <2>1, <2>2 DEF SlotsInv
<1> QED BY <1>5, <1>9, <1>10, <1>12, <1>13 DEF IInv, TablesInv

-----------------------------------------------------------------------------
(* Registrations *)

\* New attachments get the next ids.
LEMMA GrantsGrow ==
  ASSUME BrokerTypeOK, NEW more \in Seq([sub : Subscribers, pub : Publishers, slot : Slot]),
         granted' = granted \o more
  PROVE  /\ granted' \in Seq([sub : Subscribers, pub : Publishers, slot : Slot])
         /\ Ids \subseteq Ids' /\ Seq(Ids) \subseteq Seq(Ids')
         /\ \A id \in Ids : granted'[id] = granted[id]
         /\ \A k \in 1 .. Len(more) : /\ Len(granted) + k \in Ids' \ Ids
                                      /\ granted'[Len(granted) + k] = more[k]
         /\ Ids' = Ids \cup {Len(granted) + k : k \in 1 .. Len(more)}
<1>1. /\ granted \in Seq([sub : Subscribers, pub : Publishers, slot : Slot])
      /\ Len(granted) \in Nat /\ Len(more) \in Nat /\ Ids = 1 .. Len(granted)
  BY Granted, LenProperties DEF BrokerTypeOK
<1>2. /\ granted' \in Seq([sub : Subscribers, pub : Publishers, slot : Slot])
      /\ Len(granted') = Len(granted) + Len(more)
      /\ \A i \in 1 .. Len(granted) + Len(more) :
           granted'[i] = IF i <= Len(granted) THEN granted[i] ELSE more[i - Len(granted)]
  BY <1>1, ConcatProperties
<1>3. Ids' = 1 .. Len(granted) + Len(more)
  BY <1>2, LenProperties DEF Ids
<1>4. ASSUME NEW k \in 1 .. Len(more)
      PROVE  Len(granted) + k \in Ids' \ Ids /\ granted'[Len(granted) + k] = more[k]
  <2>1. /\ Len(granted) + k \in 1 .. Len(granted) + Len(more) /\ ~(Len(granted) + k <= Len(granted))
        /\ (Len(granted) + k) - Len(granted) = k
    BY <1>1
  <2> QED BY <1>1, <1>2, <1>3, <2>1
<1>5. ASSUME NEW id \in Ids PROVE id \in Ids' /\ granted'[id] = granted[id]
  BY <1>1, <1>2, <1>3
<1>6. ASSUME NEW id \in Ids', id \notin Ids PROVE \E k \in 1 .. Len(more) : id = Len(granted) + k
  <2>1. id - Len(granted) \in 1 .. Len(more) /\ id = Len(granted) + (id - Len(granted))
    BY <1>1, <1>3, <1>6
  <2> QED BY <2>1
<1>7. Seq(Ids) \subseteq Seq(Ids')
  BY <1>5
<1> QED BY <1>2, <1>4, <1>5, <1>6, <1>7, ZenonT(60)

\* The publishers of the topics that s names, each once.
LEMMA RoutesAre ==
  ASSUME BrokerTypeOK, ListsInv, NEW s \in Subscribers
  PROVE  /\ Routes(TopicsOf[s]) \in Seq(Publishers) /\ IsInjective(Routes(TopicsOf[s]))
         /\ \A p \in Publishers : p \in Range(Routes(TopicsOf[s])) <=>
              role[p] = "publisher" /\ TopicOf[p] \in Range(TopicsOf[s])
<1> DEFINE topics == TopicsOf[s]
           qs == [k \in DOMAIN topics |-> topicPubs[topics[k]]]
<1>1. /\ topics \in Seq(Topics) /\ topics # <<>> /\ IsInjective(topics)
      /\ DOMAIN topics = 1 .. Len(topics) /\ Len(topics) \in Nat \ {0}
      /\ \A k \in DOMAIN topics : topics[k] \in Topics
      /\ Range(topics) = {topics[k] : k \in DOMAIN topics}
  <2>1. topics \in Seq(Topics) /\ topics # <<>> /\ IsInjective(topics)
    BY Given
  <2> QED BY <2>1, EmptySeq, LenProperties, ElementOfSeq DEF Range
<1> HIDE DEF topics
<1>2. \A t \in Topics : topicPubs[t] \in Seq(Publishers) /\ IsInjective(topicPubs[t])
  BY DEF BrokerTypeOK, ListsInv
<1>3. \A k \in DOMAIN topics : qs[k] = topicPubs[topics[k]]
  OBVIOUS
<1>4. DOMAIN qs = DOMAIN topics /\ qs \in Seq(Seq(Publishers)) /\ qs # <<>>
  <2>1. qs \in [1 .. Len(topics) -> Seq(Publishers)]
    BY <1>1, <1>2
  <2>2. qs \in Seq(Seq(Publishers)) /\ 1 \in DOMAIN qs
    BY <1>1, <2>1
  <2> QED BY <2>2
<1>5. Routes(topics) = FlattenSeq(qs)
  BY DEF Routes
<1> HIDE DEF qs
<1>6. \A k \in DOMAIN qs : IsInjective(qs[k])
  BY <1>1, <1>2, <1>3, <1>4
<1>7. ASSUME NEW j \in DOMAIN qs, NEW k \in DOMAIN qs, j # k PROVE Range(qs[j]) \cap Range(qs[k]) = {}
  <2> SUFFICES ASSUME NEW p \in Range(qs[j]), p \in Range(qs[k]) PROVE FALSE
    OBVIOUS
  <2>1. p \in Publishers /\ p \in Range(topicPubs[topics[j]]) /\ p \in Range(topicPubs[topics[k]])
    BY <1>1, <1>2, <1>3, <1>4, RangeOfSeq
  <2>2. TopicOf[p] = topics[j]
    BY <1>1, <1>4, <2>1 DEF ListsInv
  <2>3. TopicOf[p] = topics[k]
    BY <1>1, <1>4, <2>1 DEF ListsInv
  <2> QED BY <1>1, <1>4, <1>7, <2>2, <2>3 DEF IsInjective
<1>8. Routes(topics) \in Seq(Publishers) /\ IsInjective(Routes(topics))
  BY <1>4, <1>5, <1>6, <1>7, Flattened, ZenonT(60)
<1>9. ASSUME NEW p \in Publishers
      PROVE  p \in Range(Routes(topics)) <=> role[p] = "publisher" /\ TopicOf[p] \in Range(topics)
  <2>1. p \in Range(Routes(topics)) <=> \E k \in DOMAIN qs : p \in Range(qs[k])
    BY <1>4, <1>5, Flattened
  <2>2. \A k \in DOMAIN qs : p \in Range(qs[k]) <=> role[p] = "publisher" /\ TopicOf[p] = topics[k]
    BY <1>1, <1>3, <1>4 DEF ListsInv
  <2> QED BY <1>1, <1>4, <2>1, <2>2
<1> QED BY <1>8, <1>9 DEF topics

\* How many of the publishers have a slot to give.
LEMMA FitsIs ==
  ASSUME NEW pubs \in Seq(Publishers)
  PROVE  Fits(pubs) \in 0 .. Len(pubs) /\ \A i \in 1 .. Fits(pubs) : free[pubs[i]] # {}
<1> DEFINE T == {i \in Nat : free[pubs[i]] = {}}
<1>1. Len(pubs) \in Nat
  OBVIOUS
<1> DEFINE P(k) == /\ \A i \in 1 .. k : free[pubs[i]] # {}
                   /\ k < Len(pubs) => free[pubs[k + 1]] = {}
<1>2. \E k \in 0 .. Len(pubs) : /\ \A i \in 1 .. k : i \notin T
                                /\ k < Len(pubs) => k + 1 \in T
  <2> HIDE DEF T
  <2> QED BY <1>1, FirstOf
<1>3. \E k \in 0 .. Len(pubs) : P(k)
  <2>1. PICK k \in 0 .. Len(pubs) : /\ \A i \in 1 .. k : i \notin T
                                    /\ k < Len(pubs) => k + 1 \in T
    BY <1>2
  <2>2. ASSUME NEW i \in 1 .. k PROVE free[pubs[i]] # {}
    <3>1. i \in Nat /\ i \notin T
      BY <2>1
    <3> QED BY <3>1
  <2>3. ASSUME k < Len(pubs) PROVE free[pubs[k + 1]] = {}
    <3>1. k + 1 \in T
      BY <2>1, <2>3
    <3> QED BY <3>1
  <2> QED BY <2>2, <2>3
<1>4. Fits(pubs) = CHOOSE k \in 0 .. Len(pubs) : P(k)
  BY DEF Fits
<1>5. Fits(pubs) \in 0 .. Len(pubs) /\ P(Fits(pubs))
  <2> HIDE DEF P
  <2> QED BY <1>3, <1>4
<1> QED BY <1>5

LEMMA TopSlotIs ==
  ASSUME NEW p \in Publishers, free[p] \subseteq Slot, free[p] # {}
  PROVE  TopSlot(p) \in free[p]
<1>1. free[p] \in SUBSET Nat
  BY DEF Slot
<1>2. \E m \in free[p] : \A n \in free[p] : m <= n
  BY <1>1, Least
<1> QED BY <1>2 DEF TopSlot, Min

\* One more at the end.
LEMMA Appended ==
  ASSUME NEW S, NEW q \in Seq(S), NEW x \in S
  PROVE  /\ Append(q, x) \in Seq(S) /\ Range(Append(q, x)) = Range(q) \cup {x}
         /\ IsInjective(q) /\ x \notin Range(q) => IsInjective(Append(q, x))
<1>1. <<x>> \in Seq(S) /\ Range(<<x>>) = {x} /\ IsInjective(<<x>>)
  <2>1. <<x>> \in Seq(S) /\ DOMAIN <<x>> = {1} /\ <<x>>[1] = x
    OBVIOUS
  <2> QED BY <2>1 DEF Range, IsInjective
<1>2. Append(q, x) = q \o <<x>>
  BY AppendIsConcat
<1> DEFINE r == <<x>>
<1> HIDE DEF r
<1>3. /\ q \o r \in Seq(S) /\ Range(q \o r) = Range(q) \cup Range(r)
      /\ IsInjective(q) /\ Range(q) \cap Range(r) = {} => IsInjective(q \o r)
  BY <1>1, Joined, ZenonT(40) DEF r
<1> QED BY <1>1, <1>2, <1>3 DEF r

\* A subscriber is attached to the publishers of its topics, as far as they have slots.
LEMMA SubscriberRegistrationStep ==
  ASSUME IInv, NEW s \in Subscribers, HandleSubscriberRegistration(s)
  PROVE  IInv'
<1> DEFINE pubs == Routes(TopicsOf[s])
           fits == Fits(pubs)
           more == [k \in 1 .. fits |-> Attachment(s, pubs[k], TopSlot(pubs[k]))]
           ids == [k \in 1 .. fits |-> Len(granted) + k]
           Records == [sub : Subscribers, pub : Publishers, slot : Slot]
<1>1. /\ broker = "up" /\ role[s] = "none"
      /\ role' = [role EXCEPT ![s] = "subscriber"]
      /\ topicSubs' = [t \in Topics |-> IF t \in Range(TopicsOf[s])
                                          THEN Append(topicSubs[t], s) ELSE topicSubs[t]]
      /\ free' = [p \in Publishers |-> IF p \in Range(SubSeq(pubs, 1, fits))
                                         THEN free[p] \ {TopSlot(p)} ELSE free[p]]
      /\ granted' = granted \o more
      /\ attach' = [attach EXCEPT ![s] = ids]
      /\ topicPubs' = topicPubs
      /\ broker' \in {"inconsistent", "registerSend", "noSlot", "batchTooLarge", "up"}
      /\ broker' = "inconsistent" => \E k \in DOMAIN pubs : role[pubs[k]] # "publisher"
      /\ broker' = "up" => ~(fits < Len(pubs))
  <2>1. RegisterWith(s, pubs, fits)
    BY DEF HandleSubscriberRegistration
  <2> HIDE DEF pubs, fits
  <2> QED BY <2>1 DEF RegisterWith, WithoutSlot
<1>2. BrokerTypeOK /\ ListsInv /\ AttachmentsInv /\ SlotsInv
  BY <1>1 DEF IInv, TablesInv
<1>3. /\ pubs \in Seq(Publishers) /\ IsInjective(pubs) /\ Len(pubs) \in Nat
      /\ DOMAIN pubs = 1 .. Len(pubs) /\ Range(pubs) = {pubs[k] : k \in 1 .. Len(pubs)}
      /\ \A p \in Publishers : p \in Range(pubs) <=>
           role[p] = "publisher" /\ TopicOf[p] \in Range(TopicsOf[s])
  <2>1. pubs \in Seq(Publishers)
    BY <1>2, RoutesAre
  <2> QED BY <1>2, <2>1, RoutesAre, LenProperties DEF Range
<1>4. fits \in 0 .. Len(pubs) /\ fits \in Nat /\ \A k \in 1 .. fits : free[pubs[k]] # {}
  BY <1>3, FitsIs
<1> HIDE DEF pubs, fits
<1>5. ASSUME NEW k \in 1 .. fits
      PROVE  /\ pubs[k] \in Publishers /\ pubs[k] \in Range(pubs)
             /\ TopSlot(pubs[k]) \in free[pubs[k]] /\ TopSlot(pubs[k]) \in Slot
  <2>1. k \in 1 .. Len(pubs)
    BY <1>3, <1>4
  <2>2. pubs[k] \in Publishers /\ pubs[k] \in Range(pubs)
    BY <1>3, <2>1
  <2>3. free[pubs[k]] \subseteq Slot
    BY <1>2, <2>2 DEF BrokerTypeOK
  <2> QED BY <1>4, <2>2, <2>3, TopSlotIs
<1>6. /\ more \in Seq(Records) /\ Len(more) = fits
      /\ \A k \in 1 .. fits : /\ more[k].sub = s /\ more[k].pub = pubs[k]
                              /\ more[k].slot = TopSlot(pubs[k])
  <2>1. \A k \in 1 .. fits : more[k] \in Records
    BY <1>5 DEF Attachment
  <2>2. more \in Seq(Records) /\ Len(more) = fits
    BY <1>4, <2>1
  <2> QED BY <2>2 DEF Attachment
<1> HIDE DEF more
<1>7. /\ granted' \in Seq(Records) /\ Ids \subseteq Ids' /\ Seq(Ids) \subseteq Seq(Ids')
      /\ \A id \in Ids : granted'[id] = granted[id]
      /\ \A k \in 1 .. fits : /\ Len(granted) + k \in Ids' \ Ids
                              /\ granted'[Len(granted) + k] = more[k]
      /\ Len(granted) \in Nat
  BY <1>1, <1>2, <1>6, GrantsGrow, Granted
<1>8. /\ ids \in Seq(Ids') /\ IsInjective(ids)
      /\ Range(ids) = {Len(granted) + k : k \in 1 .. fits}
  <2>1. ids \in Seq(Ids')
    BY <1>4, <1>7
  <2>2. IsInjective(ids)
    BY <1>7 DEF IsInjective
  <2>3. Range(ids) = {Len(granted) + k : k \in 1 .. fits}
    BY DEF Range
  <2> QED BY <2>1, <2>2, <2>3
<1> HIDE DEF ids
<1>9. broker' # "inconsistent"
  <2>1. ASSUME NEW k \in DOMAIN pubs PROVE role[pubs[k]] = "publisher"
    BY <1>3, ElementOfSeq
  <2> QED BY <1>1, <2>1
<1>10. /\ \A r \in Subscribers \ {s} : role'[r] = role[r] /\ attach'[r] = attach[r]
       /\ \A p \in Publishers : role'[p] = role[p]
       /\ role'[s] = "subscriber" /\ attach'[s] = ids
       /\ role' \in [Clients -> {"none", "subscriber", "publisher", "gone"}]
  BY <1>1, <1>2, Given DEF BrokerTypeOK
<1>11. ASSUME NEW t \in Topics
       PROVE  /\ topicSubs'[t] \in Seq(Subscribers) /\ IsInjective(topicSubs'[t])
              /\ \A r \in Subscribers : r \in Range(topicSubs'[t]) <=>
                   r \in Range(topicSubs[t]) \/ (r = s /\ t \in Range(TopicsOf[s]))
  <2>1. /\ topicSubs[t] \in Seq(Subscribers) /\ IsInjective(topicSubs[t])
        /\ s \notin Range(topicSubs[t])
    BY <1>1, <1>2 DEF BrokerTypeOK, ListsInv
  <2>2. /\ Append(topicSubs[t], s) \in Seq(Subscribers) /\ IsInjective(Append(topicSubs[t], s))
        /\ Range(Append(topicSubs[t], s)) = Range(topicSubs[t]) \cup {s}
    BY <2>1, Appended
  <2> QED BY <1>1, <2>1, <2>2
<1>12. BrokerTypeOK'
  <2>1. topicSubs' \in [Topics -> Seq(Subscribers)]
    BY <1>1, <1>11
  <2>2. free' \in [Publishers -> SUBSET Slot]
    BY <1>1, <1>2 DEF BrokerTypeOK
  <2>3. \A r \in Subscribers : attach'[r] \in Seq(Ids')
    <3>1. \A r \in Subscribers : attach[r] \in Seq(Ids)
      BY <1>2, Granted
    <3> QED BY <1>7, <1>8, <1>10, <3>1
  <2>4. attach' \in [Subscribers -> Seq(Ids')]
    <3>1. attach' = [r \in Subscribers |-> attach'[r]]
      BY <1>1, <1>2 DEF BrokerTypeOK
    <3> QED BY <2>3, <3>1
  <2>5. broker' \in {"up"} \cup Exits
    BY <1>1 DEF Exits
  <2>6. topicPubs' \in [Topics -> Seq(Publishers)]
    BY <1>1, <1>2 DEF BrokerTypeOK
  <2> QED BY <1>7, <1>10, <2>1, <2>2, <2>4, <2>5, <2>6 DEF BrokerTypeOK
<1>13. ListsInv'
  <2>1. \A t \in Topics : IsInjective(topicSubs'[t]) /\ IsInjective(topicPubs'[t])
    BY <1>1, <1>2, <1>11 DEF ListsInv
  <2>2. ASSUME NEW t \in Topics, NEW r \in Subscribers
        PROVE  r \in Range(topicSubs'[t]) <=> role'[r] = "subscriber" /\ t \in Range(TopicsOf[r])
    <3>1. r \in Range(topicSubs[t]) <=> role[r] = "subscriber" /\ t \in Range(TopicsOf[r])
      BY <1>2 DEF ListsInv
    <3> QED BY <1>1, <1>10, <1>11, <3>1
  <2>3. ASSUME NEW t \in Topics, NEW p \in Publishers
        PROVE  p \in Range(topicPubs'[t]) <=> role'[p] = "publisher" /\ TopicOf[p] = t
    BY <1>1, <1>2, <1>10 DEF ListsInv
  <2> QED BY <2>1, <2>2, <2>3 DEF ListsInv
<1>14. ASSUME broker' = "up" PROVE AttachmentsInv' /\ SlotsInv'
  <2>1. fits = Len(pubs) /\ SubSeq(pubs, 1, fits) = pubs
    <3>1. fits = Len(pubs)
      <4>1. ~(fits < Len(pubs))
        BY <1>1, <1>14
      <4>2. Len(pubs) \in Nat
        BY <1>3
      <4>3. fits \in 0 .. Len(pubs)
        BY <1>4
      <4> QED BY <4>1, <4>2, <4>3
    <3> QED BY <1>3, <3>1, SubSeqFull
  <2>2. ASSUME NEW p \in Publishers
        PROVE  free'[p] = IF p \in Range(pubs) THEN free[p] \ {TopSlot(p)} ELSE free[p]
    BY <1>1, <2>1
  <2>3. ASSUME NEW r \in Subscribers, NEW p \in Publishers
        PROVE  Match(r, p)' <=> IF r = s THEN p \in Range(pubs) ELSE Match(r, p)
    BY <1>3, <1>10 DEF Match
  \* The new attachments, and the old ones.
  <2>4. ASSUME NEW id \in Range(attach'[s])
        PROVE  \E k \in 1 .. fits :
                 /\ id = Len(granted) + k /\ granted'[id].sub = s
                 /\ granted'[id].pub = pubs[k] /\ granted'[id].slot = TopSlot(pubs[k])
    <3>1. PICK k \in 1 .. fits : id = Len(granted) + k
      BY <1>8, <1>10
    <3> QED BY <1>6, <1>7, <3>1
  <2>5. ASSUME NEW p \in Range(pubs)
        PROVE  \E id \in Range(attach'[s]) : granted'[id].pub = p /\ granted'[id].slot = TopSlot(p)
    <3>1. PICK k \in 1 .. fits : p = pubs[k]
      BY <1>3, <2>1
    <3>2. Len(granted) + k \in Range(attach'[s]) /\ granted'[Len(granted) + k] = more[k]
      BY <1>7, <1>8, <1>10
    <3> QED BY <1>6, <3>1, <3>2
  <2>6. ASSUME NEW r \in Subscribers, r # s, NEW id \in Range(attach'[r])
        PROVE  /\ id \in Range(attach[r]) /\ id \in Ids /\ granted'[id] = granted[id]
               /\ granted[id].pub \in Publishers /\ granted[id].slot \in Slot
    BY <1>2, <1>7, <1>10, <2>6, Granted
  <2>7. ASSUME NEW r \in Subscribers, NEW id \in Range(attach[r])
        PROVE  r # s /\ id \in Range(attach'[r]) /\ granted'[id] = granted[id]
    <3>1. id \in Ids
      BY <1>2, Granted
    <3>2. r # s
      BY <1>1, <1>2, <3>1 DEF AttachmentsInv, Match
    <3> QED BY <1>7, <1>10, <3>1, <3>2
  <2>8. AttachmentsInv'
    <3>1. ASSUME NEW r \in Subscribers, NEW id \in Range(attach'[r])
          PROVE  granted'[id].sub = r /\ Match(r, granted[id].pub)'
      <4>1. CASE r = s
        <5>1. PICK k \in 1 .. fits : granted'[id].sub = s /\ granted'[id].pub = pubs[k]
          BY <2>4, <4>1
        <5> QED BY <1>5, <2>3, <4>1, <5>1
      <4>2. CASE r # s
        <5>1. /\ granted[id].sub = r /\ Match(r, granted[id].pub) /\ granted[id].pub \in Publishers
              /\ granted'[id] = granted[id]
          BY <1>2, <2>6, <4>2 DEF AttachmentsInv
        <5> QED BY <2>3, <4>2, <5>1
      <4> QED BY <4>1, <4>2
    <3>2. ASSUME NEW r \in Subscribers PROVE IsInjective(attach'[r])
      BY <1>2, <1>8, <1>10 DEF AttachmentsInv
    <3>3. ASSUME NEW r \in Subscribers, NEW i \in Range(attach'[r]), NEW j \in Range(attach'[r]),
                 granted'[i].pub = granted'[j].pub
          PROVE  i = j
      <4>1. CASE r = s
        <5>1. PICK k \in 1 .. fits : i = Len(granted) + k /\ granted'[i].pub = pubs[k]
          BY <2>4, <4>1
        <5>2. PICK l \in 1 .. fits : j = Len(granted) + l /\ granted'[j].pub = pubs[l]
          BY <2>4, <4>1
        <5>3. k = l
          BY <1>3, <2>1, <3>3, <5>1, <5>2 DEF IsInjective
        <5> QED BY <5>1, <5>2, <5>3
      <4>2. CASE r # s
        BY <1>2, <2>6, <3>3, <4>2 DEF AttachmentsInv
      <4> QED BY <4>1, <4>2
    <3>4. ASSUME NEW r \in Subscribers, NEW p \in Publishers, Match(r, p)'
          PROVE  \E id \in Range(attach'[r]) : granted'[id].pub = p
      <4>1. CASE r = s
        BY <2>3, <2>5, <3>4, <4>1
      <4>2. CASE r # s
        <5>1. PICK id \in Range(attach[r]) : granted[id].pub = p
          BY <1>2, <2>3, <3>4, <4>2 DEF AttachmentsInv
        <5> QED BY <2>7, <5>1
      <4> QED BY <4>1, <4>2
    <3> QED BY <3>1, <3>2, <3>3, <3>4 DEF AttachmentsInv
  <2>9. SlotsInv'
    <3>1. ASSUME NEW p \in Publishers, NEW x \in Slot
          PROVE  Leased(p, x)' <=> Leased(p, x) \/ (p \in Range(pubs) /\ x = TopSlot(p))
      <4>1. ASSUME Leased(p, x) PROVE Leased(p, x)'
        BY <2>7, <4>1 DEF Leased
      <4>2. ASSUME p \in Range(pubs), x = TopSlot(p) PROVE Leased(p, x)'
        BY <2>5, <4>2 DEF Leased
      <4>3. ASSUME Leased(p, x)' PROVE Leased(p, x) \/ (p \in Range(pubs) /\ x = TopSlot(p))
        <5>1. PICK r \in Subscribers :
                \E id \in Range(attach'[r]) : granted'[id].pub = p /\ granted'[id].slot = x
          BY <4>3 DEF Leased
        <5>2. CASE r = s
          BY <1>5, <2>4, <5>1, <5>2
        <5>3. CASE r # s
          BY <2>6, <5>1, <5>3 DEF Leased
        <5> QED BY <5>2, <5>3
      <4> QED BY <4>1, <4>2, <4>3
    <3>2. ASSUME NEW p \in Publishers, role'[p] = "publisher", NEW x \in Slot
          PROVE  x \in free'[p] <=> ~Leased(p, x)'
      <4>1. x \in free[p] <=> ~Leased(p, x)
        BY <1>2, <1>10, <3>2 DEF SlotsInv
      <4> QED BY <2>2, <3>1, <4>1
    \* A new attachment does not have a slot that has been given away.
    <3>3. ASSUME NEW r \in Subscribers, r # s, NEW i \in Range(attach'[s]), NEW j \in Range(attach'[r]),
                 granted'[i].pub = granted'[j].pub, granted'[i].slot = granted'[j].slot
          PROVE  FALSE
      <4>1. PICK k \in 1 .. fits : granted'[i].pub = pubs[k] /\ granted'[i].slot = TopSlot(pubs[k])
        BY <2>4
      <4>2. j \in Range(attach[r]) /\ granted[j].pub = pubs[k] /\ granted[j].slot = TopSlot(pubs[k])
        BY <2>6, <3>3, <4>1
      <4>3. Leased(pubs[k], TopSlot(pubs[k]))
        BY <4>2 DEF Leased
      <4>4. role[pubs[k]] = "publisher"
        BY <1>3, <1>5
      <4> QED BY <1>2, <1>5, <4>3, <4>4 DEF SlotsInv
    <3>4. ASSUME NEW q \in Subscribers, NEW r \in Subscribers,
                 NEW i \in Range(attach'[q]), NEW j \in Range(attach'[r]),
                 granted'[i].pub = granted'[j].pub, granted'[i].slot = granted'[j].slot
          PROVE  i = j
      <4>1. CASE q = s /\ r = s
        BY <2>8, <3>4, <4>1 DEF AttachmentsInv
      <4>2. CASE q # s /\ r # s
        BY <1>2, <2>6, <3>4, <4>2 DEF SlotsInv
      <4>3. CASE q = s /\ r # s
        BY <3>3, <3>4, <4>3
      <4>4. CASE q # s /\ r = s
        BY <3>3, <3>4, <4>4
      <4> QED BY <4>1, <4>2, <4>3, <4>4
    <3> QED BY <3>2, <3>4 DEF SlotsInv
  <2> QED BY <2>8, <2>9
<1> QED BY <1>9, <1>12, <1>13, <1>14 DEF IInv, TablesInv

\* A publisher is attached to the subscribers of its topic, slot by slot.
LEMMA PublisherRegistrationStep ==
  ASSUME IInv, NEW p \in Publishers, HandlePublisherRegistration(p)
  PROVE  IInv'
<1> DEFINE subs == topicSubs[TopicOf[p]]
           n == IF Len(subs) <= SlotCount THEN Len(subs) ELSE 0
           more == [k \in 1 .. n |-> Attachment(subs[k], p, k - 1)]
           Records == [sub : Subscribers, pub : Publishers, slot : Slot]
<1>1. /\ broker = "up" /\ role[p] = "none"
      /\ role' = [role EXCEPT ![p] = "publisher"]
      /\ topicPubs' = [topicPubs EXCEPT ![TopicOf[p]] = Append(@, p)]
      /\ free' = [free EXCEPT ![p] = Slot \ {k - 1 : k \in 1 .. n}]
      /\ granted' = granted \o more
      /\ attach' = [s \in Subscribers |->
                      IF \E k \in 1 .. n : subs[k] = s
                        THEN Append(attach[s], Len(granted) + CHOOSE k \in 1 .. n : subs[k] = s)
                        ELSE attach[s]]
      /\ topicSubs' = topicSubs
      /\ broker' \in {"inconsistent", "registerSend", "noSlot", "up"}
      /\ broker' = "inconsistent" => \E k \in 1 .. n : role[subs[k]] # "subscriber"
      /\ broker' = "up" => Len(subs) <= SlotCount
  BY DEF HandlePublisherRegistration, HasRoom
<1>2. BrokerTypeOK /\ ListsInv /\ AttachmentsInv /\ SlotsInv
  BY <1>1 DEF IInv, TablesInv
<1>3. /\ TopicOf[p] \in Topics /\ subs \in Seq(Subscribers) /\ IsInjective(subs)
      /\ Len(subs) \in Nat /\ DOMAIN subs = 1 .. Len(subs)
      /\ \A k \in 1 .. Len(subs) : subs[k] \in Subscribers
      /\ Range(subs) = {subs[k] : k \in 1 .. Len(subs)}
      /\ \A s \in Subscribers : s \in Range(subs) <=>
           role[s] = "subscriber" /\ TopicOf[p] \in Range(TopicsOf[s])
  <2>1. TopicOf[p] \in Topics
    BY Given
  <2>2. subs \in Seq(Subscribers) /\ IsInjective(subs)
    BY <1>2, <2>1 DEF BrokerTypeOK, ListsInv
  <2>3. \A s \in Subscribers : s \in Range(subs) <=>
          role[s] = "subscriber" /\ TopicOf[p] \in Range(TopicsOf[s])
    BY <1>2, <2>1 DEF ListsInv
  <2> HIDE DEF subs
  <2> QED BY <2>1, <2>2, <2>3, LenProperties, ElementOfSeq DEF Range
<1>4. /\ n \in 0 .. Len(subs) /\ n \in Nat /\ n <= SlotCount
      /\ Len(subs) <= SlotCount => n = Len(subs)
  <2>1. Len(subs) \in Nat /\ SlotCount \in Nat
    BY <1>3, Given
  <2> HIDE DEF subs
  <2> QED BY <2>1
<1> HIDE DEF subs, n
<1>5. ASSUME NEW k \in 1 .. n
      PROVE  k \in 1 .. Len(subs) /\ subs[k] \in Subscribers /\ k - 1 \in Slot /\ k \in Nat
  <2>1. k \in 1 .. Len(subs) /\ k - 1 \in 0 .. SlotCount - 1
    <3>1. SlotCount \in Nat /\ Len(subs) \in Nat
      BY <1>3, Given
    <3> QED BY <1>4, <3>1
  <2> QED BY <1>3, <2>1 DEF Slot
<1>6. /\ more \in Seq(Records) /\ Len(more) = n
      /\ \A k \in 1 .. n : more[k].sub = subs[k] /\ more[k].pub = p /\ more[k].slot = k - 1
  <2>1. \A k \in 1 .. n : more[k] \in Records
    BY <1>5 DEF Attachment
  <2>2. more \in Seq(Records) /\ Len(more) = n
    BY <1>4, <2>1
  <2> QED BY <2>2 DEF Attachment
<1> HIDE DEF more
<1>7. /\ granted' \in Seq(Records) /\ Ids \subseteq Ids' /\ Seq(Ids) \subseteq Seq(Ids')
      /\ \A id \in Ids : granted'[id] = granted[id]
      /\ \A k \in 1 .. n : /\ Len(granted) + k \in Ids' \ Ids
                           /\ granted'[Len(granted) + k] = more[k]
      /\ Len(granted) \in Nat
  BY <1>1, <1>2, <1>6, GrantsGrow, Granted
<1>8. ASSUME NEW s \in Subscribers
      PROVE  /\ attach[s] \in Seq(Ids) /\ attach[s] \in Seq(Ids') /\ IsInjective(attach[s])
             /\ Range(attach[s]) \subseteq Ids
  BY <1>2, <1>7, Granted DEF AttachmentsInv
<1>9. ASSUME NEW k \in 1 .. n
      PROVE  /\ attach'[subs[k]] \in Seq(Ids') /\ IsInjective(attach'[subs[k]])
             /\ Range(attach'[subs[k]]) = Range(attach[subs[k]]) \cup {Len(granted) + k}
  <2>1. (CHOOSE l \in 1 .. n : subs[l] = subs[k]) = k
    <3>1. \A l \in 1 .. n : subs[l] = subs[k] => l = k
      BY <1>3, <1>5 DEF IsInjective
    <3> QED BY <3>1
  <2>2. attach'[subs[k]] = Append(attach[subs[k]], Len(granted) + k)
    BY <1>1, <1>5, <2>1
  <2>3. /\ attach[subs[k]] \in Seq(Ids') /\ IsInjective(attach[subs[k]])
        /\ Len(granted) + k \in Ids' /\ Len(granted) + k \notin Range(attach[subs[k]])
    BY <1>5, <1>7, <1>8
  <2> QED BY <2>2, <2>3, Appended
<1>10. ASSUME NEW s \in Subscribers, \A k \in 1 .. n : subs[k] # s
       PROVE  attach'[s] = attach[s]
  BY <1>1, <1>10
<1>11. /\ \A s \in Subscribers : role'[s] = role[s]
       /\ \A q \in Publishers \ {p} : role'[q] = role[q] /\ free'[q] = free[q]
       /\ role'[p] = "publisher" /\ free'[p] = Slot \ {k - 1 : k \in 1 .. n}
       /\ role' \in [Clients -> {"none", "subscriber", "publisher", "gone"}]
       /\ free' \in [Publishers -> SUBSET Slot]
  BY <1>1, <1>2, Given DEF BrokerTypeOK
<1>12. broker' # "inconsistent"
  <2>1. ASSUME NEW k \in 1 .. n PROVE role[subs[k]] = "subscriber"
    BY <1>3, <1>5
  <2> QED BY <1>1, <2>1
<1>13. ASSUME NEW t \in Topics
       PROVE  /\ topicPubs'[t] \in Seq(Publishers) /\ IsInjective(topicPubs'[t])
              /\ \A q \in Publishers : q \in Range(topicPubs'[t]) <=>
                   q \in Range(topicPubs[t]) \/ (q = p /\ t = TopicOf[p])
  <2>1. /\ topicPubs[t] \in Seq(Publishers) /\ IsInjective(topicPubs[t])
        /\ p \notin Range(topicPubs[t]) /\ topicPubs \in [Topics -> Seq(Publishers)]
    BY <1>1, <1>2 DEF BrokerTypeOK, ListsInv
  <2>2. /\ Append(topicPubs[t], p) \in Seq(Publishers) /\ IsInjective(Append(topicPubs[t], p))
        /\ Range(Append(topicPubs[t], p)) = Range(topicPubs[t]) \cup {p}
    BY <2>1, Appended
  <2> QED BY <1>1, <2>1, <2>2
<1>14. BrokerTypeOK'
  <2>1. topicPubs' \in [Topics -> Seq(Publishers)]
    <3>1. topicPubs' = [t \in Topics |-> topicPubs'[t]]
      BY <1>1, <1>2 DEF BrokerTypeOK
    <3> QED BY <1>13, <3>1
  <2>2. \A s \in Subscribers : attach'[s] \in Seq(Ids')
    BY <1>8, <1>9, <1>10
  <2>3. attach' \in [Subscribers -> Seq(Ids')]
    <3>1. attach' = [s \in Subscribers |-> attach'[s]]
      BY <1>1
    <3> QED BY <2>2, <3>1
  <2>4. broker' \in {"up"} \cup Exits
    BY <1>1 DEF Exits
  <2>5. topicSubs' \in [Topics -> Seq(Subscribers)]
    BY <1>1, <1>2 DEF BrokerTypeOK
  <2> QED BY <1>7, <1>11, <2>1, <2>3, <2>4, <2>5 DEF BrokerTypeOK
<1>15. ListsInv'
  <2>1. \A t \in Topics : IsInjective(topicSubs'[t]) /\ IsInjective(topicPubs'[t])
    BY <1>1, <1>2, <1>13 DEF ListsInv
  <2>2. ASSUME NEW t \in Topics, NEW s \in Subscribers
        PROVE  s \in Range(topicSubs'[t]) <=> role'[s] = "subscriber" /\ t \in Range(TopicsOf[s])
    BY <1>1, <1>2, <1>11 DEF ListsInv
  <2>3. ASSUME NEW t \in Topics, NEW q \in Publishers
        PROVE  q \in Range(topicPubs'[t]) <=> role'[q] = "publisher" /\ TopicOf[q] = t
    <3>1. q \in Range(topicPubs[t]) <=> role[q] = "publisher" /\ TopicOf[q] = t
      BY <1>2 DEF ListsInv
    <3> QED BY <1>1, <1>11, <1>13, <3>1
  <2> QED BY <2>1, <2>2, <2>3 DEF ListsInv
<1>16. ASSUME broker' = "up" PROVE AttachmentsInv' /\ SlotsInv'
  <2>1. n = Len(subs)
    BY <1>1, <1>4, <1>16
  <2>2. ASSUME NEW s \in Subscribers, NEW q \in Publishers
        PROVE  Match(s, q)' <=> IF q = p THEN s \in Range(subs) ELSE Match(s, q)
    BY <1>3, <1>11 DEF Match
  \* The old attachments, and the new ones.
  <2>3. ASSUME NEW s \in Subscribers, NEW id \in Range(attach[s])
        PROVE  /\ id \in Range(attach'[s]) /\ id \in Ids /\ granted'[id] = granted[id]
               /\ granted[id].pub \in Publishers /\ granted[id].pub # p
    <3>1. id \in Ids /\ granted[id].pub \in Publishers
      BY <1>2, Granted
    <3>2. granted[id].pub # p
      BY <1>1, <1>2, <3>1 DEF AttachmentsInv, Match
    <3>3. id \in Range(attach'[s])
      BY <1>9, <1>10
    <3> QED BY <1>7, <3>1, <3>2, <3>3
  <2>4. ASSUME NEW k \in 1 .. n
        PROVE  /\ Len(granted) + k \in Range(attach'[subs[k]])
               /\ granted'[Len(granted) + k].pub = p /\ granted'[Len(granted) + k].slot = k - 1
    BY <1>6, <1>7, <1>9
  <2>5. ASSUME NEW s \in Subscribers, NEW id \in Range(attach'[s]), id \notin Range(attach[s])
        PROVE  \E k \in 1 .. n :
                 /\ id = Len(granted) + k /\ s = subs[k] /\ granted'[id].sub = s
                 /\ granted'[id].pub = p /\ granted'[id].slot = k - 1
    <3>1. PICK k \in 1 .. n : subs[k] = s
      BY <1>10, <2>5
    <3>2. id = Len(granted) + k
      BY <1>9, <2>5, <3>1
    <3> QED BY <1>6, <1>7, <3>1, <3>2
  <2>6. AttachmentsInv'
    <3>1. ASSUME NEW s \in Subscribers, NEW id \in Range(attach'[s])
          PROVE  granted'[id].sub = s /\ Match(s, granted[id].pub)'
      <4>1. CASE id \in Range(attach[s])
        <5>1. /\ granted[id].sub = s /\ Match(s, granted[id].pub)
              /\ granted[id].pub \in Publishers /\ granted[id].pub # p
              /\ granted'[id] = granted[id]
          BY <1>2, <2>3, <4>1 DEF AttachmentsInv
        <5> QED BY <2>2, <5>1
      <4>2. CASE id \notin Range(attach[s])
        <5>1. PICK k \in 1 .. n : s = subs[k] /\ granted'[id].sub = s /\ granted'[id].pub = p
          BY <2>5, <4>2
        <5>2. s \in Range(subs)
          BY <1>3, <1>5, <5>1
        <5> QED BY <2>2, <5>1, <5>2
      <4> QED BY <4>1, <4>2
    <3>2. ASSUME NEW s \in Subscribers PROVE IsInjective(attach'[s])
      BY <1>8, <1>9, <1>10
    <3>3. ASSUME NEW s \in Subscribers, NEW i \in Range(attach'[s]), NEW j \in Range(attach'[s]),
                 granted'[i].pub = granted'[j].pub
          PROVE  i = j
      <4>1. CASE granted'[i].pub = p
        <5>1. i \notin Range(attach[s]) /\ j \notin Range(attach[s])
          BY <2>3, <3>3, <4>1
        <5>2. PICK k \in 1 .. n : i = Len(granted) + k /\ s = subs[k]
          BY <2>5, <5>1
        <5>3. PICK l \in 1 .. n : j = Len(granted) + l /\ s = subs[l]
          BY <2>5, <5>1
        <5>4. k = l
          BY <1>3, <1>5, <5>2, <5>3 DEF IsInjective
        <5> QED BY <5>2, <5>3, <5>4
      <4>2. CASE granted'[i].pub # p
        <5>1. i \in Range(attach[s]) /\ j \in Range(attach[s])
          BY <2>5, <3>3, <4>2
        <5> QED BY <1>2, <2>3, <3>3, <5>1 DEF AttachmentsInv
      <4> QED BY <4>1, <4>2
    <3>4. ASSUME NEW s \in Subscribers, NEW q \in Publishers, Match(s, q)'
          PROVE  \E id \in Range(attach'[s]) : granted'[id].pub = q
      <4>1. CASE q = p
        <5>1. PICK k \in 1 .. n : s = subs[k]
          BY <1>3, <2>1, <2>2, <3>4, <4>1
        <5> QED BY <2>4, <4>1, <5>1
      <4>2. CASE q # p
        <5>1. PICK id \in Range(attach[s]) : granted[id].pub = q
          BY <1>2, <2>2, <3>4, <4>2 DEF AttachmentsInv
        <5> QED BY <2>3, <5>1
      <4> QED BY <4>1, <4>2
    <3>5. \A s \in Subscribers, id \in Ids' :
            id \in Range(attach'[s]) => granted'[id].sub = s /\ Match(s, granted[id].pub)'
      BY <3>1
    <3> QED BY <3>2, <3>3, <3>4, <3>5 DEF AttachmentsInv
  <2>7. SlotsInv'
    <3>1. ASSUME NEW q \in Publishers, NEW x \in Slot
          PROVE  Leased(q, x)' <=> IF q = p THEN \E k \in 1 .. n : x = k - 1 ELSE Leased(q, x)
      <4>1. ASSUME q # p, Leased(q, x) PROVE Leased(q, x)'
        BY <2>3, <4>1 DEF Leased
      <4>2. ASSUME q = p, NEW k \in 1 .. n, x = k - 1 PROVE Leased(q, x)'
        BY <1>5, <2>4, <4>2 DEF Leased
      <4>3. ASSUME Leased(q, x)'
            PROVE  IF q = p THEN \E k \in 1 .. n : x = k - 1 ELSE Leased(q, x)
        <5>1. PICK s \in Subscribers :
                \E id \in Range(attach'[s]) : granted'[id].pub = q /\ granted'[id].slot = x
          BY <4>3 DEF Leased
        <5>2. PICK id \in Range(attach'[s]) : granted'[id].pub = q /\ granted'[id].slot = x
          BY <5>1
        <5>3. CASE id \in Range(attach[s])
          BY <2>3, <5>2, <5>3 DEF Leased
        <5>4. CASE id \notin Range(attach[s])
          BY <2>5, <5>2, <5>4
        <5> QED BY <5>3, <5>4
      <4> QED BY <4>1, <4>2, <4>3
    <3>2. ASSUME NEW q \in Publishers, role'[q] = "publisher", NEW x \in Slot
          PROVE  x \in free'[q] <=> ~Leased(q, x)'
      <4>1. CASE q = p
        BY <1>11, <3>1, <4>1
      <4>2. CASE q # p
        <5>1. x \in free[q] <=> ~Leased(q, x)
          BY <1>2, <1>11, <3>2, <4>2 DEF SlotsInv
        <5> QED BY <1>11, <3>1, <4>2, <5>1
      <4> QED BY <4>1, <4>2
    <3>3. ASSUME NEW r \in Subscribers, NEW s \in Subscribers,
                 NEW i \in Range(attach'[r]), NEW j \in Range(attach'[s]),
                 granted'[i].pub = granted'[j].pub, granted'[i].slot = granted'[j].slot
          PROVE  i = j
      <4>1. CASE granted'[i].pub = p
        <5>1. i \notin Range(attach[r]) /\ j \notin Range(attach[s])
          BY <2>3, <3>3, <4>1
        <5>2. PICK k \in 1 .. n : i = Len(granted) + k /\ granted'[i].slot = k - 1
          BY <2>5, <5>1
        <5>3. PICK l \in 1 .. n : j = Len(granted) + l /\ granted'[j].slot = l - 1
          BY <2>5, <5>1
        <5>4. k = l
          BY <3>3, <5>2, <5>3
        <5> QED BY <5>2, <5>3, <5>4
      <4>2. CASE granted'[i].pub # p
        <5>1. i \in Range(attach[r]) /\ j \in Range(attach[s])
          BY <2>5, <3>3, <4>2
        <5> QED BY <1>2, <2>3, <3>3, <5>1 DEF SlotsInv
      <4> QED BY <4>1, <4>2
    <3> QED BY <3>2, <3>3 DEF SlotsInv
  <2> QED BY <2>6, <2>7
<1> QED BY <1>12, <1>14, <1>15, <1>16 DEF IInv, TablesInv

-----------------------------------------------------------------------------
LEMMA InitIInv ==
  ASSUME Init
  PROVE  IInv
<1>1. Range(<<>>) = {} /\ IsInjective(<<>>) /\ \A S : <<>> \in Seq(S)
  BY DEF Range, IsInjective
<1>2. /\ broker = "up" /\ granted = <<>>
      /\ \A c \in Clients : role[c] = "none"
      /\ \A t \in Topics : topicSubs[t] = <<>> /\ topicPubs[t] = <<>>
      /\ \A s \in Subscribers : attach[s] = <<>>
  BY DEF Init
<1>3. BrokerTypeOK
  BY <1>1 DEF Init, BrokerTypeOK
<1>4. ListsInv
  BY <1>1, <1>2, Given DEF ListsInv
<1>5. AttachmentsInv
  BY <1>1, <1>2, Given DEF AttachmentsInv, Match
<1>6. SlotsInv
  BY <1>1, <1>2, Given DEF SlotsInv
<1> QED BY <1>2, <1>3, <1>4, <1>5, <1>6 DEF IInv, TablesInv

LEMMA StepIInv ==
  ASSUME IInv, [Next]_vars
  PROVE  IInv'
<1>1. CASE BrokerStep
  <2>1. CASE \E s \in Subscribers : HandleSubscriberRegistration(s)
    BY <2>1, SubscriberRegistrationStep
  <2>2. CASE \E s \in Subscribers : HandleSubscriberEnd(s)
    BY <2>2, SubscriberEndStep
  <2>3. CASE \E p \in Publishers : HandlePublisherRegistration(p)
    BY <2>3, PublisherRegistrationStep
  <2>4. CASE \E p \in Publishers : HandlePublisherEnd(p)
    BY <2>4, PublisherEndStep
  <2>5. CASE \E o \in Observers : HandleStatusQuery(o)
    BY <2>5, StatusQueryStep
  <2>6. CASE \E c \in Clients : HandleUnregisteredEnd(c)
    BY <2>6, ClientsAreQuiet
  <2> QED BY <1>1, <2>1, <2>2, <2>3, <2>4, <2>5, <2>6 DEF BrokerStep
<1>2. CASE Shutdown \/ ClientReceives
  BY <1>2, ClientsAreQuiet
<1>3. CASE \E c \in Clients : Connect(c) \/ Register(c) \/ Die(c) \/ BrokerClosed(c)
  BY <1>3, ClientsAreQuiet
<1>4. CASE UNCHANGED vars
  BY <1>4, ClientsAreQuiet
<1> QED BY <1>1, <1>2, <1>3, <1>4 DEF Next

(***************************************************************************)
(* In every state of every execution of the broker (broker.cpp) its tables *)
(* have their types and, as long as it runs, match one another.            *)
(***************************************************************************)
THEOREM BrokerInvariant == Spec => []IInv
<1>1. Init => IInv
  BY InitIInv
<1>2. IInv /\ [Next]_vars => IInv'
  BY StepIInv
<1> QED BY <1>1, <1>2, PTL DEF Spec

(***************************************************************************)
(* No handler of the broker loses a slot or gives one to two subscribers:  *)
(* the heap and the leases of a publisher make up all its slots, for any   *)
(* number of clients, topics and slots (SlotsArePartitioned).              *)
(***************************************************************************)
THEOREM SlotsStayPartitioned == Spec => []SlotsArePartitioned
<1>1. ASSUME IInv PROVE SlotsArePartitioned
  <2> SUFFICES ASSUME broker = "up" PROVE SlotsArePartitioned
    BY DEF SlotsArePartitioned
  <2> DEFINE leases == UNION {Range(attach[s]) : s \in Subscribers}
  <2>1. BrokerTypeOK /\ SlotsInv
    BY <1>1 DEF IInv, TablesInv
  <2>2. \A id : id \in leases <=> \E s \in Subscribers : id \in Range(attach[s])
    OBVIOUS
  <2>3. leases \subseteq Ids
    BY <2>1, <2>2, Granted
  <2> HIDE DEF leases
  <2>4. ASSUME NEW p \in Publishers, role[p] = "publisher"
        PROVE  free[p] = Slot \ {granted[id].slot : id \in {i \in leases : granted[i].pub = p}}
    <3>1. free[p] \subseteq Slot
      BY <2>1 DEF BrokerTypeOK
    <3>2. \A x \in Slot : x \in free[p] <=> ~Leased(p, x)
      BY <2>1, <2>4 DEF SlotsInv
    <3>3. \A x : Leased(p, x) <=> \E id \in leases : granted[id].pub = p /\ granted[id].slot = x
      BY <2>2 DEF Leased
    <3> QED BY <3>1, <3>2, <3>3
  <2>5. ASSUME NEW i \in leases, NEW j \in leases,
               granted[i].pub = granted[j].pub, granted[i].slot = granted[j].slot
        PROVE  i = j
    BY <2>1, <2>2, <2>5 DEF SlotsInv
  <2> QED BY <2>4, <2>5 DEF SlotsArePartitioned, leases
<1> QED BY <1>1, BrokerInvariant, PTL

(***************************************************************************)
(* However subscribers and publishers come and go, a registered subscriber *)
(* is attached once to each publisher of its topics and to nobody else,    *)
(* and no look-up on which the broker would exit fails (TopicTablesAgree). *)
(***************************************************************************)
THEOREM TopicTablesStayRight == Spec => []TopicTablesAgree
<1>1. ASSUME IInv PROVE TopicTablesAgree
  <2>1. broker # "inconsistent"
    BY <1>1 DEF IInv
  <2>2. ASSUME broker = "up", NEW s \in Subscribers,
               NEW pubs, pubs = UNION {Range(topicPubs[t]) :
                                         t \in {u \in Topics : s \in Range(topicSubs[u])}}
        PROVE  /\ {granted[id].pub : id \in Range(attach[s])} = pubs
               /\ Len(attach[s]) = Cardinality(pubs)
    <3>1. BrokerTypeOK /\ ListsInv /\ AttachmentsInv
      BY <1>1, <2>2 DEF IInv, TablesInv
    <3>2. ASSUME NEW p PROVE p \in pubs <=> p \in Publishers /\ Match(s, p)
      <4>1. p \in pubs <=> \E t \in Topics : s \in Range(topicSubs[t]) /\ p \in Range(topicPubs[t])
        BY <2>2
      <4>2. \A t \in Topics : Range(topicPubs[t]) \subseteq Publishers
        BY <3>1, RangeOfSeq DEF BrokerTypeOK
      <4>3. \A t \in Topics : s \in Range(topicSubs[t]) <=>
              role[s] = "subscriber" /\ t \in Range(TopicsOf[s])
        BY <3>1 DEF ListsInv
      <4>4. ASSUME p \in Publishers
            PROVE  /\ \A t \in Topics : p \in Range(topicPubs[t]) <=>
                        role[p] = "publisher" /\ TopicOf[p] = t
                   /\ TopicOf[p] \in Topics
        BY <3>1, <4>4, Given DEF ListsInv
      <4> QED BY <4>1, <4>2, <4>3, <4>4 DEF Match
    <3>3. /\ attach[s] \in Seq(Ids) /\ Range(attach[s]) \subseteq Ids /\ IsInjective(attach[s])
          /\ \A id \in Ids : granted[id].pub \in Publishers
      BY <3>1, Granted DEF AttachmentsInv
    <3>4. {granted[id].pub : id \in Range(attach[s])} = pubs
      <4>1. ASSUME NEW id \in Range(attach[s]) PROVE granted[id].pub \in pubs
        BY <3>1, <3>2, <3>3 DEF AttachmentsInv
      <4>2. ASSUME NEW p \in pubs PROVE \E id \in Range(attach[s]) : granted[id].pub = p
        BY <3>1, <3>2 DEF AttachmentsInv
      <4> QED BY <4>1, <4>2
    <3> DEFINE f == [k \in 1 .. Len(attach[s]) |-> granted[attach[s][k]].pub]
    <3>5. /\ DOMAIN attach[s] = 1 .. Len(attach[s]) /\ Len(attach[s]) \in Nat
          /\ Range(attach[s]) = {attach[s][k] : k \in 1 .. Len(attach[s])}
      BY <3>3, LenProperties DEF Range
    <3>6. f \in [1 .. Len(attach[s]) -> pubs]
      BY <3>4, <3>5
    <3>7. ASSUME NEW i \in 1 .. Len(attach[s]), NEW j \in 1 .. Len(attach[s]), f[i] = f[j]
          PROVE  i = j
      <4>1. attach[s][i] = attach[s][j]
        BY <3>1, <3>5, <3>7 DEF AttachmentsInv
      <4> QED BY <3>3, <3>5, <4>1 DEF IsInjective
    <3>8. ASSUME NEW p \in pubs PROVE \E k \in 1 .. Len(attach[s]) : f[k] = p
      BY <3>4, <3>5
    <3>9. ExistsBijection(1 .. Len(attach[s]), pubs)
      <4> HIDE DEF f
      <4> QED BY <3>6, <3>7, <3>8, Fun_IsBij, Fun_ExistsBij
    <3>10. Cardinality(pubs) = Len(attach[s])
      BY <3>5, <3>9, FS_CountingElements
    <3> QED BY <3>4, <3>10
  <2> QED BY <2>1, <2>2 DEF TopicTablesAgree
<1> QED BY <1>1, BrokerInvariant, PTL

-----------------------------------------------------------------------------
(***************************************************************************)
(* The sockets.  What a client holds under a key, the attachment in a slot *)
(* of a publisher or an attachment id of a subscriber, is what the packets *)
(* on their way say of it, one after the other; behind the last one it is  *)
(* what the broker has leased.                                             *)
(***************************************************************************)
Endpoints == Publishers \cup Subscribers
Keys(c) == IF c \in Publishers THEN Slot ELSE Nat \ {0}

\* What a packet says of a key, if anything.
Silent == -1
Says(m, key) ==
  CASE m.type = "SubscriberEventFdAndSlot"  -> IF m.slot = key THEN m.id ELSE Silent
    [] m.type = "SubscriberDisconnected"    -> IF m.slot = key THEN NoId ELSE Silent
    [] m.type = "SubscriberAttachmentBatch" -> IF key \in Range(m.ids) THEN key ELSE Silent
    [] m.type = "PublisherDisconnected"     -> IF m.id = key THEN NoId ELSE Silent
    [] m.type = "count"                     -> Silent
Saying(q, key) == [k \in 1 .. Len(q) |-> Says(q[k], key)]

\* The last thing said before the k-th, or what was there before anything was.
Told(v, start, k) ==
  LET said == {j \in 1 .. k - 1 : v[j] # Silent}
  IN IF said = {} THEN start ELSE v[Max(said)]

\* Leases and ends of leases take turns.
Orderly(v, start) ==
  \A k \in DOMAIN v : v[k] # Silent => (v[k] = NoId <=> Told(v, start, k) # NoId)

Holds(c, key) ==
  IF c \in Publishers THEN tracked[c][key] ELSE IF key \in installed[c] THEN key ELSE NoId
Leases(c, key) ==
  IF c \in Publishers THEN Lease(c, key) ELSE IF key \in Range(attach[c]) THEN key ELSE NoId

ToldIn(c, key, k) == Told(Saying(inbox[c], key), Holds(c, key), k)

\* No client meets a packet it rejects.
LedgerInv ==
  \A c \in Endpoints : \A key \in Keys(c) : Orderly(Saying(inbox[c], key), Holds(c, key))

\* Once it has read all of them, it holds what the broker has leased.
AgreeInv ==
  broker = "up" => \A c \in Endpoints : proc[c] # "dead" =>
    \A key \in Keys(c) : ToldIn(c, key, Len(inbox[c]) + 1) = Leases(c, key)

(***************************************************************************)
(* The publisher's handshake: the count comes first, and as many           *)
(* registrations as it says behind it, before anything else.  While the    *)
(* broker is up, they are all there.                                       *)
(***************************************************************************)
Expected(p) == IF awaiting[p] = Unknown THEN inbox[p][1].count + 1 ELSE awaiting[p]

Handshake(p) ==
  /\ \A k \in DOMAIN inbox[p] :
       /\ inbox[p][k].type = "count" <=> proc[p] = "greeting" /\ awaiting[p] = Unknown /\ k = 1
       /\ proc[p] = "greeting" /\ k <= Expected(p) => inbox[p][k].type # "SubscriberDisconnected"
  /\ broker = "up" /\ proc[p] = "greeting" /\ role[p] = "publisher" =>
       inbox[p] # <<>> /\ Len(inbox[p]) >= Expected(p)
  /\ proc[p] = "greeting" => awaiting[p] # 0

HandshakeInv == \A p \in Publishers : Handshake(p)

\* A connection is opened, makes its registration, and ends.
ConnectionInv ==
  /\ \A p \in Publishers : role[p] \in {"none", "publisher", "gone"}
  /\ \A s \in Subscribers : role[s] \in {"none", "subscriber", "gone"}
  /\ \A c \in Clients :
       /\ proc[c] \in {"off", "connected"} => role[c] = "none" /\ ~pending[c]
       /\ role[c] = "none" \/ proc[c] = "dead" => inbox[c] = <<>>
       /\ role[c] = "gone" /\ c \in Endpoints => proc[c] = "dead"
       /\ pending[c] => role[c] = "none"
       /\ proc[c] = "cutOff" => broker # "up"
       /\ proc[c] # "failed"
  /\ \A p \in Publishers :
       /\ role[p] = "none" \/ proc[p] = "dead" => \A x \in Slot : tracked[p][x] = NoId
       /\ role[p] = "none" => proc[p] # "running" /\ awaiting[p] = Unknown
  /\ \A s \in Subscribers :
       /\ proc[s] # "greeting"
       /\ role[s] = "none" \/ proc[s] = "dead" => installed[s] = {}

(***************************************************************************)
(* A slot is given to the next when its last tenant is dead, and a         *)
(* publisher is told to forget a tenant that is dead.                      *)
(***************************************************************************)
NewsInv ==
  \A p \in Publishers : \A k \in DOMAIN inbox[p] :
    /\ inbox[p][k].type = "SubscriberEventFdAndSlot" =>
         \A id \in Ids : /\ granted[id].pub = p /\ granted[id].slot = inbox[p][k].slot
                         /\ id < inbox[p][k].id
                         => proc[granted[id].sub] = "dead"
    /\ inbox[p][k].type = "SubscriberDisconnected" =>
         /\ ToldIn(p, inbox[p][k].slot, k) \in Ids
         /\ proc[granted[ToldIn(p, inbox[p][k].slot, k)].sub] = "dead"

\* A tenant that the broker no longer knows is dead.
TenantsInv ==
  broker = "up" => \A id \in Ids :
    /\ role[granted[id].pub] # "none"
    /\ role[granted[id].pub] = "publisher" =>
         id \in Range(attach[granted[id].sub]) \/ proc[granted[id].sub] = "dead"

SocketInv == /\ ClientTypeOK /\ PacketTypeOK /\ ConnectionInv /\ HandshakeInv
             /\ LedgerInv /\ AgreeInv /\ NewsInv /\ TenantsInv

-----------------------------------------------------------------------------
(* What has been said so far, as lists of what packets say. *)

\* The greatest element of a set of positions.
LEMMA Greatest ==
  ASSUME NEW n \in Nat, NEW T \in SUBSET (1 .. n), T # {}
  PROVE  Max(T) \in T /\ \A y \in T : y <= Max(T)
<1> DEFINE D == {n - y : y \in T}
<1>1. D \in SUBSET Nat /\ D # {}
  <2>1. \A y \in T : y \in 1 .. n
    OBVIOUS
  <2>2. \A y \in T : n - y \in Nat
    BY <2>1
  <2> QED BY <2>2
<1>2. PICK d \in D : \A e \in D : d <= e
  BY <1>1, Least
<1>3. PICK x \in T : d = n - x
  OBVIOUS
<1>4. \A y \in T : n - y \in D /\ y \in Int /\ x \in Int
  OBVIOUS
<1>5. \A y \in T : x >= y
  BY <1>2, <1>3, <1>4
<1>6. Max(T) \in T /\ \A y \in T : Max(T) >= y
  BY <1>5 DEF Max
<1> QED BY <1>6

\* One more of them.
LEMMA ToldNext ==
  ASSUME NEW v, NEW start, NEW k \in Nat \ {0}
  PROVE  /\ Told(v, start, 1) = start
         /\ Told(v, start, k + 1) = IF v[k] # Silent THEN v[k] ELSE Told(v, start, k)
<1> DEFINE said(n) == {j \in 1 .. n - 1 : v[j] # Silent}
<1>1. \A n : Told(v, start, n) = IF said(n) = {} THEN start ELSE v[Max(said(n))]
  BY DEF Told
<1>2. said(1) = {}
  OBVIOUS
<1>3. CASE v[k] = Silent
  <2>1. said(k + 1) = said(k)
    <3>1. k + 1 - 1 = k /\ \A j \in 1 .. k : j = k \/ j \in 1 .. k - 1
      OBVIOUS
    <3> QED BY <1>3, <3>1
  <2> HIDE DEF said
  <2> QED BY <1>1, <1>2, <1>3, <2>1
<1>4. CASE v[k] # Silent
  <2>1. k \in said(k + 1) /\ said(k + 1) \in SUBSET (1 .. k)
    BY <1>4
  <2>2. Max(said(k + 1)) = k
    <3> HIDE DEF said
    <3>1. Max(said(k + 1)) \in said(k + 1) /\ \A y \in said(k + 1) : y <= Max(said(k + 1))
      BY <2>1, Greatest
    <3>2. Max(said(k + 1)) \in 1 .. k
      BY <2>1, <3>1
    <3> QED BY <2>1, <3>1, <3>2
  <2> HIDE DEF said
  <2> QED BY <1>1, <1>2, <1>4, <2>1, <2>2
<1> QED BY <1>3, <1>4

\* It depends on what comes before only.
LEMMA ToldSame ==
  ASSUME NEW v, NEW u, NEW start, NEW k \in Nat \ {0}, \A j \in 1 .. k - 1 : v[j] = u[j]
  PROVE  Told(v, start, k) = Told(u, start, k)
<1> DEFINE said(w) == {j \in 1 .. k - 1 : w[j] # Silent}
<1>1. said(v) = said(u)
  OBVIOUS
<1>2. CASE said(u) = {}
  BY <1>1, <1>2 DEF Told
<1>3. CASE said(u) # {}
  <2>1. Max(said(u)) \in said(u)
    <3>1. k - 1 \in Nat /\ said(u) \in SUBSET (1 .. k - 1)
      OBVIOUS
    <3> HIDE DEF said
    <3> QED BY <1>3, <3>1, Greatest
  <2>2. v[Max(said(u))] = u[Max(said(u))]
    BY <2>1
  <2>3. /\ Told(v, start, k) = IF said(v) = {} THEN start ELSE v[Max(said(v))]
        /\ Told(u, start, k) = IF said(u) = {} THEN start ELSE u[Max(said(u))]
    BY DEF Told
  <2> HIDE DEF said
  <2> QED BY <1>1, <1>3, <2>2, <2>3
<1> QED BY <1>2, <1>3

\* Reading the first: what it says is held, and the rest is told as before.
LEMMA Reading ==
  ASSUME NEW u, NEW v, NEW start, NEW held, NEW n \in Nat,
         DOMAIN u = 1 .. n + 1, DOMAIN v = 1 .. n, \A k \in 1 .. n : v[k] = u[k + 1],
         held = IF u[1] # Silent THEN u[1] ELSE start
  PROVE  /\ \A k \in 1 .. n + 1 : Told(v, held, k) = Told(u, start, k + 1)
         /\ Orderly(u, start) => /\ Orderly(v, held)
                                 /\ u[1] # Silent => (u[1] = NoId <=> start # NoId)
<1> DEFINE Good == {m \in Nat : m <= n => Told(v, held, m + 1) = Told(u, start, m + 1 + 1)}
<1>0. 1 \in Nat \ {0} /\ 1 \in 1 .. n + 1
  OBVIOUS
<1>00. \A k \in Nat \ {0} :
         /\ Told(v, held, k + 1) = IF v[k] # Silent THEN v[k] ELSE Told(v, held, k)
         /\ Told(u, start, k + 1) = IF u[k] # Silent THEN u[k] ELSE Told(u, start, k)
  <2>1. ASSUME NEW k \in Nat \ {0}, NEW w, NEW x
        PROVE  Told(w, x, k + 1) = IF w[k] # Silent THEN w[k] ELSE Told(w, x, k)
    BY ToldNext
  <2> QED BY <2>1
<1>1. 0 \in Good
  <2>1. Told(v, held, 1) = held /\ Told(u, start, 1) = start
    BY <1>0, ToldNext
  <2>2. Told(u, start, 1 + 1) = IF u[1] # Silent THEN u[1] ELSE Told(u, start, 1)
    BY <1>0, ToldNext
  <2> QED BY <2>1, <2>2
<1>2. ASSUME NEW m \in Nat, m \in Good PROVE m + 1 \in Good
  <2> SUFFICES ASSUME m + 1 <= n
               PROVE  Told(v, held, m + 1 + 1) = Told(u, start, m + 1 + 1 + 1)
    OBVIOUS
  <2>1. Told(v, held, m + 1) = Told(u, start, m + 1 + 1) /\ v[m + 1] = u[m + 1 + 1]
    BY <1>2
  <2>2. m + 1 \in Nat \ {0} /\ m + 1 + 1 \in Nat \ {0}
    OBVIOUS
  <2>3. Told(v, held, m + 1 + 1) = IF v[m + 1] # Silent THEN v[m + 1] ELSE Told(v, held, m + 1)
    BY <2>2, <1>00
  <2>4. Told(u, start, m + 1 + 1 + 1)
          = IF u[m + 1 + 1] # Silent THEN u[m + 1 + 1] ELSE Told(u, start, m + 1 + 1)
    BY <2>2, <1>00
  <2> QED BY <2>1, <2>3, <2>4
<1>3. ASSUME NEW k \in 1 .. n + 1 PROVE Told(v, held, k) = Told(u, start, k + 1)
  <2>1. \A m \in Nat : m \in Good
    <3> HIDE DEF Good
    <3> QED BY <1>1, <1>2, Induct
  <2>2. k - 1 \in Nat /\ k - 1 <= n /\ k - 1 + 1 = k
    OBVIOUS
  <2> QED BY <2>1, <2>2
<1>4. ASSUME Orderly(u, start)
      PROVE  Orderly(v, held) /\ (u[1] # Silent => (u[1] = NoId <=> start # NoId))
  <2>1. Told(u, start, 1) = start
    BY <1>0, ToldNext
  <2>2. ASSUME NEW k \in 1 .. n, v[k] # Silent PROVE v[k] = NoId <=> Told(v, held, k) # NoId
    <3>1. k + 1 \in 1 .. n + 1 /\ k \in 1 .. n + 1 /\ v[k] = u[k + 1]
      OBVIOUS
    <3> QED BY <1>3, <1>4, <2>2, <3>1 DEF Orderly
  <2> QED BY <1>0, <1>4, <2>1, <2>2 DEF Orderly
<1> QED BY <1>3, <1>4

\* Writing some more, of which one at most says something.
LEMMA Writing ==
  ASSUME NEW u, NEW v, NEW start, NEW n \in Nat, NEW m \in Nat,
         DOMAIN u = 1 .. n + m, DOMAIN v = 1 .. n, \A k \in 1 .. n : v[k] = u[k],
         \A i, j \in n + 1 .. n + m : u[i] # Silent /\ u[j] # Silent => i = j
  PROVE  LET end == Told(v, start, n + 1) IN
         /\ \A k \in 1 .. n + 1 : Told(u, start, k) = Told(v, start, k)
         /\ \A i \in n + 1 .. n + m : u[i] # Silent =>
              Told(u, start, i) = end /\ Told(u, start, n + m + 1) = u[i]
         /\ (\A i \in n + 1 .. n + m : u[i] = Silent) => Told(u, start, n + m + 1) = end
         /\ Orderly(v, start)
              /\ (\A i \in n + 1 .. n + m : u[i] # Silent => (u[i] = NoId <=> end # NoId))
            => Orderly(u, start)
<1> DEFINE end == Told(v, start, n + 1)
           Good == {l \in Nat : l <= m =>
                      Told(u, start, n + l + 1) =
                        IF \E i \in n + 1 .. n + l : u[i] # Silent
                          THEN u[CHOOSE i \in n + 1 .. n + l : u[i] # Silent] ELSE end}
<1> HIDE DEF end, Good
<1>1. \A k \in 1 .. n + 1 : Told(u, start, k) = Told(v, start, k)
  <2>1. ASSUME NEW k \in 1 .. n + 1 PROVE Told(u, start, k) = Told(v, start, k)
    <3>1. k \in Nat \ {0} /\ \A j \in 1 .. k - 1 : j \in 1 .. n /\ u[j] = v[j]
      OBVIOUS
    <3> QED BY <3>1, ToldSame
  <2> QED BY <2>1
<1>01. \A k \in Nat \ {0} : Told(u, start, k + 1) = IF u[k] # Silent THEN u[k] ELSE Told(u, start, k)
  BY ToldNext
<1>2. 0 \in Good
  <2>1. n + 1 \in 1 .. n + 1 /\ n + 0 + 1 = n + 1 /\ n + 1 .. n + 0 = {}
    OBVIOUS
  <2> QED BY <1>1, <2>1 DEF Good, end
<1>3. ASSUME NEW l \in Nat, l \in Good PROVE l + 1 \in Good
  <2> SUFFICES ASSUME l + 1 <= m
               PROVE  Told(u, start, n + (l + 1) + 1) =
                        IF \E i \in n + 1 .. n + (l + 1) : u[i] # Silent
                          THEN u[CHOOSE i \in n + 1 .. n + (l + 1) : u[i] # Silent] ELSE end
    BY DEF Good
  <2> DEFINE I == n + 1 .. n + l
             J == n + 1 .. n + (l + 1)
             k == n + l + 1
  <2>1. k \in Nat \ {0} /\ k = n + (l + 1) /\ J = I \cup {k} /\ k \notin I /\ J \subseteq n + 1 .. n + m
    OBVIOUS
  <2>2. Told(u, start, k + 1) = IF u[k] # Silent THEN u[k] ELSE Told(u, start, k)
    BY <2>1, <1>01
  <2>3. Told(u, start, k) = IF \E i \in I : u[i] # Silent
                              THEN u[CHOOSE i \in I : u[i] # Silent] ELSE end
    BY <1>3 DEF Good
  <2> HIDE DEF I, J, k
  <2>4. ASSUME NEW a \in J, u[a] # Silent PROVE (CHOOSE i \in J : u[i] # Silent) = a
    BY <2>1, <2>4
  <2>5. ASSUME NEW a \in I, u[a] # Silent PROVE (CHOOSE i \in I : u[i] # Silent) = a
    BY <2>1, <2>5
  <2>6. Told(u, start, k + 1) = IF \E i \in J : u[i] # Silent
                                  THEN u[CHOOSE i \in J : u[i] # Silent] ELSE end
    <3>1. CASE u[k] # Silent
      BY <2>1, <2>2, <2>4, <3>1
    <3>2. CASE u[k] = Silent /\ \E i \in I : u[i] # Silent
      BY <2>1, <2>2, <2>3, <2>4, <2>5, <3>2
    <3>3. CASE u[k] = Silent /\ ~\E i \in I : u[i] # Silent
      BY <2>1, <2>2, <2>3, <3>3
    <3> QED BY <3>1, <3>2, <3>3
  <2> QED BY <2>1, <2>6 DEF J
<1>4. \A l \in 0 .. m : Told(u, start, n + l + 1) =
                          IF \E i \in n + 1 .. n + l : u[i] # Silent
                            THEN u[CHOOSE i \in n + 1 .. n + l : u[i] # Silent] ELSE end
  <2>1. \A l \in Nat : l \in Good
    BY <1>2, <1>3, Induct
  <2>2. \A l \in 0 .. m : l \in Nat /\ l <= m
    OBVIOUS
  <2> QED BY <2>1, <2>2 DEF Good
<1>5. ASSUME NEW i \in n + 1 .. n + m, u[i] # Silent
      PROVE  Told(u, start, i) = end /\ Told(u, start, n + m + 1) = u[i]
  <2>1. i - n - 1 \in 0 .. m /\ n + (i - n - 1) + 1 = i /\ n + (i - n - 1) = i - 1
    OBVIOUS
  <2>2. \A j \in n + 1 .. i - 1 : j \in n + 1 .. n + m /\ j # i
    OBVIOUS
  <2>3. Told(u, start, i) = end
    <3>1. ~\E j \in n + 1 .. i - 1 : u[j] # Silent
      BY <1>5, <2>2
    <3> QED BY <1>4, <2>1, <3>1
  <2>4. m \in 0 .. m /\ (CHOOSE j \in n + 1 .. n + m : u[j] # Silent) = i
    BY <1>5
  <2> QED BY <1>4, <1>5, <2>3, <2>4
<1>6. (\A i \in n + 1 .. n + m : u[i] = Silent) => Told(u, start, n + m + 1) = end
  <2>1. m \in 0 .. m
    OBVIOUS
  <2> QED BY <1>4, <2>1
<1>7. ASSUME Orderly(v, start),
             \A i \in n + 1 .. n + m : u[i] # Silent => (u[i] = NoId <=> end # NoId)
      PROVE  Orderly(u, start)
  <2> SUFFICES ASSUME NEW k \in 1 .. n + m, u[k] # Silent
               PROVE  u[k] = NoId <=> Told(u, start, k) # NoId
    BY DEF Orderly
  <2>1. CASE k \in 1 .. n
    BY <1>1, <1>7, <2>1 DEF Orderly
  <2>2. CASE k \in n + 1 .. n + m
    BY <1>5, <1>7, <2>2
  <2> QED BY <2>1, <2>2
<1> QED BY <1>1, <1>5, <1>6, <1>7 DEF end

\* The attachment that leases a slot.
LEMMA LeaseIs ==
  ASSUME SlotsInv, NEW p \in Publishers, NEW x \in Slot
  PROVE  /\ \A s \in Subscribers : \A id \in Range(attach[s]) :
              granted[id].pub = p /\ granted[id].slot = x => Lease(p, x) = id
         /\ \/ Lease(p, x) = NoId /\ ~Leased(p, x)
            \/ \E s \in Subscribers : /\ Lease(p, x) \in Range(attach[s])
                                      /\ granted[Lease(p, x)].pub = p /\ granted[Lease(p, x)].slot = x
<1> DEFINE leased == {id \in UNION {Range(attach[s]) : s \in Subscribers} :
                        granted[id].pub = p /\ granted[id].slot = x}
<1>1. Lease(p, x) = IF leased = {} THEN NoId ELSE CHOOSE id \in leased : TRUE
  BY DEF Lease
<1>2. \A id : id \in leased <=> \E s \in Subscribers : /\ id \in Range(attach[s])
                                                       /\ granted[id].pub = p /\ granted[id].slot = x
  OBVIOUS
<1>3. leased = {} <=> ~Leased(p, x)
  BY <1>2 DEF Leased
<1>4. \A i, j \in leased : i = j
  BY <1>2 DEF SlotsInv
<1> HIDE DEF leased
<1>5. leased # {} => Lease(p, x) \in leased
  BY <1>1
<1>6. \A id \in leased : Lease(p, x) = id
  BY <1>4, <1>5
<1>7. leased = {} => Lease(p, x) = NoId
  BY <1>1
<1> QED BY <1>2, <1>3, <1>5, <1>6, <1>7

-----------------------------------------------------------------------------
(* Posting *)

\* A handler sends until the first packet that does not reach its receiver.
LEMMA SentCountIs ==
  ASSUME NEW sends, Len(sends) \in Nat
  PROVE  SentCount(sends) \in 0 .. Len(sends) /\ \A i \in 1 .. SentCount(sends) : Reaches(sends, i)
<1> DEFINE T == {i \in Nat : ~Reaches(sends, i)}
           P(k) == /\ \A i \in 1 .. k : Reaches(sends, i)
                   /\ k < Len(sends) => ~Reaches(sends, k + 1)
<1>1. \E k \in 0 .. Len(sends) : /\ \A i \in 1 .. k : i \notin T
                                 /\ k < Len(sends) => k + 1 \in T
  <2> HIDE DEF T
  <2> QED BY FirstOf
<1>2. \E k \in 0 .. Len(sends) : P(k)
  <2>1. PICK k \in 0 .. Len(sends) : /\ \A i \in 1 .. k : i \notin T
                                     /\ k < Len(sends) => k + 1 \in T
    BY <1>1
  <2>2. ASSUME NEW i \in 1 .. k PROVE Reaches(sends, i)
    <3>1. i \in Nat /\ i \notin T
      BY <2>1
    <3> QED BY <3>1
  <2>3. ASSUME k < Len(sends) PROVE ~Reaches(sends, k + 1)
    <3>1. k + 1 \in T
      BY <2>1, <2>3
    <3> QED BY <3>1
  <2> QED BY <2>2, <2>3
<1>3. SentCount(sends) = CHOOSE k \in 0 .. Len(sends) : P(k)
  BY DEF SentCount
<1>4. SentCount(sends) \in 0 .. Len(sends) /\ P(SentCount(sends))
  <2> HIDE DEF P
  <2> QED BY <1>2, <1>3
<1> QED BY <1>4

\* r is what is addressed to c in the first n packets: h says which they are.
Picks(h, r, sends, c, n) ==
  /\ h \in [1 .. Len(r) -> 1 .. n]
  /\ \A k \in 1 .. Len(r) : r[k] = sends[h[k]] /\ sends[h[k]].to = c
  /\ \A j, k \in 1 .. Len(r) : j < k => h[j] < h[k]
  /\ \A i \in 1 .. n : sends[i].to = c => \E k \in 1 .. Len(r) : h[k] = i

\* One packet more.
LEMMA PicksNext ==
  ASSUME NEW S, NEW sends \in Seq(S), NEW c, NEW n \in Nat, n + 1 <= Len(sends),
         NEW r \in Seq(S), NEW h, Picks(h, r, sends, c, n),
         NEW q, q = IF sends[n + 1].to = c THEN <<sends[n + 1]>> ELSE <<>>
  PROVE  r \o q \in Seq(S) /\ \E g : Picks(g, r \o q, sends, c, n + 1)
<1>1. Len(r) \in Nat /\ n + 1 \in 1 .. Len(sends) /\ sends[n + 1] \in S
  OBVIOUS
<1>2. CASE sends[n + 1].to # c
  <2>1. q = <<>> /\ r \o q = r
    BY <1>2
  <2>2. Picks(h, r, sends, c, n + 1)
    <3>1. h \in [1 .. Len(r) -> 1 .. n + 1]
      BY DEF Picks
    <3>2. ASSUME NEW i \in 1 .. n + 1, sends[i].to = c PROVE \E k \in 1 .. Len(r) : h[k] = i
      <4>1. i \in 1 .. n
        BY <1>2, <3>2
      <4> QED BY <3>2, <4>1 DEF Picks
    <3> QED BY <3>1, <3>2 DEF Picks
  <2> QED BY <2>1, <2>2
<1>3. CASE sends[n + 1].to = c
  <2> DEFINE l == Len(r)
             g == [k \in 1 .. l + 1 |-> IF k = l + 1 THEN n + 1 ELSE h[k]]
             u == r \o q
  <2>1. /\ q = <<sends[n + 1]>> /\ u \in Seq(S) /\ Len(u) = l + 1
        /\ \A k \in 1 .. l : u[k] = r[k]
        /\ u[l + 1] = sends[n + 1]
    BY <1>1, <1>3
  <2>2. \A k \in 1 .. l : h[k] \in 1 .. n
    BY DEF Picks
  <2>3. \A k \in 1 .. l + 1 : k \in 1 .. l \/ k = l + 1
    BY <1>1
  <2>4. g \in [1 .. l + 1 -> 1 .. n + 1]
    BY <2>2, <2>3
  <2>5. /\ g[l + 1] = n + 1 /\ l + 1 \in 1 .. l + 1
        /\ \A k \in 1 .. l : g[k] = h[k] /\ k \in 1 .. l + 1
    BY <1>1
  <2> HIDE DEF g, u
  <2>6. \A k \in 1 .. l + 1 : u[k] = sends[g[k]] /\ sends[g[k]].to = c
    BY <1>3, <2>1, <2>3, <2>5 DEF Picks
  <2>7. ASSUME NEW j \in 1 .. l + 1, NEW k \in 1 .. l + 1, j < k PROVE g[j] < g[k]
    <3>1. j \in 1 .. l /\ g[j] = h[j] /\ h[j] \in 1 .. n
      BY <1>1, <2>2, <2>5, <2>7
    <3>2. CASE k = l + 1
      BY <2>5, <3>1, <3>2
    <3>3. CASE k \in 1 .. l
      BY <2>5, <2>7, <3>1, <3>3 DEF Picks
    <3> QED BY <2>3, <3>2, <3>3
  <2>8. ASSUME NEW i \in 1 .. n + 1, sends[i].to = c PROVE \E k \in 1 .. l + 1 : g[k] = i
    <3>1. CASE i = n + 1
      BY <2>5, <3>1
    <3>2. CASE i \in 1 .. n
      <4>1. PICK k \in 1 .. l : h[k] = i
        BY <2>8, <3>2 DEF Picks
      <4> QED BY <2>5, <4>1
    <3> QED BY <3>1, <3>2
  <2>9. Picks(g, u, sends, c, n + 1)
    BY <2>1, <2>4, <2>6, <2>7, <2>8 DEF Picks
  <2> QED BY <2>1, <2>9 DEF u
<1> QED BY <1>2, <1>3

\* What arrives at c: its packets, in the order they are sent.
LEMMA ArrivesIs ==
  ASSUME NEW S, NEW sends \in Seq(S), NEW c
  PROVE  /\ Arrives(sends, c) \in Seq(S)
         /\ \E h : Picks(h, Arrives(sends, c), sends, c, SentCount(sends))
<1> DEFINE n == SentCount(sends)
           qs == [k \in 1 .. n |-> IF sends[k].to = c THEN <<sends[k]>> ELSE <<>>]
<1>1. n \in Nat /\ n <= Len(sends) /\ Len(sends) \in Nat
  <2>1. Len(sends) \in Nat
    OBVIOUS
  <2>2. n \in 0 .. Len(sends)
    BY <2>1, SentCountIs
  <2> QED BY <2>1, <2>2
<1> HIDE DEF n
<1>2. Arrives(sends, c) = FlattenSeq(qs) /\ Len(qs) = n /\ DOMAIN qs = 1 .. n
  BY <1>1 DEF Arrives, n
<1>3. \A h : (DOMAIN h = {} /\ n = 0) => Picks(h, <<>>, sends, c, n)
  BY DEF Picks
<1>4. CASE n = 0
  <2>1. FlattenSeq(qs) = qs /\ qs = <<>>
    BY <1>2, <1>4 DEF FlattenSeq
  <2>2. DOMAIN qs = {}
    BY <1>2, <1>4
  <2>3. Picks(qs, <<>>, sends, c, n) /\ <<>> \in Seq(S)
    BY <1>4, <2>1, <2>2 DEF Picks
  <2> HIDE DEF qs
  <2>4. Arrives(sends, c) = <<>>
    BY <1>2, <2>1
  <2> QED BY <2>3, <2>4 DEF n
<1>5. CASE n # 0
  <2>1. PICK f : /\ f = [i \in 1 .. n |-> IF i = 1 THEN qs[i] ELSE f[i - 1] \o qs[i]]
                 /\ FlattenSeq(qs) = f[n]
    <3>1. Len(qs) \in Nat \ {0}
      BY <1>1, <1>2, <1>5
    <3> HIDE DEF qs
    <3> QED BY <1>2, <3>1, FlattenFunction
  <2>2. f[1] = qs[1] /\ \A i \in 1 .. n : i # 1 => f[i] = f[i - 1] \o qs[i]
    <3> HIDE DEF qs
    <3>1. 1 \in 1 .. n
      BY <1>1, <1>5
    <3> QED BY <2>1, <3>1
  <2>3. \A i \in 1 .. n : qs[i] = IF sends[i].to = c THEN <<sends[i]>> ELSE <<>>
    OBVIOUS
  <2> HIDE DEF qs
  <2> DEFINE Good == {i \in Nat : i \in 1 .. n =>
                        f[i] \in Seq(S) /\ \E h : Picks(h, f[i], sends, c, i)}
  <2>4. 0 \in Good
    OBVIOUS
  <2>5. ASSUME NEW i \in Nat, i \in Good PROVE i + 1 \in Good
    <3> SUFFICES ASSUME i + 1 \in 1 .. n
                 PROVE  f[i + 1] \in Seq(S) /\ \E h : Picks(h, f[i + 1], sends, c, i + 1)
      OBVIOUS
    <3>1. i + 1 <= Len(sends)
      BY <1>1
    <3>2. qs[i + 1] = IF sends[i + 1].to = c THEN <<sends[i + 1]>> ELSE <<>>
      BY <2>3
    <3>3. CASE i = 0
      <4>1. <<>> \in Seq(S) /\ Picks(<<>>, <<>>, sends, c, i)
        BY <3>3 DEF Picks
      <4>2. <<>> \o qs[i + 1] \in Seq(S) /\ \E h : Picks(h, <<>> \o qs[i + 1], sends, c, i + 1)
        <5> DEFINE q == qs[i + 1]
        <5>1. q = IF sends[i + 1].to = c THEN <<sends[i + 1]>> ELSE <<>>
          BY <3>2
        <5> HIDE DEF q
        <5>2. <<>> \o q \in Seq(S) /\ \E h : Picks(h, <<>> \o q, sends, c, i + 1)
          BY <3>1, <4>1, <5>1, PicksNext
        <5> QED BY <5>2 DEF q
      <4>3. <<>> \o qs[i + 1] = f[i + 1]
        <5>1. qs[i + 1] \in Seq(S)
          BY <3>1, <3>2
        <5>2. f[i + 1] = qs[i + 1]
          BY <2>2, <3>3
        <5> QED BY <5>1, <5>2
      <4> QED BY <4>2, <4>3
    <3>4. CASE i # 0
      <4>1. i \in 1 .. n /\ i + 1 - 1 = i /\ i + 1 # 1
        BY <1>1, <3>4
      <4>2. f[i + 1] = f[i] \o qs[i + 1]
        <5>1. i + 1 \in 1 .. n
          OBVIOUS
        <5>2. f[i + 1] = f[(i + 1) - 1] \o qs[i + 1]
          BY <2>2, <4>1, <5>1
        <5>3. (i + 1) - 1 = i
          OBVIOUS
        <5> QED BY <5>2, <5>3
      <4>3. f[i] \in Seq(S)
        BY <2>5, <4>1
      <4>4. PICK h : Picks(h, f[i], sends, c, i)
        BY <2>5, <4>1
      <4> DEFINE q == qs[i + 1]
                 r == f[i]
      <4>5. r \in Seq(S) /\ Picks(h, r, sends, c, i)
        BY <4>3, <4>4
      <4>6. q = IF sends[i + 1].to = c THEN <<sends[i + 1]>> ELSE <<>>
        BY <3>2
      <4> HIDE DEF q, r
      <4>7. r \o q \in Seq(S) /\ \E g : Picks(g, r \o q, sends, c, i + 1)
        BY <3>1, <4>5, <4>6, PicksNext
      <4> QED BY <4>2, <4>7 DEF q, r
    <3> QED BY <3>3, <3>4
  <2>6. \A i \in Nat : i \in Good
    <3> HIDE DEF Good
    <3> QED BY <2>4, <2>5, Induct
  <2>7. n \in 1 .. n
    BY <1>1, <1>5
  <2> QED BY <1>1, <1>2, <2>1, <2>6, <2>7 DEF n
<1> QED BY <1>4, <1>5

-----------------------------------------------------------------------------
(* Packets *)

LEMMA PublisherPacket ==
  ASSUME NEW I, NEW m \in PublisherPackets(I)
  PROVE  /\ m.to \in Publishers
         /\ \/ /\ m.type = "count" /\ m.count \in 0 .. SlotCount /\ m.count \in Nat
               /\ \A key : Says(m, key) = Silent
            \/ /\ m.type = "SubscriberEventFdAndSlot" /\ m.slot \in Slot /\ m.id \in I
               /\ \A key : Says(m, key) = IF m.slot = key THEN m.id ELSE Silent
            \/ /\ m.type = "SubscriberDisconnected" /\ m.slot \in Slot
               /\ \A key : Says(m, key) = IF m.slot = key THEN NoId ELSE Silent
<1>1. CASE m \in [to : Publishers, type : {"count"}, count : 0 .. SlotCount]
  <2>1. m.to \in Publishers /\ m.type = "count" /\ m.count \in 0 .. SlotCount /\ m.count \in Nat
    BY <1>1, Given
  <2> QED BY <2>1 DEF Says
<1>2. CASE m \in [to : Publishers, type : {"SubscriberEventFdAndSlot"}, slot : Slot, id : I]
  <2>1. /\ m.to \in Publishers /\ m.type = "SubscriberEventFdAndSlot"
        /\ m.slot \in Slot /\ m.id \in I
    BY <1>2
  <2> QED BY <2>1 DEF Says
<1>3. CASE m \in [to : Publishers, type : {"SubscriberDisconnected"}, slot : Slot]
  <2>1. m.to \in Publishers /\ m.type = "SubscriberDisconnected" /\ m.slot \in Slot
    BY <1>3
  <2> QED BY <2>1 DEF Says
<1> QED BY <1>1, <1>2, <1>3 DEF PublisherPackets

LEMMA SubscriberPacket ==
  ASSUME NEW I, NEW m \in SubscriberPackets(I)
  PROVE  /\ m.to \in Subscribers
         /\ \/ /\ m.type = "SubscriberAttachmentBatch" /\ m.ids \in Seq(I)
               /\ \A key : Says(m, key) = IF key \in Range(m.ids) THEN key ELSE Silent
            \/ /\ m.type = "PublisherDisconnected" /\ m.id \in I
               /\ \A key : Says(m, key) = IF m.id = key THEN NoId ELSE Silent
<1>1. CASE m \in [to : Subscribers, type : {"SubscriberAttachmentBatch"}, ids : Batches(I)]
  <2>1. m.to \in Subscribers /\ m.type = "SubscriberAttachmentBatch" /\ m.ids \in Seq(I)
    BY <1>1 DEF Batches
  <2> QED BY <2>1 DEF Says
<1>2. CASE m \in [to : Subscribers, type : {"PublisherDisconnected"}, id : I]
  <2>1. m.to \in Subscribers /\ m.type = "PublisherDisconnected" /\ m.id \in I
    BY <1>2
  <2> QED BY <2>1 DEF Says
<1> QED BY <1>1, <1>2 DEF SubscriberPackets

\* Every packet is for an endpoint, and stays what it is as more ids are given out.
LEMMA PacketsGrow ==
  ASSUME NEW I, NEW J, I \subseteq J
  PROVE  /\ PublisherPackets(I) \subseteq PublisherPackets(J)
         /\ SubscriberPackets(I) \subseteq SubscriberPackets(J)
<1>1. Batches(I) \subseteq Batches(J)
  <2>1. Seq(I) \subseteq Seq(J)
    OBVIOUS
  <2> QED BY <2>1 DEF Batches
<1>2. SubscriberPackets(I) \subseteq SubscriberPackets(J)
  <2>1. [to : Subscribers, type : {"SubscriberAttachmentBatch"}, ids : Batches(I)]
          \subseteq [to : Subscribers, type : {"SubscriberAttachmentBatch"}, ids : Batches(J)]
    BY <1>1
  <2>2. [to : Subscribers, type : {"PublisherDisconnected"}, id : I]
          \subseteq [to : Subscribers, type : {"PublisherDisconnected"}, id : J]
    OBVIOUS
  <2> QED BY <2>1, <2>2 DEF SubscriberPackets
<1>3. PublisherPackets(I) \subseteq PublisherPackets(J)
  <2>1. [to : Publishers, type : {"SubscriberEventFdAndSlot"}, slot : Slot, id : I]
          \subseteq [to : Publishers, type : {"SubscriberEventFdAndSlot"}, slot : Slot, id : J]
    OBVIOUS
  <2> QED BY <2>1 DEF PublisherPackets
<1> QED BY <1>2, <1>3

\* What a list of packets says, packet by packet.
LEMMA SayingIs ==
  ASSUME NEW q, NEW key, Len(q) \in Nat
  PROVE  /\ DOMAIN Saying(q, key) = 1 .. Len(q)
         /\ \A k \in 1 .. Len(q) : Saying(q, key)[k] = Says(q[k], key)
BY DEF Saying

\* v is the queue of c when these packets have been sent, of which end was told of the key before.
Extends(sends, c, key, start, end, v) ==
  /\ Len(inbox[c]) <= Len(v)
  /\ Orderly(Saying(v, key), start)
  /\ \A k \in 1 .. Len(inbox[c]) :
       v[k] = inbox[c][k] /\ Told(Saying(v, key), start, k) = Told(Saying(inbox[c], key), start, k)
  /\ \A k \in Len(inbox[c]) + 1 .. Len(v) :
       /\ Open(c) /\ \E i \in DOMAIN sends : v[k] = sends[i] /\ sends[i].to = c
       /\ Says(v[k], key) # Silent => Told(Saying(v, key), start, k) = end
  /\ Open(c) /\ AllSent(sends) =>
       /\ \A i \in DOMAIN sends : sends[i].to = c /\ Says(sends[i], key) # Silent =>
            Told(Saying(v, key), start, Len(v) + 1) = Says(sends[i], key)
       /\ (\A i \in DOMAIN sends : sends[i].to = c => Says(sends[i], key) = Silent) =>
            Told(Saying(v, key), start, Len(v) + 1) = end
  /\ ~Open(c) => v = inbox[c]

(***************************************************************************)
(* A handler posts at most one packet about a key, of a new lease if there *)
(* is none and of an end if there is one: the queue stays orderly.         *)
(***************************************************************************)
LEMMA Posted ==
  ASSUME NEW S, NEW sends \in Seq(S), NEW c, NEW key, NEW start, NEW end,
         inbox[c] \in Seq(S),
         Orderly(Saying(inbox[c], key), start),
         Open(c) => end = Told(Saying(inbox[c], key), start, Len(inbox[c]) + 1),
         Open(c) => \A i, j \in DOMAIN sends : /\ sends[i].to = c /\ Says(sends[i], key) # Silent
                                               /\ sends[j].to = c /\ Says(sends[j], key) # Silent
                                               => i = j,
         Open(c) => \A i \in DOMAIN sends : sends[i].to = c /\ Says(sends[i], key) # Silent =>
                                              (Says(sends[i], key) = NoId <=> end # NoId),
         NEW v, v = inbox[c] \o Arrives(sends, c)
  PROVE  v \in Seq(S) /\ Extends(sends, c, key, start, end, v)
<1> DEFINE q == inbox[c]
           r == Arrives(sends, c)
           n == Len(q)
           m == Len(r)
           V == Saying(q, key)
           U == Saying(v, key)
           t == SentCount(sends)
<1>1. r \in Seq(S) /\ m \in Nat /\ q \in Seq(S) /\ n \in Nat
  BY ArrivesIs
<1>2. PICK h : Picks(h, r, sends, c, t)
  BY ArrivesIs
<1>3. t \in 0 .. Len(sends) /\ DOMAIN sends = 1 .. Len(sends) /\ Len(sends) \in Nat
      /\ \A i \in 1 .. t : Reaches(sends, i) /\ i \in DOMAIN sends
  <2>1. Len(sends) \in Nat /\ DOMAIN sends = 1 .. Len(sends)
    OBVIOUS
  <2>2. t \in 0 .. Len(sends) /\ \A i \in 1 .. t : Reaches(sends, i)
    BY <2>1, SentCountIs
  <2> QED BY <2>1, <2>2
<1>4. /\ v \in Seq(S) /\ Len(v) = n + m
      /\ \A k \in 1 .. n : v[k] = q[k]
      /\ \A k \in n + 1 .. n + m : k - n \in 1 .. m /\ v[k] = r[k - n]
  <2> HIDE DEF r, q
  <2> DEFINE w == q \o r
  <2>1. /\ w \in Seq(S) /\ Len(w) = n + m
        /\ \A k \in 1 .. n + m : w[k] = IF k <= n THEN q[k] ELSE r[k - n]
    BY <1>1, ConcatProperties
  <2>2. v = w
    BY DEF q, r
  <2> HIDE DEF w
  <2> QED BY <1>1, <2>1, <2>2
<1> HIDE DEF r, t
<1>5. ASSUME NEW k \in 1 .. m
      PROVE  /\ h[k] \in 1 .. t /\ h[k] \in DOMAIN sends /\ r[k] = sends[h[k]] /\ sends[h[k]].to = c
             /\ Open(c)
  <2>1. h[k] \in 1 .. t /\ r[k] = sends[h[k]] /\ sends[h[k]].to = c
    BY <1>2 DEF Picks
  <2>2. Reaches(sends, h[k])
    BY <1>3, <2>1
  <2> QED BY <1>3, <2>1, <2>2 DEF Reaches
<1>6. ~Open(c) => m = 0
  <2>1. ASSUME m # 0 PROVE Open(c)
    <3>1. 1 \in 1 .. m
      BY <1>1, <2>1
    <3> QED BY <1>5, <3>1
  <2> QED BY <2>1
<1>7. ASSUME m = 0 PROVE v = q
  <2>1. r = <<>>
    BY <1>1, <1>7
  <2> QED BY <1>1, <2>1 DEF r
<1>8. /\ DOMAIN V = 1 .. n /\ \A k \in 1 .. n : V[k] = Says(q[k], key)
      /\ DOMAIN U = 1 .. n + m /\ \A k \in 1 .. n + m : U[k] = Says(v[k], key)
  <2>1. Len(q) \in Nat /\ Len(v) \in Nat /\ Len(v) = n + m /\ Len(q) = n
    BY <1>1, <1>4
  <2>2. DOMAIN V = 1 .. Len(q) /\ \A k \in 1 .. Len(q) : V[k] = Says(q[k], key)
    BY <2>1, SayingIs
  <2>3. DOMAIN U = 1 .. Len(v) /\ \A k \in 1 .. Len(v) : U[k] = Says(v[k], key)
    BY <2>1, SayingIs
  <2> HIDE DEF n, m, U, V, q
  <2> QED BY <2>1, <2>2, <2>3
<1> HIDE DEF n, m, U, V
<1>9. \A k \in 1 .. n : U[k] = V[k] /\ k \in 1 .. n + m
  <2>1. \A k \in 1 .. n : k \in 1 .. n + m
    BY <1>1
  <2> QED BY <1>4, <1>8, <2>1
<1>10. ASSUME NEW k \in n + 1 .. n + m
       PROVE  /\ k - n \in 1 .. m /\ U[k] = Says(sends[h[k - n]], key) /\ v[k] = sends[h[k - n]]
              /\ h[k - n] \in DOMAIN sends /\ sends[h[k - n]].to = c /\ Open(c)
              /\ k \in 1 .. n + m
  <2>1. k - n \in 1 .. m /\ v[k] = r[k - n] /\ k \in 1 .. n + m
    BY <1>1, <1>4, SMTT(30)
  <2> QED BY <1>5, <1>8, <2>1
<1>11. ASSUME NEW i \in n + 1 .. n + m, NEW j \in n + 1 .. n + m, U[i] # Silent, U[j] # Silent
       PROVE  i = j
  <2>1. h[i - n] = h[j - n] /\ i - n \in 1 .. m /\ j - n \in 1 .. m
    BY <1>10, <1>11
  <2>2. i - n = j - n
    <3>1. \A a, b \in 1 .. m : a < b => h[a] < h[b]
      BY <1>2 DEF Picks, m
    <3>2. h[i - n] \in Int
      BY <1>5, <2>1
    <3> HIDE DEF Silent
    <3> QED BY <1>1, <2>1, <3>1, <3>2, SMTT(30)
  <2> QED BY <1>1, <2>2
<1>12. LET last == Told(V, start, n + 1) IN
       /\ \A k \in 1 .. n + 1 : Told(U, start, k) = Told(V, start, k)
       /\ \A i \in n + 1 .. n + m : U[i] # Silent =>
            Told(U, start, i) = last /\ Told(U, start, n + m + 1) = U[i]
       /\ (\A i \in n + 1 .. n + m : U[i] = Silent) => Told(U, start, n + m + 1) = last
       /\ Orderly(V, start)
            /\ (\A i \in n + 1 .. n + m : U[i] # Silent => (U[i] = NoId <=> last # NoId))
          => Orderly(U, start)
  <2>1. n \in Nat /\ m \in Nat /\ DOMAIN U = 1 .. n + m /\ DOMAIN V = 1 .. n
    BY <1>1, <1>8 DEF n, m
  <2>2. \A k \in 1 .. n : U[k] = V[k]
    BY <1>9
  <2>3. \A i, j \in n + 1 .. n + m : U[i] # Silent /\ U[j] # Silent => i = j
    BY <1>11
  <2> QED BY <2>1, <2>2, <2>3, Writing, ZenonT(40)
<1> DEFINE last == Told(V, start, n + 1)
<1> HIDE DEF last
<1>13. Open(c) => last = end
  BY DEF last, V, n
<1>14. ASSUME NEW i \in n + 1 .. n + m, U[i] # Silent PROVE U[i] = NoId <=> last # NoId
  <2>1. /\ h[i - n] \in DOMAIN sends /\ sends[h[i - n]].to = c /\ U[i] = Says(sends[h[i - n]], key)
        /\ Open(c)
    BY <1>10
  <2> QED BY <1>13, <1>14, <2>1
<1>15. Orderly(U, start)
  BY <1>12, <1>14 DEF last, V
<1>16. ASSUME NEW k \in n + 1 .. n + m
       PROVE  /\ Open(c) /\ \E i \in DOMAIN sends : v[k] = sends[i] /\ sends[i].to = c
              /\ Says(v[k], key) # Silent => Told(U, start, k) = end
  <2>1. U[k] = Says(v[k], key)
    BY <1>8, <1>10
  <2> QED BY <1>10, <1>12, <1>13, <2>1 DEF last
<1>17. ASSUME Open(c), AllSent(sends)
       PROVE  /\ \A i \in DOMAIN sends : sends[i].to = c /\ Says(sends[i], key) # Silent =>
                   Told(U, start, n + m + 1) = Says(sends[i], key)
              /\ (\A i \in DOMAIN sends : sends[i].to = c => Says(sends[i], key) = Silent) =>
                   Told(U, start, n + m + 1) = end
  <2>1. ASSUME NEW i \in DOMAIN sends, sends[i].to = c, Says(sends[i], key) # Silent
        PROVE  Told(U, start, n + m + 1) = Says(sends[i], key)
    <3>1. i \in 1 .. t
      BY <1>3, <1>17 DEF AllSent, t
    <3>2. PICK k \in 1 .. m : h[k] = i
      BY <1>2, <2>1, <3>1 DEF Picks, m
    <3>3. n + k \in n + 1 .. n + m /\ (n + k) - n = k
      BY <1>1
    <3>4. U[n + k] = Says(sends[i], key)
      BY <1>10, <3>2, <3>3
    <3> QED BY <1>12, <2>1, <3>3, <3>4
  <2>2. ASSUME \A i \in DOMAIN sends : sends[i].to = c => Says(sends[i], key) = Silent
        PROVE  Told(U, start, n + m + 1) = end
    <3>1. \A k \in n + 1 .. n + m : U[k] = Silent
      BY <1>10, <2>2
    <3> QED BY <1>12, <1>13, <1>17, <3>1 DEF last
  <2> QED BY <2>1, <2>2
<1>18. \A k \in 1 .. n : v[k] = q[k] /\ Told(U, start, k) = Told(V, start, k)
  <2>1. \A k \in 1 .. n : k \in 1 .. n + 1
    BY <1>1
  <2> QED BY <1>4, <1>12, <2>1
<1>19. Len(v) = n + m /\ n <= n + m
  BY <1>1, <1>4
<1> QED BY <1>4, <1>6, <1>7, <1>15, <1>16, <1>17, <1>18, <1>19 DEF Extends, U, V, n, m

-----------------------------------------------------------------------------
(* The broker's handlers *)

\* What a handler sends c about a key is what it does to the lease.
Turns(sends, c, key) ==
  LET about == {i \in DOMAIN sends : sends[i].to = c /\ Says(sends[i], key) # Silent} IN
  /\ \A i, j \in about : i = j
  /\ \A i \in about : /\ Says(sends[i], key) = NoId <=> Leases(c, key) # NoId
                      /\ broker' = "up" => Leases(c, key)' = Says(sends[i], key)
  /\ broker' = "up" /\ about = {} => Leases(c, key)' = Leases(c, key)

\* What it tells a publisher of a tenant is so.
True(m) ==
  /\ m.type = "SubscriberEventFdAndSlot" =>
       \A id \in Ids' : /\ granted'[id].pub = m.to /\ granted'[id].slot = m.slot /\ id < m.id
                        => proc[granted'[id].sub] = "dead"
  /\ m.type = "SubscriberDisconnected" =>
       Leases(m.to, m.slot) \in Ids /\ proc[granted[Leases(m.to, m.slot)].sub] = "dead"

Packets(ids) == PublisherPackets(ids) \cup SubscriberPackets(ids)

\* A handler that grants ids and sends packets.
Sends(sends) ==
  /\ broker = "up" /\ UNCHANGED clients
  /\ BrokerTypeOK' /\ Ids \subseteq Ids' /\ \A id \in Ids : granted'[id] = granted[id]
  /\ sends \in Seq(Packets(Ids')) /\ Post(sends)
  /\ broker' = "up" => AllSent(sends)
  /\ \A i \in DOMAIN sends : /\ role'[sends[i].to] # "none" /\ proc[sends[i].to] # "off"
                             /\ Open(sends[i].to) => True(sends[i])
  /\ \A c \in Endpoints : proc[c] # "dead" => \A key \in Keys(c) : Turns(sends, c, key)

\* The queues after a handler has run.
LEMMA Queues ==
  ASSUME IInv, SocketInv, NEW sends, Sends(sends)
  PROVE  /\ PacketTypeOK' /\ LedgerInv' /\ AgreeInv'
         /\ \A c \in Endpoints :
              /\ Len(inbox[c]) \in Nat /\ Len(inbox'[c]) \in Nat /\ Len(inbox[c]) <= Len(inbox'[c])
              /\ \A k \in 1 .. Len(inbox[c]) :
                   /\ inbox'[c][k] = inbox[c][k]
                   /\ \A key \in Keys(c) : ToldIn(c, key, k)' = ToldIn(c, key, k)
              /\ \A k \in Len(inbox[c]) + 1 .. Len(inbox'[c]) :
                   /\ Open(c) /\ \E i \in DOMAIN sends : inbox'[c][k] = sends[i] /\ sends[i].to = c
                   /\ \A key \in Keys(c) : Says(inbox'[c][k], key) # Silent =>
                        ToldIn(c, key, k)' = Leases(c, key)
              /\ ~Open(c) => inbox'[c] = inbox[c]
<1> DEFINE S == Packets(Ids')
<1>1. /\ broker = "up" /\ proc' = proc /\ tracked' = tracked /\ installed' = installed
      /\ Ids \subseteq Ids' /\ sends \in Seq(S) /\ Post(sends)
      /\ broker' = "up" => AllSent(sends)
      /\ \A i \in DOMAIN sends : sends[i] \in S /\ proc[sends[i].to] # "off"
      /\ \A c \in Endpoints : proc[c] # "dead" => \A key \in Keys(c) : Turns(sends, c, key)
  <2>1. sends \in Seq(S) /\ UNCHANGED clients
    BY DEF Sends
  <2>2. \A i \in DOMAIN sends : sends[i] \in S
    BY <2>1, ElementOfSeq
  <2> QED BY <2>1, <2>2 DEF Sends, clients
<1>2. /\ PacketTypeOK /\ LedgerInv /\ AgreeInv /\ ConnectionInv /\ ClientTypeOK
  BY DEF SocketInv
<1>3. /\ DOMAIN inbox' = Clients
      /\ \A c \in Clients : inbox'[c] = inbox[c] \o Arrives(sends, c)
  BY <1>1 DEF Post
<1>4. /\ \A p \in Publishers : inbox[p] \in Seq(PublisherPackets(Ids')) /\ inbox[p] \in Seq(S)
      /\ \A s \in Subscribers : inbox[s] \in Seq(SubscriberPackets(Ids')) /\ inbox[s] \in Seq(S)
      /\ \A o \in Observers : inbox[o] = <<>>
  <2>1. /\ PublisherPackets(Ids) \subseteq PublisherPackets(Ids')
        /\ SubscriberPackets(Ids) \subseteq SubscriberPackets(Ids')
    BY <1>1, PacketsGrow
  <2>2. /\ Seq(PublisherPackets(Ids)) \subseteq Seq(PublisherPackets(Ids'))
        /\ Seq(SubscriberPackets(Ids)) \subseteq Seq(SubscriberPackets(Ids'))
        /\ Seq(PublisherPackets(Ids')) \subseteq Seq(S) /\ Seq(SubscriberPackets(Ids')) \subseteq Seq(S)
    BY <2>1 DEF Packets
  <2> QED BY <1>2, <2>2 DEF PacketTypeOK
<1>5. \A i \in DOMAIN sends :
        /\ sends[i] \in PublisherPackets(Ids') \/ sends[i] \in SubscriberPackets(Ids')
        /\ sends[i].to \in Publishers => sends[i] \in PublisherPackets(Ids')
        /\ sends[i].to \in Subscribers => sends[i] \in SubscriberPackets(Ids')
        /\ sends[i].to \in Publishers \cup Subscribers
  <2>1. \A m \in PublisherPackets(Ids') : m.to \in Publishers
    BY PublisherPacket
  <2>2. \A m \in SubscriberPackets(Ids') : m.to \in Subscribers
    BY SubscriberPacket
  <2> QED BY <1>1, <2>1, <2>2, Given DEF Packets
<1>6. \A c \in Endpoints : \A key : Holds(c, key)' = Holds(c, key)
  BY <1>1 DEF Holds
<1>7. \A c \in Endpoints : c \in Clients /\ inbox[c] \in Seq(S)
  BY <1>4, Given DEF Endpoints
<1>8. ASSUME NEW c \in Endpoints, NEW key \in Keys(c)
      PROVE  /\ Len(inbox[c]) \in Nat /\ Len(inbox'[c]) \in Nat /\ Len(inbox[c]) <= Len(inbox'[c])
             /\ inbox'[c] \in Seq(S)
             /\ Orderly(Saying(inbox'[c], key), Holds(c, key)')
             /\ \A k \in 1 .. Len(inbox[c]) :
                  inbox'[c][k] = inbox[c][k] /\ ToldIn(c, key, k)' = ToldIn(c, key, k)
             /\ \A k \in Len(inbox[c]) + 1 .. Len(inbox'[c]) :
                  /\ Open(c) /\ \E i \in DOMAIN sends : inbox'[c][k] = sends[i] /\ sends[i].to = c
                  /\ Says(inbox'[c][k], key) # Silent => ToldIn(c, key, k)' = Leases(c, key)
             /\ ~Open(c) => inbox'[c] = inbox[c]
             /\ broker' = "up" /\ proc'[c] # "dead" =>
                  ToldIn(c, key, Len(inbox[c]) + 1)' = Leases(c, key)'
  <2> DEFINE q == inbox[c]
             v == inbox'[c]
             start == Holds(c, key)
             end == Leases(c, key)
             about == {i \in DOMAIN sends : sends[i].to = c /\ Says(sends[i], key) # Silent}
  <2>1. q \in Seq(S) /\ v = q \o Arrives(sends, c) /\ Orderly(Saying(q, key), start)
    BY <1>2, <1>3, <1>7 DEF LedgerInv
  <2>2. proc[c] # "dead" => end = Told(Saying(q, key), start, Len(q) + 1)
    BY <1>1, <1>2 DEF AgreeInv, ToldIn
  <2>3. proc[c] # "dead" =>
          /\ \A i, j \in about : i = j
          /\ \A i \in about : /\ Says(sends[i], key) = NoId <=> end # NoId
                              /\ broker' = "up" => Leases(c, key)' = Says(sends[i], key)
          /\ broker' = "up" /\ about = {} => Leases(c, key)' = end
    BY <1>1 DEF Turns
  <2>4. Open(c) => proc[c] # "dead"
    BY DEF Open
  <2>5. \A k : /\ ToldIn(c, key, k) = Told(Saying(q, key), start, k)
               /\ ToldIn(c, key, k)' = Told(Saying(v, key), start, k)
    BY <1>6 DEF ToldIn
  <2>6. Holds(c, key)' = start
    BY <1>6
  <2>50. Leases(c, key)' = Leases(c, key)'
    OBVIOUS
  <2> DEFINE leased == Leases(c, key)'
  <2>51. proc[c] # "dead" =>
          /\ \A i, j \in about : i = j
          /\ \A i \in about : /\ Says(sends[i], key) = NoId <=> end # NoId
                              /\ broker' = "up" => leased = Says(sends[i], key)
          /\ broker' = "up" /\ about = {} => leased = end
    BY <2>3
  <2> HIDE DEF start, end, leased
  <2>7. Open(c) => /\ end = Told(Saying(q, key), start, Len(q) + 1)
                   /\ \A i, j \in DOMAIN sends : /\ sends[i].to = c /\ Says(sends[i], key) # Silent
                                                 /\ sends[j].to = c /\ Says(sends[j], key) # Silent
                                                 => i = j
                   /\ \A i \in DOMAIN sends : sends[i].to = c /\ Says(sends[i], key) # Silent =>
                                                (Says(sends[i], key) = NoId <=> end # NoId)
    BY <2>2, <2>4, <2>51
  <2>8. /\ v \in Seq(S) /\ Len(inbox[c]) <= Len(v)
        /\ Orderly(Saying(v, key), start)
        /\ \A k \in 1 .. Len(inbox[c]) :
             v[k] = inbox[c][k] /\ Told(Saying(v, key), start, k) = Told(Saying(inbox[c], key), start, k)
        /\ \A k \in Len(inbox[c]) + 1 .. Len(v) :
             /\ Open(c) /\ \E i \in DOMAIN sends : v[k] = sends[i] /\ sends[i].to = c
             /\ Says(v[k], key) # Silent => Told(Saying(v, key), start, k) = end
        /\ Open(c) /\ AllSent(sends) =>
             /\ \A i \in DOMAIN sends : sends[i].to = c /\ Says(sends[i], key) # Silent =>
                  Told(Saying(v, key), start, Len(v) + 1) = Says(sends[i], key)
             /\ (\A i \in DOMAIN sends : sends[i].to = c => Says(sends[i], key) = Silent) =>
                  Told(Saying(v, key), start, Len(v) + 1) = end
        /\ ~Open(c) => v = inbox[c]
    <3> HIDE DEF v, S
    <3>1. sends \in Seq(S) /\ inbox[c] \in Seq(S) /\ v = inbox[c] \o Arrives(sends, c)
      BY <1>1, <2>1 DEF S
    <3>2. Orderly(Saying(inbox[c], key), start)
      BY <2>1
    <3>3. v \in Seq(S) /\ Extends(sends, c, key, start, end, v)
      BY <2>7, <3>1, <3>2, Posted
    <3> QED BY <3>3 DEF Extends, S
  <2>9. ASSUME broker' = "up", proc[c] # "dead"
        PROVE  Told(Saying(v, key), start, Len(v) + 1) = leased
    <3>1. CASE Open(c)
      <4>1. AllSent(sends)
        BY <1>1, <2>9
      <4>2. CASE about = {}
        BY <2>8, <2>9, <2>51, <3>1, <4>1, <4>2
      <4>3. ASSUME NEW i \in about PROVE Told(Saying(v, key), start, Len(v) + 1) = leased
        BY <2>8, <2>9, <2>51, <3>1, <4>1, <4>3
      <4> QED BY <4>2, <4>3
    <3>2. CASE ~Open(c)
      <4>1. proc[c] = "off" /\ about = {}
        BY <1>1, <2>9, <3>2 DEF Open
      <4>2. v = q /\ leased = end
        BY <2>8, <2>9, <2>51, <3>2, <4>1
      <4> QED BY <2>2, <2>9, <4>2
    <3> QED BY <3>1, <3>2
  <2>10. Len(q) \in Nat /\ Len(v) \in Nat
    BY <2>1, <2>8
  <2>11. broker' = "up" /\ proc'[c] # "dead" => ToldIn(c, key, Len(inbox[c]) + 1)' = Leases(c, key)'
    BY <1>1, <2>5, <2>9 DEF leased
  <2> QED BY <2>5, <2>6, <2>8, <2>10, <2>11 DEF end
<1>9. \A c \in Endpoints : \E key : key \in Keys(c)
  <2>1. 0 \in Slot /\ 1 \in Nat \ {0}
    BY Given DEF Slot
  <2> QED BY <2>1 DEF Keys
<1>10. ASSUME NEW c \in Endpoints
       PROVE  /\ Len(inbox[c]) \in Nat /\ Len(inbox'[c]) \in Nat /\ Len(inbox[c]) <= Len(inbox'[c])
              /\ inbox'[c] \in Seq(S)
              /\ \A k \in 1 .. Len(inbox[c]) : inbox'[c][k] = inbox[c][k]
              /\ \A k \in Len(inbox[c]) + 1 .. Len(inbox'[c]) :
                   Open(c) /\ \E i \in DOMAIN sends : inbox'[c][k] = sends[i] /\ sends[i].to = c
              /\ ~Open(c) => inbox'[c] = inbox[c]
  BY <1>8, <1>9
<1>11. ASSUME NEW c \in Endpoints, NEW k \in 1 .. Len(inbox'[c])
       PROVE  /\ c \in Publishers => inbox'[c][k] \in PublisherPackets(Ids')
              /\ c \in Subscribers => inbox'[c][k] \in SubscriberPackets(Ids')
  <2>1. k \in 1 .. Len(inbox[c]) \/ k \in Len(inbox[c]) + 1 .. Len(inbox'[c])
    BY <1>10
  <2>2. CASE k \in 1 .. Len(inbox[c])
    <3>1. inbox'[c][k] = inbox[c][k]
      BY <1>10, <2>2
    <3> QED BY <1>4, <2>2, <3>1, ElementOfSeq
  <2>3. CASE k \in Len(inbox[c]) + 1 .. Len(inbox'[c])
    <3>1. PICK i \in DOMAIN sends : inbox'[c][k] = sends[i] /\ sends[i].to = c
      BY <1>10, <2>3
    <3> QED BY <1>5, <3>1
  <2> QED BY <2>1, <2>2, <2>3
<1>12. PacketTypeOK'
  <2>1. ASSUME NEW c \in Endpoints, NEW T, \A k \in 1 .. Len(inbox'[c]) : inbox'[c][k] \in T
        PROVE  inbox'[c] \in Seq(T)
    BY <1>10, <2>1
  <2>2. ASSUME NEW o \in Observers PROVE inbox'[o] = <<>>
    <3>1. o \in Clients /\ inbox[o] = <<>> /\ o \notin Publishers \cup Subscribers
      BY <1>4, Given
    <3>2. Arrives(sends, o) \in Seq(S)
      BY <1>1, ArrivesIs
    <3>3. PICK h : Picks(h, Arrives(sends, o), sends, o, SentCount(sends))
      BY <1>1, ArrivesIs
    <3>4. SentCount(sends) \in 0 .. Len(sends) /\ DOMAIN sends = 1 .. Len(sends)
      BY <1>1, SentCountIs
    <3>5. ASSUME Len(Arrives(sends, o)) # 0 PROVE FALSE
      <4>1. 1 \in 1 .. Len(Arrives(sends, o))
        BY <3>2, <3>5
      <4>2. h[1] \in 1 .. SentCount(sends) /\ sends[h[1]].to = o
        BY <3>3, <4>1 DEF Picks
      <4>3. h[1] \in DOMAIN sends
        BY <3>4, <4>2
      <4> QED BY <1>5, <3>1, <4>2, <4>3
    <3>6. Arrives(sends, o) = <<>>
      BY <3>2, <3>5
    <3> QED BY <1>3, <3>1, <3>6
  <2>3. \A p \in Publishers : inbox'[p] \in Seq(PublisherPackets(Ids'))
    BY <1>11, <2>1 DEF Endpoints
  <2>4. \A s \in Subscribers : inbox'[s] \in Seq(SubscriberPackets(Ids'))
    BY <1>11, <2>1 DEF Endpoints
  <2> QED BY <1>3, <2>2, <2>3, <2>4 DEF PacketTypeOK
<1>13. LedgerInv' /\ AgreeInv'
  <2>1. LedgerInv'
    BY <1>8 DEF LedgerInv
  <2>2. AgreeInv'
    BY <1>8 DEF AgreeInv
  <2> QED BY <2>1, <2>2
<1> QED BY <1>8, <1>10, <1>12, <1>13

\* How a handler may change the role of a connection.
Moves(c) ==
  \/ role'[c] = role[c] /\ (pending'[c] => pending[c])
  \/ /\ role[c] = "none" /\ pending[c] /\ ~pending'[c]
     /\ role'[c] = IF c \in Publishers THEN "publisher"
                   ELSE IF c \in Subscribers THEN "subscriber" ELSE "gone"
  \/ role'[c] = "gone" /\ proc[c] = "dead" /\ ~pending'[c]

\* A publisher that is not registering is not sent a count.
Uncounted(sends, p) ==
  /\ role'[p] = "publisher" => role[p] = "publisher"
  /\ \A i \in DOMAIN sends : sends[i].to = p => sends[i].type # "count"

LEMMA HandshakeGoesOn ==
  ASSUME IInv, SocketInv, NEW sends, Sends(sends), NEW p \in Publishers, Moves(p), Uncounted(sends, p)
  PROVE  Handshake(p)'
<1> DEFINE q == inbox[p]
           v == inbox'[p]
<1>1. /\ Len(q) \in Nat /\ Len(v) \in Nat /\ Len(q) <= Len(v)
      /\ \A k \in 1 .. Len(q) : v[k] = q[k]
      /\ \A k \in Len(q) + 1 .. Len(v) :
           Open(p) /\ \E i \in DOMAIN sends : v[k] = sends[i] /\ sends[i].to = p
      /\ DOMAIN q = 1 .. Len(q) /\ DOMAIN v = 1 .. Len(v)
      /\ q = <<>> <=> Len(q) = 0
      /\ v = <<>> <=> Len(v) = 0
  <2>1. p \in Endpoints
    BY DEF Endpoints
  <2>2. PacketTypeOK /\ PacketTypeOK'
    BY Queues DEF SocketInv
  <2>3. /\ q \in Seq(PublisherPackets(Ids)) /\ v \in Seq(PublisherPackets(Ids'))
    BY <2>2 DEF PacketTypeOK
  <2>4. /\ DOMAIN q = 1 .. Len(q) /\ DOMAIN v = 1 .. Len(v)
        /\ q = <<>> <=> Len(q) = 0
        /\ v = <<>> <=> Len(v) = 0
    BY <2>3, LenProperties, EmptySeq
  <2> QED BY <2>1, <2>4, Queues
<1>2. /\ broker = "up" /\ proc' = proc /\ awaiting' = awaiting
      /\ \A i \in DOMAIN sends : role'[sends[i].to] # "none"
  BY DEF Sends, clients
<1>3. Handshake(p) /\ role[p] \in {"none", "publisher", "gone"}
      /\ (role[p] = "none" \/ proc[p] = "dead" => q = <<>>)
      /\ (role[p] = "gone" => proc[p] = "dead")
  BY Given DEF SocketInv, HandshakeInv, ConnectionInv, Endpoints
<1>4. Expected(p) = IF awaiting[p] = Unknown THEN q[1].count + 1 ELSE awaiting[p]
  BY DEF Expected
<1>5. Expected(p)' = IF awaiting[p] = Unknown THEN v[1].count + 1 ELSE awaiting[p]
  BY <1>2 DEF Expected
<1>6. /\ \A k \in DOMAIN q :
           /\ q[k].type = "count" <=> proc[p] = "greeting" /\ awaiting[p] = Unknown /\ k = 1
           /\ proc[p] = "greeting" /\ k <= Expected(p) => q[k].type # "SubscriberDisconnected"
      /\ proc[p] = "greeting" /\ role[p] = "publisher" => q # <<>> /\ Len(q) >= Expected(p)
      /\ proc[p] = "greeting" => awaiting[p] # 0
  BY <1>2, <1>3 DEF Handshake
<1>7. role'[p] \in {"none", "gone"} => v = q
  <2>1. ASSUME role'[p] \in {"none", "gone"}, v # q PROVE FALSE
    <3>1. Len(q) + 1 \in Len(q) + 1 .. Len(v)
      <4>1. Len(q) # Len(v)
        <5>1. ASSUME Len(q) = Len(v) PROVE v = q
          <6>1. q \in Seq(PublisherPackets(Ids')) /\ v \in Seq(PublisherPackets(Ids'))
            <7>1. PacketTypeOK /\ PacketTypeOK'
              BY Queues DEF SocketInv
            <7>2. q \in Seq(PublisherPackets(Ids)) /\ v \in Seq(PublisherPackets(Ids'))
              BY <7>1 DEF PacketTypeOK
            <7>3. PublisherPackets(Ids) \subseteq PublisherPackets(Ids')
              BY PacketsGrow DEF Sends
            <7> QED BY <7>2, <7>3
          <6>2. \A k \in 1 .. Len(q) : q[k] = v[k]
            BY <1>1
          <6> HIDE DEF q, v
          <6> QED BY <5>1, <6>1, <6>2, SeqEqual
        <5> QED BY <2>1, <5>1
      <4> QED BY <1>1, <4>1
    <3>2. Open(p) /\ role'[p] # "none"
      BY <1>1, <1>2, <3>1
    <3>3. role'[p] = "gone" /\ proc[p] = "dead"
      BY <1>3, <2>1, <3>2 DEF Moves
    <3> QED BY <3>2, <3>3 DEF Open
  <2> QED BY <2>1
<1>8. role'[p] = "publisher" => role[p] = "publisher"
  BY DEF Uncounted
<1>9. role'[p] \in {"none", "gone", "publisher"}
  BY <1>3 DEF Moves
<1> HIDE DEF q, v
<1>10. CASE role'[p] # "publisher"
  <2>1. v = q /\ Expected(p)' = Expected(p)
    BY <1>4, <1>5, <1>7, <1>9, <1>10
  <2> QED BY <1>2, <1>6, <1>10, <2>1 DEF Handshake, v
<1>11. CASE role'[p] = "publisher" /\ proc[p] # "greeting"
  <2>1. ASSUME NEW k \in DOMAIN v PROVE v[k].type # "count"
    <3>1. k \in 1 .. Len(q) \/ k \in Len(q) + 1 .. Len(v)
      BY <1>1
    <3>2. CASE k \in 1 .. Len(q)
      BY <1>1, <1>6, <1>11, <3>2
    <3>3. CASE k \in Len(q) + 1 .. Len(v)
      BY <1>1, <3>3 DEF Uncounted
    <3> QED BY <3>1, <3>2, <3>3
  <2> QED BY <1>2, <1>11, <2>1 DEF Handshake, v
<1>12. CASE role'[p] = "publisher" /\ proc[p] = "greeting"
  <2>1. q # <<>> /\ Len(q) >= Expected(p) /\ 1 \in DOMAIN q /\ v[1] = q[1]
    BY <1>1, <1>6, <1>8, <1>12
  <2>2. Expected(p)' = Expected(p)
    BY <1>4, <1>5, <2>1
  <2>0. Expected(p) \in Int
    <3>1. q[1] \in PublisherPackets(Ids) /\ awaiting[p] \in Int
      <4>1. PacketTypeOK /\ ClientTypeOK
        BY DEF SocketInv
      <4>2. q \in Seq(PublisherPackets(Ids))
        BY <4>1 DEF PacketTypeOK, q
      <4>3. awaiting[p] \in Int
        BY <4>1, Given DEF ClientTypeOK, Unknown
      <4> QED BY <2>1, <4>2, <4>3, ElementOfSeq
    <3>2. awaiting[p] = Unknown => q[1].type = "count"
      BY <1>6, <1>12, <2>1
    <3>3. awaiting[p] = Unknown => q[1].count \in Nat
      BY <3>1, <3>2, PublisherPacket
    <3> QED BY <1>4, <3>1, <3>3
  <2>3. ASSUME NEW k \in DOMAIN v
        PROVE  /\ v[k].type = "count" <=> awaiting[p] = Unknown /\ k = 1
               /\ k <= Expected(p) => v[k].type # "SubscriberDisconnected"
    <3>1. k \in 1 .. Len(q) \/ k \in Len(q) + 1 .. Len(v)
      BY <1>1
    <3>2. CASE k \in 1 .. Len(q)
      BY <1>1, <1>6, <1>12, <3>2
    <3>3. CASE k \in Len(q) + 1 .. Len(v)
      <4>1. v[k].type # "count" /\ k # 1 /\ ~(k <= Expected(p))
        BY <1>1, <2>0, <2>1, <3>3 DEF Uncounted
      <4> QED BY <4>1
    <3> QED BY <3>1, <3>2, <3>3
  <2>4. v # <<>> /\ Len(v) >= Expected(p)
    BY <1>1, <2>0, <2>1
  <2>5. \A k \in DOMAIN v :
          /\ v[k].type = "count" <=> proc'[p] = "greeting" /\ awaiting'[p] = Unknown /\ k = 1
          /\ proc'[p] = "greeting" /\ k <= Expected(p)' => v[k].type # "SubscriberDisconnected"
    BY <1>2, <1>12, <2>2, <2>3
  <2>6. v # <<>> /\ Len(v) >= Expected(p)' /\ awaiting'[p] # 0
    BY <1>2, <1>6, <1>12, <2>2, <2>4
  <2> QED BY <2>5, <2>6 DEF Handshake, v
<1> QED BY <1>10, <1>11, <1>12

\* What a handler has to do for the sockets.
LEMMA Handled ==
  ASSUME IInv, SocketInv, NEW sends, Sends(sends),
         pending' \in [Clients -> BOOLEAN], \A c \in Clients : Moves(c),
         \A p \in Publishers : Handshake(p)' \/ Uncounted(sends, p),
         TenantsInv'
  PROVE  SocketInv'
<1>1. /\ PacketTypeOK' /\ LedgerInv' /\ AgreeInv'
  BY Queues
<1>2. /\ broker = "up" /\ proc' = proc /\ awaiting' = awaiting /\ tracked' = tracked
      /\ installed' = installed /\ Ids \subseteq Ids' /\ \A id \in Ids : granted'[id] = granted[id]
      /\ BrokerTypeOK'
      /\ \A i \in DOMAIN sends : /\ role'[sends[i].to] # "none"
                                 /\ Open(sends[i].to) => True(sends[i])
  BY DEF Sends, clients
<1>3. ClientTypeOK /\ ConnectionInv /\ HandshakeInv /\ NewsInv /\ PacketTypeOK /\ BrokerTypeOK
  BY DEF SocketInv, IInv
<1>4. ClientTypeOK'
  BY <1>1, <1>2, <1>3 DEF ClientTypeOK
<1>5. HandshakeInv'
  BY HandshakeGoesOn, Given DEF HandshakeInv
<1>6. ConnectionInv'
  <2>1. ASSUME NEW c \in Clients
        PROVE  /\ role'[c] = "none" => role[c] = "none"
               /\ role[c] = "none" => inbox[c] = <<>>
               /\ proc[c] = "dead" => inbox[c] = <<>>
               /\ proc[c] \in {"off", "connected"} => role'[c] = "none" /\ ~pending'[c]
               /\ role'[c] = "gone" /\ c \in Endpoints => proc[c] = "dead"
               /\ pending'[c] => role'[c] = "none"
               /\ proc[c] # "cutOff" /\ proc[c] # "failed"
    <3>1. /\ proc[c] \in {"off", "connected"} => role[c] = "none" /\ ~pending[c]
          /\ role[c] = "none" \/ proc[c] = "dead" => inbox[c] = <<>>
          /\ role[c] = "gone" /\ c \in Endpoints => proc[c] = "dead"
          /\ pending[c] => role[c] = "none"
          /\ proc[c] = "cutOff" => broker # "up"
          /\ proc[c] # "failed"
          /\ Moves(c)
      BY <1>3 DEF ConnectionInv
    <3>2. /\ proc[c] # "cutOff" /\ proc[c] # "failed"
          /\ role[c] = "none" => inbox[c] = <<>>
          /\ proc[c] = "dead" => inbox[c] = <<>>
      BY <1>2, <3>1
    <3>3. CASE role'[c] = role[c] /\ (pending'[c] => pending[c])
      BY <3>1, <3>2, <3>3
    <3>4. CASE /\ role[c] = "none" /\ pending[c] /\ ~pending'[c]
               /\ role'[c] = IF c \in Publishers THEN "publisher"
                             ELSE IF c \in Subscribers THEN "subscriber" ELSE "gone"
      BY <3>1, <3>2, <3>4 DEF Endpoints
    <3>5. CASE role'[c] = "gone" /\ proc[c] = "dead" /\ ~pending'[c]
      BY <3>1, <3>2, <3>5
    <3> QED BY <3>1, <3>3, <3>4, <3>5 DEF Moves
  <2>2. ASSUME NEW p \in Publishers PROVE role'[p] \in {"none", "publisher", "gone"}
    BY <1>3, <2>2, Given DEF Moves, ConnectionInv
  <2>3. ASSUME NEW s \in Subscribers PROVE role'[s] \in {"none", "subscriber", "gone"}
    BY <1>3, <2>3, Given DEF Moves, ConnectionInv
  <2>4. ASSUME NEW c \in Clients, role'[c] = "none" \/ proc[c] = "dead" PROVE inbox'[c] = <<>>
    <3>1. inbox[c] = <<>>
      BY <2>1, <2>4
    <3>2. CASE c \in Endpoints
      <4>1. CASE Open(c)
        <5>1. Len(inbox[c]) = 0
          BY <3>1
        <5>2. ASSUME inbox'[c] # <<>> PROVE FALSE
          <6>1. Len(inbox'[c]) \in Nat \ {0}
            <7>1. PICK T : inbox'[c] \in Seq(T)
              BY <1>1, <3>2 DEF PacketTypeOK, Endpoints
            <7> QED BY <5>2, <7>1, EmptySeq
          <6>2. 1 \in Len(inbox[c]) + 1 .. Len(inbox'[c])
            BY <5>1, <6>1
          <6>3. \E i \in DOMAIN sends : sends[i].to = c
            BY <3>2, <6>2, Queues
          <6> QED BY <1>2, <2>4, <4>1, <6>3 DEF Open
        <5> QED BY <5>2
      <4>2. CASE ~Open(c)
        BY <3>1, <3>2, <4>2, Queues
      <4> QED BY <4>1, <4>2
    <3>3. CASE c \in Observers
      BY <1>1, <3>3 DEF PacketTypeOK
    <3> QED BY <3>2, <3>3 DEF Clients, Endpoints
  <2>5. ASSUME NEW p \in Publishers
        PROVE  /\ role'[p] = "none" \/ proc[p] = "dead" => \A x \in Slot : tracked[p][x] = NoId
               /\ role'[p] = "none" => proc[p] # "running" /\ awaiting[p] = Unknown
    BY <1>3, <2>1, Given DEF ConnectionInv
  <2>6. ASSUME NEW s \in Subscribers
        PROVE  /\ proc[s] # "greeting"
               /\ role'[s] = "none" \/ proc[s] = "dead" => installed[s] = {}
    BY <1>3, <2>1, Given DEF ConnectionInv
  <2>7. \A c \in Clients :
          /\ proc'[c] \in {"off", "connected"} => role'[c] = "none" /\ ~pending'[c]
          /\ role'[c] = "none" \/ proc'[c] = "dead" => inbox'[c] = <<>>
          /\ role'[c] = "gone" /\ c \in Endpoints => proc'[c] = "dead"
          /\ pending'[c] => role'[c] = "none"
          /\ proc'[c] = "cutOff" => broker' # "up"
          /\ proc'[c] # "failed"
    BY <1>2, <2>1, <2>4
  <2>8. /\ \A p \in Publishers :
             /\ role'[p] = "none" \/ proc'[p] = "dead" => \A x \in Slot : tracked'[p][x] = NoId
             /\ role'[p] = "none" => proc'[p] # "running" /\ awaiting'[p] = Unknown
        /\ \A s \in Subscribers :
             /\ proc'[s] # "greeting"
             /\ role'[s] = "none" \/ proc'[s] = "dead" => installed'[s] = {}
    BY <1>2, <2>5, <2>6
  <2> QED BY <2>2, <2>3, <2>7, <2>8 DEF ConnectionInv
<1>7. NewsInv'
  <2>1. ASSUME NEW p \in Publishers, NEW k \in DOMAIN inbox'[p]
        PROVE  /\ inbox'[p][k].type = "SubscriberEventFdAndSlot" =>
                    \A id \in Ids' : /\ granted'[id].pub = p /\ granted'[id].slot = inbox'[p][k].slot
                                     /\ id < inbox'[p][k].id
                                     => proc'[granted'[id].sub] = "dead"
               /\ inbox'[p][k].type = "SubscriberDisconnected" =>
                    /\ ToldIn(p, inbox[p][k].slot, k)' \in Ids'
                    /\ proc'[granted'[ToldIn(p, inbox[p][k].slot, k)'].sub] = "dead"
    <3> DEFINE m == inbox'[p][k]
    <3>1. /\ inbox[p] \in Seq(PublisherPackets(Ids)) /\ inbox'[p] \in Seq(PublisherPackets(Ids'))
          /\ p \in Endpoints
      BY <1>1, <1>3 DEF PacketTypeOK, Endpoints
    <3>2. /\ DOMAIN inbox[p] = 1 .. Len(inbox[p]) /\ Len(inbox[p]) \in Nat
          /\ DOMAIN inbox'[p] = 1 .. Len(inbox'[p]) /\ Len(inbox'[p]) \in Nat
      BY <3>1, LenProperties
    <3>3. m \in PublisherPackets(Ids')
      BY <3>1, <3>2, ElementOfSeq
    <3>4. m.type \in {"SubscriberEventFdAndSlot", "SubscriberDisconnected"} => m.slot \in Keys(p)
      BY <3>3, PublisherPacket DEF Keys
    <3>5. k \in 1 .. Len(inbox[p]) \/ k \in Len(inbox[p]) + 1 .. Len(inbox'[p])
      BY <3>2
    <3>6. CASE k \in 1 .. Len(inbox[p])
      <4>1. /\ m = inbox[p][k]
            /\ \A key \in Keys(p) : ToldIn(p, key, k)' = ToldIn(p, key, k)
        BY <3>1, <3>6, Queues
      <4>2. inbox[p][k] \in PublisherPackets(Ids)
        BY <3>1, <3>2, <3>6, ElementOfSeq
      <4>3. ASSUME m.type = "SubscriberEventFdAndSlot", NEW id \in Ids', granted'[id].pub = p,
                   granted'[id].slot = m.slot, id < m.id
            PROVE  proc[granted'[id].sub] = "dead"
        <5>1. m.id \in Ids
          BY <4>1, <4>2, <4>3, PublisherPacket
        <5>2. Ids = 1 .. Len(granted) /\ Len(granted) \in Nat
          BY <1>3, Granted
        <5>3. Ids' = 1 .. Len(granted') /\ Len(granted') \in Nat
          BY <1>2, LenProperties DEF Ids, BrokerTypeOK
        <5>4. id \in Ids
          BY <4>3, <5>1, <5>2, <5>3
        <5>5. granted'[id] = granted[id]
          BY <1>2, <5>4
        <5> QED BY <1>3, <3>2, <3>6, <4>1, <4>3, <5>4, <5>5 DEF NewsInv
      <4>4. ASSUME m.type = "SubscriberDisconnected", NEW x, x = m.slot
            PROVE  ToldIn(p, x, k)' \in Ids' /\ proc[granted'[ToldIn(p, x, k)'].sub] = "dead"
        <5>1. ToldIn(p, x, k) \in Ids /\ proc[granted[ToldIn(p, x, k)].sub] = "dead"
          BY <1>3, <3>2, <3>6, <4>1, <4>4 DEF NewsInv
        <5>2. ToldIn(p, x, k)' = ToldIn(p, x, k)
          BY <3>4, <4>1, <4>4
        <5> QED BY <1>2, <5>1, <5>2
      <4> QED BY <1>2, <4>3, <4>4
    <3>7. CASE k \in Len(inbox[p]) + 1 .. Len(inbox'[p])
      <4>1. PICK i \in DOMAIN sends : m = sends[i] /\ sends[i].to = p /\ Open(p)
        BY <3>1, <3>7, Queues
      <4>2. True(m) /\ m.to = p
        BY <1>2, <4>1
      <4>3. ASSUME m.type = "SubscriberDisconnected", NEW x, x = m.slot
            PROVE  ToldIn(p, x, k)' = Leases(p, x)
        <5>1. x \in Keys(p) /\ Says(m, x) = NoId
          BY <3>3, <3>4, <4>3, PublisherPacket
        <5>2. NoId # Silent
          BY DEF NoId, Silent
        <5> QED BY <3>1, <3>7, <5>1, <5>2, Queues
      <4> QED BY <1>2, <4>2, <4>3 DEF True
    <3> QED BY <3>5, <3>6, <3>7
  <2> QED BY <2>1 DEF NewsInv
<1> QED BY <1>1, <1>4, <1>5, <1>6, <1>7 DEF SocketInv

-----------------------------------------------------------------------------
(* Steps that move no packet *)

LEMMA SocketParts ==
  ASSUME SocketInv
  PROVE  /\ ClientTypeOK /\ PacketTypeOK /\ ConnectionInv /\ HandshakeInv
         /\ LedgerInv /\ AgreeInv /\ NewsInv /\ TenantsInv
         /\ \A p \in Publishers : inbox[p] \in Seq(PublisherPackets(Ids)) /\ Handshake(p)
         /\ \A s \in Subscribers : inbox[s] \in Seq(SubscriberPackets(Ids))
         /\ \A c \in Endpoints : /\ c \in Clients /\ Len(inbox[c]) \in Nat
                                 /\ DOMAIN inbox[c] = 1 .. Len(inbox[c])
                                 /\ inbox[c] = <<>> <=> Len(inbox[c]) = 0
<1>1. /\ ClientTypeOK /\ PacketTypeOK /\ ConnectionInv /\ HandshakeInv
      /\ LedgerInv /\ AgreeInv /\ NewsInv /\ TenantsInv
  BY DEF SocketInv
<1>2. /\ \A p \in Publishers : inbox[p] \in Seq(PublisherPackets(Ids)) /\ Handshake(p)
      /\ \A s \in Subscribers : inbox[s] \in Seq(SubscriberPackets(Ids))
  BY <1>1 DEF PacketTypeOK, HandshakeInv
<1>3. ASSUME NEW c \in Endpoints
      PROVE  /\ c \in Clients /\ Len(inbox[c]) \in Nat /\ DOMAIN inbox[c] = 1 .. Len(inbox[c])
             /\ inbox[c] = <<>> <=> Len(inbox[c]) = 0
  <2>1. c \in Clients /\ \E S : inbox[c] \in Seq(S)
    BY <1>2, Given DEF Endpoints
  <2> QED BY <2>1, LenProperties, EmptySeq
<1> QED BY <1>1, <1>2, <1>3

LEMMA QuietSockets ==
  ASSUME BrokerTypeOK, SocketInv, UNCHANGED <<inbox, awaiting, tracked, installed, attach, granted>>,
         broker' = "up" => broker = "up",
         \A c \in Clients : proc'[c] = "dead" <=> proc[c] = "dead",
         \A c \in Endpoints : role'[c] = role[c]
  PROVE  PacketTypeOK' /\ LedgerInv' /\ AgreeInv' /\ NewsInv' /\ TenantsInv'
<1>1. PacketTypeOK /\ LedgerInv /\ AgreeInv /\ NewsInv /\ TenantsInv
  BY SocketParts
<1>2. PacketTypeOK'
  BY <1>1 DEF PacketTypeOK, Ids
<1>3. /\ \A c \in Endpoints : \A key : Holds(c, key)' = Holds(c, key) /\ Leases(c, key)' = Leases(c, key)
      /\ \A c \in Endpoints : \A key, k : ToldIn(c, key, k)' = ToldIn(c, key, k)
  <2>1. \A p \in Publishers : \A x : Lease(p, x)' = Lease(p, x)
    BY DEF Lease
  <2>2. \A c \in Endpoints : \A key : Holds(c, key)' = Holds(c, key) /\ Leases(c, key)' = Leases(c, key)
    BY <2>1 DEF Holds, Leases
  <2> QED BY <2>2 DEF ToldIn
<1>4. LedgerInv'
  BY <1>1, <1>3 DEF LedgerInv
<1>5. \A c \in Endpoints : c \in Clients
  BY Given DEF Endpoints
<1>6. AgreeInv'
  BY <1>1, <1>3, <1>5 DEF AgreeInv
<1>7. \A id \in Ids : granted[id].sub \in Clients /\ granted[id].pub \in Endpoints
  BY Granted, Given DEF Endpoints
<1>8. NewsInv'
  <2>1. ASSUME NEW p \in Publishers, NEW k \in DOMAIN inbox[p], NEW x, x = inbox[p][k].slot
        PROVE  /\ inbox[p][k].type = "SubscriberEventFdAndSlot" =>
                    \A id \in Ids : /\ granted[id].pub = p /\ granted[id].slot = x
                                    /\ id < inbox[p][k].id
                                    => proc'[granted[id].sub] = "dead"
               /\ inbox[p][k].type = "SubscriberDisconnected" =>
                    /\ ToldIn(p, x, k)' \in Ids
                    /\ proc'[granted[ToldIn(p, x, k)'].sub] = "dead"
    <3>1. ToldIn(p, x, k)' = ToldIn(p, x, k)
      BY <1>3 DEF Endpoints
    <3> QED BY <1>1, <1>7, <2>1, <3>1 DEF NewsInv
  <2>2. Ids' = Ids
    BY DEF Ids
  <2> QED BY <2>1, <2>2 DEF NewsInv
<1>9. TenantsInv'
  BY <1>1, <1>7 DEF TenantsInv, Ids
<1> QED BY <1>2, <1>4, <1>6, <1>8, <1>9

\* The handlers that send nothing, and clients that come or are cut off.
LEMMA QuietSocketStep ==
  ASSUME IInv, SocketInv,
         \/ \E o \in Observers : HandleStatusQuery(o)
         \/ \E c \in Clients : HandleUnregisteredEnd(c)
         \/ Shutdown
         \/ \E c \in Clients : Connect(c) \/ Register(c) \/ BrokerClosed(c)
         \/ UNCHANGED vars
  PROVE  SocketInv'
<1>1. /\ ClientTypeOK /\ ConnectionInv /\ HandshakeInv /\ PacketTypeOK /\ BrokerTypeOK
      /\ \A p \in Publishers : Handshake(p)
      /\ pending \in [Clients -> BOOLEAN]
      /\ proc \in [Clients -> {"off", "connected", "greeting", "running", "cutOff", "failed", "dead"}]
  BY SocketParts DEF IInv, ClientTypeOK
<1>2. \A c \in Clients : /\ c \in Publishers \/ c \in Subscribers \/ c \in Observers
                         /\ c \in Observers => c \notin Endpoints
  BY Given DEF Clients, Endpoints
<1>3. ASSUME NEW o \in Observers, HandleStatusQuery(o) PROVE SocketInv'
  <2>1. /\ broker = "up" /\ pending[o] /\ pending' = [pending EXCEPT ![o] = FALSE]
        /\ role' = [role EXCEPT ![o] = "gone"]
        /\ UNCHANGED <<broker, attach, granted, inbox, proc, awaiting, tracked, installed>>
    BY <1>3 DEF HandleStatusQuery, clients
  <2>2. /\ \A c \in Clients \ {o} : role'[c] = role[c] /\ pending'[c] = pending[c]
        /\ role'[o] = "gone" /\ pending'[o] = FALSE /\ o \in Clients /\ o \notin Endpoints
        /\ pending' \in [Clients -> BOOLEAN]
    BY <1>1, <1>2, <2>1, Given DEF BrokerTypeOK
  <2>3. \A c \in Endpoints : role'[c] = role[c] /\ c \in Clients
    BY <2>2, Given DEF Endpoints
  <2>4. PacketTypeOK' /\ LedgerInv' /\ AgreeInv' /\ NewsInv' /\ TenantsInv'
    BY <1>1, <2>1, <2>3, QuietSockets
  <2>5. ClientTypeOK'
    BY <1>1, <2>1, <2>2 DEF ClientTypeOK, Ids
  <2>6. HandshakeInv'
    BY <1>1, <2>1, <2>3 DEF HandshakeInv, Handshake, Expected, Endpoints
  <2>7. ConnectionInv'
    <3>1. inbox[o] = <<>> /\ proc[o] \notin {"off", "connected"}
      BY <1>1, <2>1, <2>2 DEF PacketTypeOK, ConnectionInv
    <3>2. ASSUME NEW c \in Clients
          PROVE  /\ proc[c] \in {"off", "connected"} => role'[c] = "none" /\ ~pending'[c]
                 /\ role'[c] = "none" \/ proc[c] = "dead" => inbox[c] = <<>>
                 /\ role'[c] = "gone" /\ c \in Endpoints => proc[c] = "dead"
                 /\ pending'[c] => role'[c] = "none"
                 /\ proc[c] = "cutOff" => broker # "up"
                 /\ proc[c] # "failed"
      BY <1>1, <2>2, <3>1 DEF ConnectionInv
    <3>3. /\ \A p \in Publishers : role'[p] \in {"none", "publisher", "gone"} /\ role'[p] = role[p]
          /\ \A s \in Subscribers : role'[s] \in {"none", "subscriber", "gone"} /\ role'[s] = role[s]
      BY <1>1, <2>3 DEF ConnectionInv, Endpoints
    <3> QED BY <1>1, <2>1, <3>2, <3>3 DEF ConnectionInv
  <2> QED BY <2>4, <2>5, <2>6, <2>7 DEF SocketInv
<1>4. ASSUME \/ \E c \in Clients : HandleUnregisteredEnd(c)
             \/ Shutdown
             \/ UNCHANGED vars
      PROVE  SocketInv'
  <2>1. /\ UNCHANGED <<role, attach, granted, pending, inbox, proc, awaiting, tracked, installed>>
        /\ broker' = "up" => broker = "up"
        /\ broker' # broker => broker = "up"
    BY <1>4 DEF HandleUnregisteredEnd, Shutdown, vars, tables, clients
  <2>2. PacketTypeOK' /\ LedgerInv' /\ AgreeInv' /\ NewsInv' /\ TenantsInv'
    BY <1>1, <2>1, QuietSockets
  <2>3. ClientTypeOK'
    BY <1>1, <2>1 DEF ClientTypeOK, Ids
  <2>4. HandshakeInv'
    BY <1>1, <2>1 DEF HandshakeInv, Handshake, Expected
  <2>5. ConnectionInv'
    BY <1>1, <2>1 DEF ConnectionInv
  <2> QED BY <2>2, <2>3, <2>4, <2>5 DEF SocketInv
<1>5. ASSUME NEW c \in Clients, NEW now, proc' = [proc EXCEPT ![c] = now],
             \/ proc[c] = "off" /\ now = "connected" /\ broker = "up" /\ pending' = pending
             \/ /\ proc[c] = "connected" /\ now = IF c \in Publishers THEN "greeting" ELSE "running"
                /\ pending' = [pending EXCEPT ![c] = TRUE]
             \/ /\ proc[c] \in {"connected", "greeting", "running"} /\ now = "cutOff" /\ broker # "up"
                /\ pending' = pending /\ inbox[c] = <<>>,
             UNCHANGED <<broker, role, attach, granted, inbox, awaiting, tracked, installed>>
      PROVE  SocketInv'
  <2>1. /\ \A d \in Clients \ {c} : proc'[d] = proc[d] /\ pending'[d] = pending[d]
        /\ proc'[c] = now /\ proc[c] # "dead" /\ now # "dead"
        /\ now \in {"connected", "greeting", "running", "cutOff"}
        /\ proc' \in [Clients -> {"off", "connected", "greeting", "running", "cutOff", "failed", "dead"}]
    BY <1>1, <1>5
  <2>2. PacketTypeOK' /\ LedgerInv' /\ AgreeInv' /\ NewsInv' /\ TenantsInv'
    <3>1. \A d \in Clients : proc'[d] = "dead" <=> proc[d] = "dead"
      BY <2>1
    <3> QED BY <1>1, <1>5, <3>1, QuietSockets
  <2>3. ClientTypeOK'
    <3>1. pending' \in [Clients -> BOOLEAN]
      BY <1>1, <1>5
    <3> QED BY <1>1, <1>5, <2>1, <3>1 DEF ClientTypeOK, Ids
  <2>4. \A p \in Publishers : Handshake(p)'
    <3>1. ASSUME NEW p \in Publishers, p # c PROVE Handshake(p)'
      <4>1. proc'[p] = proc[p]
        BY <2>1, <3>1, Given
      <4> QED BY <1>1, <1>5, <4>1 DEF Handshake, Expected
    <3>2. ASSUME NEW p \in Publishers, p = c PROVE Handshake(p)'
      <4>1. proc[p] \in {"off", "connected"} => role[p] = "none"
        BY <1>1, <3>2 DEF ConnectionInv
      <4>2. role[p] = "none" => inbox[p] = <<>> /\ awaiting[p] = Unknown
        BY <1>1, <3>2 DEF ConnectionInv
      <4>3. inbox[p] = <<>> /\ (now = "greeting" => awaiting[p] = Unknown /\ role[p] = "none")
        BY <1>5, <3>2, <4>1, <4>2
      <4> QED BY <1>5, <2>1, <3>2, <4>3 DEF Handshake, Unknown
    <3> QED BY <3>1, <3>2
  <2>5. ConnectionInv'
    <3>1. /\ proc[c] \in {"off", "connected"} => role[c] = "none" /\ ~pending[c]
          /\ pending[c] => role[c] = "none"
          /\ role[c] = "none" => inbox[c] = <<>>
          /\ role[c] = "gone" /\ c \in Endpoints => proc[c] = "dead"
      BY <1>1 DEF ConnectionInv
    <3>2. ASSUME NEW d \in Clients
          PROVE  /\ proc'[d] \in {"off", "connected"} => role[d] = "none" /\ ~pending'[d]
                 /\ role[d] = "none" \/ proc'[d] = "dead" => inbox[d] = <<>>
                 /\ role[d] = "gone" /\ d \in Endpoints => proc'[d] = "dead"
                 /\ pending'[d] => role[d] = "none"
                 /\ proc'[d] = "cutOff" => broker # "up"
                 /\ proc'[d] # "failed"
      <4>1. CASE d # c
        BY <1>1, <2>1, <4>1 DEF ConnectionInv
      <4>2. CASE d = c
        <5>1. ~(role[c] = "gone" /\ c \in Endpoints)
          BY <2>1, <3>1
        <5> QED BY <1>1, <1>5, <2>1, <3>1, <4>2, <5>1
      <4> QED BY <4>1, <4>2
    <3>3. ASSUME NEW p \in Publishers
          PROVE  /\ role[p] = "none" \/ proc'[p] = "dead" => \A x \in Slot : tracked[p][x] = NoId
                 /\ role[p] = "none" => proc'[p] # "running" /\ awaiting[p] = Unknown
      <4>1. CASE p # c
        <5>1. proc'[p] = proc[p]
          BY <2>1, <4>1, Given
        <5> QED BY <1>1, <5>1 DEF ConnectionInv
      <4>2. CASE p = c
        BY <1>1, <1>5, <2>1, <4>2 DEF ConnectionInv
      <4> QED BY <4>1, <4>2
    <3>4. ASSUME NEW s \in Subscribers
          PROVE  /\ proc'[s] # "greeting"
                 /\ role[s] = "none" \/ proc'[s] = "dead" => installed[s] = {}
      <4>1. CASE s # c
        <5>1. proc'[s] = proc[s]
          BY <2>1, <4>1, Given
        <5> QED BY <1>1, <5>1 DEF ConnectionInv
      <4>2. CASE s = c
        BY <1>1, <1>5, <2>1, <4>2, Given DEF ConnectionInv
      <4> QED BY <4>1, <4>2
    <3> QED BY <1>1, <1>5, <3>2, <3>3, <3>4 DEF ConnectionInv
  <2> QED BY <2>2, <2>3, <2>4, <2>5 DEF SocketInv, HandshakeInv
<1>6. ASSUME NEW c \in Clients, Connect(c) \/ Register(c) \/ BrokerClosed(c) PROVE SocketInv'
  <2>1. UNCHANGED <<broker, role, attach, granted, inbox, awaiting, tracked, installed>>
    BY <1>6 DEF Connect, Register, BrokerClosed, tables
  <2>2. CASE Connect(c)
    BY <1>5, <2>1, <2>2 DEF Connect
  <2>3. CASE Register(c)
    <3>1. proc[c] = "connected" => inbox[c] = <<>>
      BY <1>1 DEF ConnectionInv
    <3> QED BY <1>5, <2>1, <2>3, <3>1 DEF Register
  <2>4. CASE BrokerClosed(c)
    BY <1>5, <2>1, <2>4 DEF BrokerClosed
  <2> QED BY <1>6, <2>2, <2>3, <2>4
<1> QED BY <1>3, <1>4, <1>6

-----------------------------------------------------------------------------
(* Clients die, and read their packets *)

LEMMA DieSocketStep ==
  ASSUME IInv, SocketInv, NEW c \in Clients, Die(c)
  PROVE  SocketInv'
<1>1. /\ ClientTypeOK /\ ConnectionInv /\ HandshakeInv /\ PacketTypeOK /\ BrokerTypeOK
      /\ LedgerInv /\ AgreeInv /\ NewsInv /\ TenantsInv
      /\ \A p \in Publishers : Handshake(p)
  BY SocketParts DEF IInv
<1>2. /\ proc' = [proc EXCEPT ![c] = "dead"] /\ inbox' = [inbox EXCEPT ![c] = <<>>]
      /\ tracked' = [p \in Publishers |-> IF p = c THEN [x \in Slot |-> NoId] ELSE tracked[p]]
      /\ installed' = [s \in Subscribers |-> IF s = c THEN {} ELSE installed[s]]
      /\ UNCHANGED <<broker, role, attach, granted, pending, awaiting>>
      /\ proc[c] # "off"
  BY DEF Die, tables, Open
<1>3. /\ \A d \in Clients \ {c} : proc'[d] = proc[d] /\ inbox'[d] = inbox[d]
      /\ proc'[c] = "dead" /\ inbox'[c] = <<>> /\ DOMAIN inbox' = Clients
      /\ \A d \in Clients : proc[d] = "dead" => proc'[d] = "dead"
      /\ proc' \in [Clients -> {"off", "connected", "greeting", "running", "cutOff", "failed", "dead"}]
      /\ \A p \in Publishers : p # c => tracked'[p] = tracked[p]
      /\ \A p \in Publishers : p = c => \A x \in Slot : tracked'[p][x] = NoId
      /\ \A s \in Subscribers : installed'[s] = IF s = c THEN {} ELSE installed[s]
  BY <1>1, <1>2 DEF ClientTypeOK, PacketTypeOK
<1>4. \A d \in Endpoints \ {c} : \A key :
        /\ Holds(d, key)' = Holds(d, key) /\ Leases(d, key)' = Leases(d, key)
        /\ \A k : ToldIn(d, key, k)' = ToldIn(d, key, k)
  <2>1. \A p \in Publishers : \A x : Lease(p, x)' = Lease(p, x)
    BY <1>2 DEF Lease
  <2>2. \A d \in Endpoints \ {c} : \A key :
          Holds(d, key)' = Holds(d, key) /\ Leases(d, key)' = Leases(d, key)
    BY <1>2, <1>3, <2>1 DEF Holds, Leases, Endpoints
  <2>3. \A d \in Endpoints \ {c} : inbox'[d] = inbox[d]
    BY <1>3, Given DEF Endpoints
  <2> QED BY <2>2, <2>3 DEF ToldIn
<1>5. \A d \in Endpoints : d \in Clients
  BY Given DEF Endpoints
<1>6. ClientTypeOK'
  <2>1. tracked' \in [Publishers -> [Slot -> {NoId} \cup Ids]]
    BY <1>1, <1>2 DEF ClientTypeOK
  <2>2. installed' \in [Subscribers -> SUBSET Ids]
    BY <1>1, <1>2 DEF ClientTypeOK
  <2> QED BY <1>1, <1>2, <1>3, <2>1, <2>2 DEF ClientTypeOK, Ids
<1>7. PacketTypeOK'
  <2>1. \A S : <<>> \in Seq(S)
    OBVIOUS
  <2>2. /\ \A p \in Publishers : inbox'[p] \in Seq(PublisherPackets(Ids))
        /\ \A s \in Subscribers : inbox'[s] \in Seq(SubscriberPackets(Ids))
        /\ \A o \in Observers : inbox'[o] = <<>>
    BY <1>1, <1>3, <2>1, Given, ZenonT(40) DEF PacketTypeOK
  <2> QED BY <1>2, <1>3, <2>2 DEF PacketTypeOK, Ids
<1>8. HandshakeInv'
  <2>1. ASSUME NEW p \in Publishers PROVE Handshake(p)'
    <3>1. CASE p # c
      <4>1. proc'[p] = proc[p] /\ inbox'[p] = inbox[p] /\ awaiting'[p] = awaiting[p]
        BY <1>2, <1>3, <3>1, Given
      <4> QED BY <1>1, <1>2, <4>1 DEF Handshake, Expected
    <3>2. CASE p = c
      BY <1>2, <1>3, <3>2 DEF Handshake
    <3> QED BY <3>1, <3>2
  <2> QED BY <2>1 DEF HandshakeInv
<1>9. ConnectionInv'
  <2>1. ASSUME NEW d \in Clients
        PROVE  /\ proc'[d] \in {"off", "connected"} => role[d] = "none" /\ ~pending[d]
               /\ role[d] = "none" \/ proc'[d] = "dead" => inbox'[d] = <<>>
               /\ role[d] = "gone" /\ d \in Endpoints => proc'[d] = "dead"
               /\ pending[d] => role[d] = "none"
               /\ proc'[d] = "cutOff" => broker # "up"
               /\ proc'[d] # "failed"
    <3>1. CASE d # c
      BY <1>1, <1>3, <3>1 DEF ConnectionInv
    <3>2. CASE d = c
      BY <1>1, <1>3, <3>2 DEF ConnectionInv
    <3> QED BY <3>1, <3>2
  <2>2. ASSUME NEW p \in Publishers
        PROVE  /\ role[p] = "none" \/ proc'[p] = "dead" => \A x \in Slot : tracked'[p][x] = NoId
               /\ role[p] = "none" => proc'[p] # "running" /\ awaiting[p] = Unknown
    BY <1>1, <1>3, Given DEF ConnectionInv
  <2>3. ASSUME NEW s \in Subscribers
        PROVE  /\ proc'[s] # "greeting"
               /\ role[s] = "none" \/ proc'[s] = "dead" => installed'[s] = {}
    BY <1>1, <1>3, Given DEF ConnectionInv
  <2> QED BY <1>1, <1>2, <2>1, <2>2, <2>3 DEF ConnectionInv
<1>10. LedgerInv'
  <2>1. ASSUME NEW d \in Endpoints, NEW key \in Keys(d)
        PROVE  Orderly(Saying(inbox'[d], key), Holds(d, key)')
    <3>1. CASE d # c
      BY <1>1, <1>3, <1>4, <1>5, <3>1 DEF LedgerInv
    <3>2. CASE d = c
      <4>1. DOMAIN Saying(inbox'[d], key) = {}
        BY <1>3, <3>2 DEF Saying
      <4> QED BY <4>1 DEF Orderly
    <3> QED BY <3>1, <3>2
  <2> QED BY <2>1 DEF LedgerInv
<1>11. AgreeInv'
  <2>1. ASSUME broker = "up", NEW d \in Endpoints, proc'[d] # "dead", NEW key \in Keys(d)
        PROVE  Told(Saying(inbox'[d], key), Holds(d, key)', Len(inbox'[d]) + 1) = Leases(d, key)'
    <3>1. d # c /\ inbox'[d] = inbox[d] /\ proc[d] # "dead"
      BY <1>3, <1>5, <2>1
    <3>2. ToldIn(d, key, Len(inbox[d]) + 1) = Leases(d, key)
      BY <1>1, <2>1, <3>1 DEF AgreeInv
    <3>3. /\ Holds(d, key)' = Holds(d, key) /\ Leases(d, key)' = Leases(d, key)
      BY <1>4, <3>1
    <3> QED BY <3>1, <3>2, <3>3 DEF ToldIn
  <2> QED BY <1>2, <2>1 DEF AgreeInv, ToldIn
<1>12. \A id \in Ids : granted[id].sub \in Clients
  BY <1>1, Granted, Given
<1>13. NewsInv'
  <2>1. ASSUME NEW p \in Publishers, NEW k \in DOMAIN inbox'[p], NEW x, x = inbox'[p][k].slot
        PROVE  /\ inbox'[p][k].type = "SubscriberEventFdAndSlot" =>
                    \A id \in Ids : /\ granted[id].pub = p /\ granted[id].slot = x
                                    /\ id < inbox'[p][k].id
                                    => proc'[granted[id].sub] = "dead"
               /\ inbox'[p][k].type = "SubscriberDisconnected" =>
                    /\ ToldIn(p, x, k)' \in Ids
                    /\ proc'[granted[ToldIn(p, x, k)'].sub] = "dead"
    <3>1. p # c /\ inbox'[p] = inbox[p]
      BY <1>3, <2>1, Given
    <3>2. ToldIn(p, x, k)' = ToldIn(p, x, k)
      BY <1>4, <3>1 DEF Endpoints
    <3> QED BY <1>1, <1>3, <1>12, <2>1, <3>1, <3>2 DEF NewsInv
  <2>2. Ids' = Ids /\ granted' = granted
    BY <1>2 DEF Ids
  <2> QED BY <2>1, <2>2 DEF NewsInv
<1>14. TenantsInv'
  BY <1>1, <1>2, <1>3, <1>12 DEF TenantsInv, Ids
<1> QED BY <1>6, <1>7, <1>8, <1>9, <1>10, <1>11, <1>13, <1>14 DEF SocketInv

\* The first packet may be received: it ends a lease that is held, or starts one that is not.
LEMMA FirstPacket ==
  ASSUME SocketInv, NEW c \in Endpoints, inbox[c] # <<>>
  PROVE  /\ c \in Publishers => Head(inbox[c]) \in PublisherPackets(Ids)
         /\ c \in Subscribers => Head(inbox[c]) \in SubscriberPackets(Ids)
         /\ 1 \in DOMAIN inbox[c] /\ Head(inbox[c]) = inbox[c][1]
         /\ \A key \in Keys(c) : Says(Head(inbox[c]), key) # Silent =>
              (Says(Head(inbox[c]), key) = NoId <=> Holds(c, key) # NoId)
<1>1. /\ Len(inbox[c]) \in Nat \ {0} /\ DOMAIN inbox[c] = 1 .. Len(inbox[c])
      /\ c \in Publishers => inbox[c] \in Seq(PublisherPackets(Ids))
      /\ c \in Subscribers => inbox[c] \in Seq(SubscriberPackets(Ids))
      /\ LedgerInv
  BY SocketParts
<1>2. 1 \in 1 .. Len(inbox[c]) /\ Head(inbox[c]) = inbox[c][1]
  BY <1>1
<1>3. /\ c \in Publishers => inbox[c][1] \in PublisherPackets(Ids)
      /\ c \in Subscribers => inbox[c][1] \in SubscriberPackets(Ids)
  BY <1>1, <1>2, ElementOfSeq
<1>4. ASSUME NEW key \in Keys(c), Says(inbox[c][1], key) # Silent
      PROVE  Says(inbox[c][1], key) = NoId <=> Holds(c, key) # NoId
  <2> DEFINE v == Saying(inbox[c], key)
  <2>1. Orderly(v, Holds(c, key))
    BY <1>1 DEF LedgerInv
  <2>2. 1 \in DOMAIN v /\ v[1] = Says(inbox[c][1], key)
    BY <1>1, <1>2, SayingIs
  <2> HIDE DEF v
  <2>3. Told(v, Holds(c, key), 1) = Holds(c, key)
    <3>1. 1 \in Nat \ {0}
      OBVIOUS
    <3> QED BY <3>1, ToldNext
  <2> QED BY <1>4, <2>1, <2>2, <2>3 DEF Orderly
<1> QED BY <1>1, <1>2, <1>3, <1>4

\* A client reads a packet and does as it says.
LEMMA OneReads ==
  ASSUME BrokerTypeOK, SocketInv, NEW c \in Endpoints, inbox[c] # <<>>,
         inbox' = [inbox EXCEPT ![c] = Tail(@)], UNCHANGED <<broker, role, attach, granted>>,
         \A d \in Clients : proc'[d] = "dead" <=> proc[d] = "dead",
         \A d \in Endpoints \ {c} : \A key \in Keys(d) : Holds(d, key)' = Holds(d, key),
         \A key \in Keys(c) : Holds(c, key)' = IF Says(Head(inbox[c]), key) # Silent
                                                 THEN Says(Head(inbox[c]), key) ELSE Holds(c, key)
  PROVE  /\ PacketTypeOK' /\ LedgerInv' /\ AgreeInv' /\ NewsInv' /\ TenantsInv'
         /\ \A d \in Clients \ {c} : inbox'[d] = inbox[d]
         /\ Len(inbox'[c]) = Len(inbox[c]) - 1 /\ inbox'[c] = Tail(inbox[c])
         /\ DOMAIN inbox'[c] = 1 .. Len(inbox[c]) - 1
         /\ \A k \in 1 .. Len(inbox[c]) - 1 : inbox'[c][k] = inbox[c][k + 1]
         /\ inbox'[c] = <<>> <=> Len(inbox[c]) = 1
<1> DEFINE q == inbox[c]
           n == Len(q) - 1
<1>1. /\ PacketTypeOK /\ LedgerInv /\ AgreeInv /\ NewsInv /\ TenantsInv /\ ClientTypeOK
      /\ Len(q) \in Nat \ {0} /\ DOMAIN q = 1 .. Len(q) /\ c \in Clients
      /\ DOMAIN inbox = Clients
  BY SocketParts DEF PacketTypeOK
<1>2. /\ DOMAIN inbox' = Clients /\ inbox'[c] = Tail(q)
      /\ \A d \in Clients \ {c} : inbox'[d] = inbox[d]
  BY <1>1
<1>3. ASSUME NEW S, q \in Seq(S)
      PROVE  /\ Tail(q) \in Seq(S) /\ Len(Tail(q)) = n /\ DOMAIN Tail(q) = 1 .. n
             /\ \A k \in 1 .. n : Tail(q)[k] = q[k + 1]
             /\ Tail(q) = <<>> <=> n = 0
  <2>1. q # <<>>
    OBVIOUS
  <2> HIDE DEF q
  <2>2. /\ Tail(q) \in Seq(S) /\ Len(Tail(q)) = Len(q) - 1
        /\ \A k \in 1 .. Len(Tail(q)) : Tail(q)[k] = q[k + 1]
    BY <1>3, <2>1, HeadTailProperties
  <2>3. DOMAIN Tail(q) = 1 .. Len(Tail(q)) /\ (Tail(q) = <<>> <=> Len(Tail(q)) = 0)
    BY <2>2, LenProperties, EmptySeq
  <2> QED BY <2>2, <2>3
<1>4. /\ c \in Publishers => q \in Seq(PublisherPackets(Ids))
      /\ c \in Subscribers => q \in Seq(SubscriberPackets(Ids))
      /\ c \in Publishers \/ c \in Subscribers
      /\ c \notin Observers
  BY <1>1, Given DEF PacketTypeOK, Endpoints
<1> HIDE DEF n, q
<1>0. q = inbox[c]
  BY DEF q
<1>5. /\ Len(Tail(q)) = n /\ DOMAIN Tail(q) = 1 .. n /\ n \in Nat /\ Len(q) = n + 1
      /\ \A k \in 1 .. n : Tail(q)[k] = q[k + 1]
      /\ Tail(q) = <<>> <=> n = 0
  <2>1. n \in Nat /\ Len(q) = n + 1
    BY <1>1 DEF n
  <2> QED BY <1>3, <1>4, <2>1
<1>6. PacketTypeOK'
  <2>1. /\ \A p \in Publishers : inbox'[p] \in Seq(PublisherPackets(Ids))
        /\ \A s \in Subscribers : inbox'[s] \in Seq(SubscriberPackets(Ids))
        /\ \A o \in Observers : inbox'[o] = <<>>
    BY <1>1, <1>2, <1>3, <1>4, Given DEF PacketTypeOK
  <2> QED BY <1>2, <2>1 DEF PacketTypeOK, Ids
<1>7. ASSUME NEW key \in Keys(c)
      PROVE  /\ Orderly(Saying(inbox'[c], key), Holds(c, key)')
             /\ \A k \in 1 .. n + 1 : ToldIn(c, key, k)' = ToldIn(c, key, k + 1)
  <2> DEFINE u == Saying(q, key)
             v == Saying(Tail(q), key)
             start == Holds(c, key)
             held == IF u[1] # Silent THEN u[1] ELSE start
  <2>1. /\ DOMAIN u = 1 .. n + 1 /\ DOMAIN v = 1 .. n
        /\ \A k \in 1 .. n + 1 : u[k] = Says(q[k], key)
        /\ \A k \in 1 .. n : v[k] = Says(Tail(q)[k], key)
    <3>1. Len(q) \in Nat /\ Len(Tail(q)) \in Nat
      BY <1>5
    <3>2. DOMAIN u = 1 .. Len(q) /\ \A k \in 1 .. Len(q) : u[k] = Says(q[k], key)
      BY <3>1, SayingIs
    <3>3. DOMAIN v = 1 .. Len(Tail(q)) /\ \A k \in 1 .. Len(Tail(q)) : v[k] = Says(Tail(q)[k], key)
      BY <3>1, SayingIs
    <3> HIDE DEF u, v
    <3> QED BY <1>5, <3>2, <3>3
  <2>2. \A k \in 1 .. n : v[k] = u[k + 1]
    <3>1. \A k \in 1 .. n : k + 1 \in 1 .. n + 1
      BY <1>5
    <3> HIDE DEF u, v
    <3> QED BY <1>5, <2>1, <3>1
  <2>3. Orderly(u, start)
    BY <1>1 DEF LedgerInv, q
  <2>4. Holds(c, key)' = held
    <3>1. Head(inbox[c]) = q[1] /\ 1 \in 1 .. n + 1
      BY <1>1, <1>5, FirstPacket DEF q
    <3>2. u[1] = Says(q[1], key)
      BY <2>1, <3>1
    <3> QED BY <3>1, <3>2
  <2> HIDE DEF u, v, start
  <2>5. /\ \A k \in 1 .. n + 1 : Told(v, held, k) = Told(u, start, k + 1)
        /\ Orderly(u, start) => Orderly(v, held)
    BY <1>5, <2>1, <2>2, Reading
  <2> HIDE DEF held
  <2>6. Orderly(Saying(inbox'[c], key), Holds(c, key)')
    BY <1>2, <2>3, <2>4, <2>5 DEF v
  <2>7. ASSUME NEW k \in 1 .. n + 1 PROVE ToldIn(c, key, k)' = ToldIn(c, key, k + 1)
    <3>1. Told(v, held, k) = Told(u, start, k + 1)
      BY <2>5
    <3>2. ToldIn(c, key, k)' = Told(v, held, k)
      BY <1>2, <2>4 DEF ToldIn, v
    <3>3. ToldIn(c, key, k + 1) = Told(u, start, k + 1)
      BY DEF ToldIn, u, start, q
    <3> QED BY <3>1, <3>2, <3>3
  <2> QED BY <2>6, <2>7
<1>8. ASSUME NEW d \in Endpoints, d # c, NEW key \in Keys(d)
      PROVE  Holds(d, key)' = Holds(d, key) /\ inbox'[d] = inbox[d]
             /\ \A k : ToldIn(d, key, k)' = ToldIn(d, key, k)
  <2>1. d \in Clients
    BY Given DEF Endpoints
  <2>2. Holds(d, key)' = Holds(d, key) /\ inbox'[d] = inbox[d]
    BY <1>2, <1>8, <2>1
  <2> QED BY <2>2 DEF ToldIn
<1>9. LedgerInv'
  <2>1. ASSUME NEW d \in Endpoints, NEW key \in Keys(d)
        PROVE  Orderly(Saying(inbox'[d], key), Holds(d, key)')
    BY <1>1, <1>7, <1>8 DEF LedgerInv
  <2> QED BY <2>1 DEF LedgerInv
<1>10. AgreeInv'
  <2>1. ASSUME NEW d \in Endpoints, NEW key PROVE Leases(d, key)' = Leases(d, key)
    <3>1. \A p \in Publishers : \A x : Lease(p, x)' = Lease(p, x)
      BY DEF Lease
    <3> QED BY <3>1 DEF Leases
  <2>2. ASSUME broker = "up", NEW d \in Endpoints, proc[d] # "dead", NEW key \in Keys(d)
        PROVE  Told(Saying(inbox'[d], key), Holds(d, key)', Len(inbox'[d]) + 1) = Leases(d, key)
    <3>1. ToldIn(d, key, Len(inbox[d]) + 1) = Leases(d, key)
      BY <1>1, <2>2 DEF AgreeInv
    <3>2. CASE d = c
      <4>1. PICK k \in 1 .. n + 1 : k = n + 1
        BY <1>5
      <4>2. Len(inbox'[c]) + 1 = k /\ Len(inbox[c]) + 1 = k + 1
        BY <1>0, <1>2, <1>5, <4>1
      <4>3. ToldIn(c, key, k)' = ToldIn(c, key, k + 1)
        BY <1>7, <2>2, <3>2
      <4>4. Told(Saying(inbox'[c], key), Holds(c, key)', k) = ToldIn(c, key, k)'
        BY DEF ToldIn
      <4> QED BY <3>1, <3>2, <4>2, <4>3, <4>4
    <3>3. CASE d # c
      BY <1>8, <2>2, <3>1, <3>3 DEF ToldIn
    <3> QED BY <3>2, <3>3
  <2>3. \A d \in Endpoints : d \in Clients
    BY Given DEF Endpoints
  <2> QED BY <2>1, <2>2, <2>3 DEF AgreeInv, ToldIn
<1>11. \A id \in Ids : granted[id].sub \in Clients
  BY Granted, Given
<1>12. NewsInv'
  <2>1. ASSUME NEW p \in Publishers, NEW k \in DOMAIN inbox'[p], NEW x, x = inbox'[p][k].slot
        PROVE  /\ inbox'[p][k].type = "SubscriberEventFdAndSlot" =>
                    \A id \in Ids : /\ granted[id].pub = p /\ granted[id].slot = x
                                    /\ id < inbox'[p][k].id
                                    => proc'[granted[id].sub] = "dead"
               /\ inbox'[p][k].type = "SubscriberDisconnected" =>
                    /\ ToldIn(p, x, k)' \in Ids
                    /\ proc'[granted[ToldIn(p, x, k)'].sub] = "dead"
    <3>1. p \in Endpoints /\ p \in Clients
      BY Given DEF Endpoints
    <3>2. inbox'[p] \in Seq(PublisherPackets(Ids'))
      BY <1>6 DEF PacketTypeOK
    <3>3. inbox'[p][k] \in PublisherPackets(Ids')
      BY <3>2, ElementOfSeq, LenProperties
    <3>4. inbox'[p][k].type = "SubscriberDisconnected" => x \in Keys(p)
      BY <2>1, <3>3, PublisherPacket DEF Keys
    <3>5. CASE p # c
      <4>1. inbox'[p] = inbox[p]
        BY <1>2, <3>1, <3>5
      <4>2. inbox'[p][k].type = "SubscriberDisconnected" => ToldIn(p, x, k)' = ToldIn(p, x, k)
        BY <1>8, <3>1, <3>4, <3>5
      <4> DEFINE m == inbox[p][k]
      <4>3. m.type = "SubscriberEventFdAndSlot" =>
              \A id \in Ids : granted[id].pub = p /\ granted[id].slot = x /\ id < m.id
                              => proc[granted[id].sub] = "dead"
        BY <1>1, <2>1, <4>1 DEF NewsInv
      <4>4. m.type = "SubscriberDisconnected" =>
              ToldIn(p, x, k) \in Ids /\ proc[granted[ToldIn(p, x, k)].sub] = "dead"
        <5>1. k \in DOMAIN inbox[p] /\ inbox[p][k].slot = x
          BY <2>1, <4>1
        <5> QED BY <1>1, <5>1 DEF NewsInv
      <4>5. inbox'[p][k] = m
        BY <4>1
      <4> HIDE DEF m
      <4> QED BY <1>11, <4>2, <4>3, <4>4, <4>5
    <3>6. CASE p = c
      <4>1. k \in 1 .. n /\ k + 1 \in DOMAIN inbox[p] /\ inbox'[p][k] = inbox[p][k + 1]
            /\ k \in 1 .. n + 1
        BY <1>0, <1>1, <1>2, <1>5, <3>6
      <4>2. inbox'[p][k].type = "SubscriberDisconnected" => ToldIn(p, x, k)' = ToldIn(p, x, k + 1)
        BY <1>7, <3>4, <3>6, <4>1
      <4> DEFINE m == inbox[p][k + 1]
      <4>3. m.type = "SubscriberEventFdAndSlot" =>
              \A id \in Ids : granted[id].pub = p /\ granted[id].slot = x /\ id < m.id
                              => proc[granted[id].sub] = "dead"
        BY <1>1, <2>1, <4>1 DEF NewsInv
      <4>4. m.type = "SubscriberDisconnected" =>
              ToldIn(p, x, k + 1) \in Ids /\ proc[granted[ToldIn(p, x, k + 1)].sub] = "dead"
        BY <1>1, <2>1, <4>1 DEF NewsInv
      <4>5. inbox'[p][k] = m
        BY <4>1
      <4> HIDE DEF m
      <4> QED BY <1>11, <4>2, <4>3, <4>4, <4>5
    <3> QED BY <3>5, <3>6
  <2>2. Ids' = Ids /\ granted' = granted
    BY DEF Ids
  <2> QED BY <2>1, <2>2 DEF NewsInv
<1>13. TenantsInv'
  BY <1>1, <1>11 DEF TenantsInv, Ids
<1>15. Len(inbox[c]) = n + 1 /\ Len(inbox[c]) - 1 = n
  BY <1>0, <1>5
<1>16. /\ Len(inbox'[c]) = Len(inbox[c]) - 1 /\ inbox'[c] = Tail(inbox[c])
       /\ DOMAIN inbox'[c] = 1 .. Len(inbox[c]) - 1
       /\ \A k \in 1 .. Len(inbox[c]) - 1 : inbox'[c][k] = inbox[c][k + 1]
       /\ inbox'[c] = <<>> <=> Len(inbox[c]) = 1
  <2>1. inbox'[c] = Tail(q) /\ inbox'[c] = Tail(inbox[c])
    BY <1>0, <1>2
  <2>2. Len(inbox'[c]) = n
    BY <1>5, <2>1
  <2>3. DOMAIN inbox'[c] = 1 .. n
    BY <1>5, <2>1
  <2>4. inbox'[c] = <<>> <=> n + 1 = 1
    BY <1>5, <2>1
  <2>5. \A k \in 1 .. n : inbox'[c][k] = inbox[c][k + 1]
    BY <1>0, <1>5, <2>1
  <2> QED BY <1>15, <2>1, <2>2, <2>3, <2>4, <2>5
<1> QED BY <1>2, <1>6, <1>9, <1>10, <1>12, <1>13, <1>16

\* A client that reads a packet stays connected, and leaves the others alone.
LEMMA ReaderStays ==
  ASSUME SocketInv, NEW c \in Endpoints, inbox[c] # <<>>, proc[c] \in {"greeting", "running"},
         NEW now \in {"greeting", "running"}, proc' = [proc EXCEPT ![c] = now],
         c \in Subscribers => now = "running", UNCHANGED <<broker, role, pending>>,
         \A d \in Clients \ {c} : inbox'[d] = inbox[d],
         \A p \in Publishers \ {c} : tracked'[p] = tracked[p] /\ awaiting'[p] = awaiting[p],
         \A s \in Subscribers \ {c} : installed'[s] = installed[s]
  PROVE  /\ ConnectionInv' /\ \A p \in Publishers \ {c} : Handshake(p)'
         /\ proc' \in [Clients -> {"off", "connected", "greeting", "running", "cutOff", "failed", "dead"}]
<1>1. /\ ConnectionInv /\ c \in Clients /\ \A p \in Publishers : Handshake(p)
      /\ proc \in [Clients -> {"off", "connected", "greeting", "running", "cutOff", "failed", "dead"}]
  BY SocketParts DEF ClientTypeOK
<1>2. /\ proc'[c] = now /\ \A d \in Clients \ {c} : proc'[d] = proc[d]
      /\ proc' \in [Clients -> {"off", "connected", "greeting", "running", "cutOff", "failed", "dead"}]
  BY <1>1
<1>3. role[c] # "none" /\ role[c] # "gone" /\ ~pending[c]
  BY <1>1 DEF ConnectionInv
<1>4. ASSUME NEW p \in Publishers \ {c} PROVE Handshake(p)'
  <2>1. proc'[p] = proc[p] /\ inbox'[p] = inbox[p] /\ awaiting'[p] = awaiting[p] /\ Handshake(p)
    BY <1>1, <1>2, Given
  <2> QED BY <2>1 DEF Handshake, Expected
<1>5. ConnectionInv'
  <2>1. ASSUME NEW d \in Clients
        PROVE  /\ proc'[d] \in {"off", "connected"} => role[d] = "none" /\ ~pending[d]
               /\ role[d] = "none" \/ proc'[d] = "dead" => inbox'[d] = <<>>
               /\ role[d] = "gone" /\ d \in Endpoints => proc'[d] = "dead"
               /\ pending[d] => role[d] = "none"
               /\ proc'[d] = "cutOff" => broker # "up"
               /\ proc'[d] # "failed"
    <3>1. CASE d # c
      BY <1>1, <1>2, <3>1 DEF ConnectionInv
    <3>2. CASE d = c
      BY <1>2, <1>3, <3>2
    <3> QED BY <3>1, <3>2
  <2>2. ASSUME NEW p \in Publishers
        PROVE  /\ role[p] = "none" \/ proc'[p] = "dead" => \A x \in Slot : tracked'[p][x] = NoId
               /\ role[p] = "none" => proc'[p] # "running" /\ awaiting'[p] = Unknown
    <3>1. CASE p # c
      <4>1. proc'[p] = proc[p] /\ tracked'[p] = tracked[p] /\ awaiting'[p] = awaiting[p]
        BY <1>2, <3>1, Given
      <4> QED BY <1>1, <4>1 DEF ConnectionInv
    <3>2. CASE p = c
      BY <1>2, <1>3, <3>2
    <3> QED BY <3>1, <3>2
  <2>3. ASSUME NEW s \in Subscribers
        PROVE  /\ proc'[s] # "greeting"
               /\ role[s] = "none" \/ proc'[s] = "dead" => installed'[s] = {}
    <3>1. CASE s # c
      <4>1. proc'[s] = proc[s] /\ installed'[s] = installed[s]
        BY <1>2, <3>1, Given
      <4> QED BY <1>1, <4>1 DEF ConnectionInv
    <3>2. CASE s = c
      BY <1>2, <1>3, <3>2
    <3> QED BY <3>1, <3>2
  <2> QED BY <1>1, <2>1, <2>2, <2>3 DEF ConnectionInv
<1> QED BY <1>2, <1>4, <1>5

\* The handshake goes on when its publisher reads a packet.
LEMMA HandshakeReads ==
  ASSUME SocketInv, NEW p \in Publishers, inbox[p] # <<>>, UNCHANGED <<broker, role>>,
         Len(inbox'[p]) = Len(inbox[p]) - 1, DOMAIN inbox'[p] = 1 .. Len(inbox[p]) - 1,
         \A k \in 1 .. Len(inbox[p]) - 1 : inbox'[p][k] = inbox[p][k + 1],
         inbox'[p] = <<>> <=> Len(inbox[p]) = 1,
         \/ /\ proc[p] = "greeting"
            /\ Expected(p) \in Nat /\ awaiting'[p] \in Nat /\ awaiting'[p] = Expected(p) - 1
            /\ proc'[p] = IF awaiting'[p] = 0 THEN "running" ELSE "greeting"
         \/ proc[p] = "running" /\ proc'[p] = "running"
  PROVE  Handshake(p)'
<1>1. /\ Len(inbox[p]) \in Nat /\ DOMAIN inbox[p] = 1 .. Len(inbox[p]) /\ Len(inbox[p]) # 0
      /\ Handshake(p)
  BY SocketParts DEF Endpoints
<1>2. \A k \in DOMAIN inbox'[p] : /\ k + 1 \in DOMAIN inbox[p] /\ k + 1 # 1 /\ k \in Nat
                                  /\ inbox'[p][k] = inbox[p][k + 1]
  BY <1>1
<1>3. \A k \in DOMAIN inbox'[p] : inbox'[p][k].type # "count"
  BY <1>1, <1>2 DEF Handshake
<1>4. CASE proc[p] = "running" /\ proc'[p] = "running"
  BY <1>3, <1>4 DEF Handshake
<1>5. CASE /\ proc[p] = "greeting"
           /\ Expected(p) \in Nat /\ awaiting'[p] \in Nat /\ awaiting'[p] = Expected(p) - 1
           /\ proc'[p] = IF awaiting'[p] = 0 THEN "running" ELSE "greeting"
  <2>1. awaiting'[p] # Unknown /\ Expected(p)' = awaiting'[p]
    BY <1>5 DEF Expected, Unknown
  <2>3. ASSUME NEW k \in DOMAIN inbox'[p], k <= awaiting'[p], proc'[p] = "greeting"
        PROVE  inbox'[p][k].type # "SubscriberDisconnected"
    <3>1. k + 1 \in DOMAIN inbox[p] /\ inbox'[p][k] = inbox[p][k + 1] /\ k \in Nat
      BY <1>2
    <3>2. k + 1 <= Expected(p)
      BY <1>5, <2>3, <3>1
    <3> QED BY <1>1, <1>5, <3>1, <3>2 DEF Handshake
  <2>4. ASSUME broker = "up", proc'[p] = "greeting", role[p] = "publisher"
        PROVE  inbox'[p] # <<>> /\ Len(inbox'[p]) >= awaiting'[p]
    <3>1. Len(inbox[p]) >= Expected(p) /\ awaiting'[p] # 0
      BY <1>1, <1>5, <2>4 DEF Handshake
    <3> QED BY <1>1, <1>5, <3>1
  <2>5. proc'[p] = "greeting" => awaiting'[p] # 0
    BY <1>5
  <2> QED BY <1>3, <2>1, <2>3, <2>4, <2>5 DEF Handshake
<1> QED BY <1>4, <1>5

LEMMA ReceiveCountStep ==
  ASSUME IInv, SocketInv, NEW p \in Publishers, ReceiveCount(p)
  PROVE  SocketInv'
<1> DEFINE m == Head(inbox[p])
<1>1. /\ proc[p] = "greeting" /\ awaiting[p] = Unknown /\ inbox[p] # <<>>
      /\ inbox' = [inbox EXCEPT ![p] = Tail(@)]
      /\ UNCHANGED <<broker, role, attach, granted, pending, tracked, installed>>
  BY DEF ReceiveCount, tables
<1>2. /\ BrokerTypeOK /\ ClientTypeOK /\ p \in Endpoints /\ p \in Clients /\ Handshake(p)
  BY SocketParts, Given DEF IInv, Endpoints
<1>3. m \in PublisherPackets(Ids) /\ 1 \in DOMAIN inbox[p] /\ m = inbox[p][1]
  BY <1>1, <1>2, FirstPacket
<1>4. m.type = "count"
  BY <1>1, <1>2, <1>3 DEF Handshake
<1>5. m.count \in 0 .. SlotCount /\ m.count \in Nat /\ \A key : Says(m, key) = Silent
  BY <1>3, <1>4, PublisherPacket
<1> DEFINE now == IF m.count = 0 THEN "running" ELSE "greeting"
<1>6. /\ awaiting' = [awaiting EXCEPT ![p] = m.count] /\ proc' = [proc EXCEPT ![p] = now]
  BY <1>4 DEF ReceiveCount
<1>7. /\ awaiting'[p] = m.count /\ \A q \in Publishers \ {p} : awaiting'[q] = awaiting[q]
      /\ awaiting' \in [Publishers -> {Unknown} \cup 0 .. SlotCount]
      /\ proc'[p] = now /\ \A d \in Clients \ {p} : proc'[d] = proc[d]
  BY <1>2, <1>5, <1>6 DEF ClientTypeOK
<1>8. /\ \A d \in Clients : proc'[d] = "dead" <=> proc[d] = "dead"
      /\ now \in {"running", "greeting"}
  BY <1>1, <1>7
<1>9. \A d \in Endpoints : \A key : Holds(d, key)' = Holds(d, key)
  BY <1>1 DEF Holds
<1>10. /\ PacketTypeOK' /\ LedgerInv' /\ AgreeInv' /\ NewsInv' /\ TenantsInv'
       /\ \A d \in Clients \ {p} : inbox'[d] = inbox[d]
       /\ Len(inbox'[p]) = Len(inbox[p]) - 1 /\ DOMAIN inbox'[p] = 1 .. Len(inbox[p]) - 1
       /\ \A k \in 1 .. Len(inbox[p]) - 1 : inbox'[p][k] = inbox[p][k + 1]
       /\ inbox'[p] = <<>> <=> Len(inbox[p]) = 1
  <2> HIDE DEF m
  <2>1. \A key \in Keys(p) : Holds(p, key)' = IF Says(m, key) # Silent THEN Says(m, key) ELSE Holds(p, key)
    BY <1>2, <1>5, <1>9
  <2>2. \A d \in Endpoints \ {p} : \A key \in Keys(d) : Holds(d, key)' = Holds(d, key)
    BY <1>9
  <2> QED BY <1>1, <1>2, <1>8, <2>1, <2>2, OneReads DEF m
<1>11. /\ ConnectionInv' /\ \A q \in Publishers \ {p} : Handshake(q)'
       /\ proc' \in [Clients -> {"off", "connected", "greeting", "running", "cutOff", "failed", "dead"}]
  <2> HIDE DEF m, now
  <2>1. p \in Subscribers => now = "running"
    BY Given
  <2>2. \A q \in Publishers \ {p} : tracked'[q] = tracked[q] /\ awaiting'[q] = awaiting[q]
    BY <1>1, <1>7
  <2>3. \A s \in Subscribers \ {p} : installed'[s] = installed[s]
    BY <1>1
  <2> QED BY <1>1, <1>2, <1>6, <1>8, <1>10, <2>1, <2>2, <2>3, ReaderStays
<1>12. Handshake(p)'
  <2>1. Expected(p) \in Nat /\ awaiting'[p] \in Nat /\ awaiting'[p] = Expected(p) - 1
    BY <1>1, <1>3, <1>5, <1>7 DEF Expected
  <2> QED BY <1>1, <1>7, <1>10, <2>1, HandshakeReads
<1>13. ClientTypeOK'
  BY <1>1, <1>2, <1>7, <1>10, <1>11 DEF ClientTypeOK, Ids
<1> QED BY <1>10, <1>11, <1>12, <1>13 DEF SocketInv, HandshakeInv

LEMMA ReceiveInitialRegistrationStep ==
  ASSUME IInv, SocketInv, NEW p \in Publishers, ReceiveInitialRegistration(p)
  PROVE  SocketInv'
<1> DEFINE m == Head(inbox[p])
<1>1. /\ proc[p] = "greeting" /\ awaiting[p] > 0 /\ inbox[p] # <<>>
      /\ inbox' = [inbox EXCEPT ![p] = Tail(@)]
      /\ UNCHANGED <<broker, role, attach, granted, pending, installed>>
  BY DEF ReceiveInitialRegistration, tables
<1>2. /\ BrokerTypeOK /\ ClientTypeOK /\ p \in Endpoints /\ p \in Clients /\ Handshake(p)
  BY SocketParts, Given DEF IInv, Endpoints
<1>3. m \in PublisherPackets(Ids) /\ 1 \in DOMAIN inbox[p] /\ m = inbox[p][1]
  BY <1>1, <1>2, FirstPacket
<1>4. /\ awaiting[p] \in Nat /\ awaiting[p] # 0 /\ awaiting[p] # Unknown
      /\ awaiting[p] \in 0 .. SlotCount /\ Expected(p) = awaiting[p]
  BY <1>1, <1>2, Given DEF ClientTypeOK, Unknown, Expected
<1>5. m.type = "SubscriberEventFdAndSlot"
  <2>1. m.type # "count"
    BY <1>2, <1>3, <1>4 DEF Handshake
  <2>2. m.type # "SubscriberDisconnected"
    BY <1>1, <1>2, <1>3, <1>4 DEF Handshake
  <2> QED BY <1>3, <2>1, <2>2, PublisherPacket
<1>6. /\ m.slot \in Slot /\ m.id \in Ids /\ m.id # NoId /\ m.id # Silent /\ m.slot \in Keys(p)
      /\ \A key : Says(m, key) = IF m.slot = key THEN m.id ELSE Silent
  <2>1. /\ m.slot \in Slot /\ m.id \in Ids
        /\ \A key : Says(m, key) = IF m.slot = key THEN m.id ELSE Silent
    BY <1>3, <1>5, PublisherPacket
  <2>2. \A id \in Ids : id # NoId /\ id # Silent
    BY <1>2, Granted DEF NoId, Silent
  <2> QED BY <2>1, <2>2 DEF Keys
<1>7. CanTrack(p, m.slot)
  <2> HIDE DEF m
  <2>1. Says(m, m.slot) = m.id
    BY <1>6
  <2>2. Holds(p, m.slot) = NoId
    BY <1>1, <1>2, <1>6, <2>1, FirstPacket DEF m
  <2> QED BY <2>2 DEF Holds, CanTrack
<1> DEFINE now == IF awaiting[p] = 1 THEN "running" ELSE "greeting"
<1>8. /\ tracked' = [tracked EXCEPT ![p][m.slot] = m.id]
      /\ awaiting' = [awaiting EXCEPT ![p] = awaiting[p] - 1]
      /\ proc' = [proc EXCEPT ![p] = now]
  BY <1>5, <1>7 DEF ReceiveInitialRegistration
<1>9. /\ awaiting'[p] = awaiting[p] - 1 /\ \A q \in Publishers \ {p} : awaiting'[q] = awaiting[q]
      /\ awaiting' \in [Publishers -> {Unknown} \cup 0 .. SlotCount]
      /\ proc'[p] = now /\ \A d \in Clients \ {p} : proc'[d] = proc[d]
      /\ \A q \in Publishers \ {p} : tracked'[q] = tracked[q]
      /\ \A x \in Slot : tracked'[p][x] = IF x = m.slot THEN m.id ELSE tracked[p][x]
      /\ tracked' \in [Publishers -> [Slot -> {NoId} \cup Ids]]
  <2> HIDE DEF m
  <2> QED BY <1>2, <1>4, <1>6, <1>8, Given DEF ClientTypeOK
<1>10. /\ \A d \in Clients : proc'[d] = "dead" <=> proc[d] = "dead"
       /\ now \in {"running", "greeting"}
  BY <1>1, <1>9
<1>11. /\ PacketTypeOK' /\ LedgerInv' /\ AgreeInv' /\ NewsInv' /\ TenantsInv'
       /\ \A d \in Clients \ {p} : inbox'[d] = inbox[d]
       /\ Len(inbox'[p]) = Len(inbox[p]) - 1 /\ DOMAIN inbox'[p] = 1 .. Len(inbox[p]) - 1
       /\ \A k \in 1 .. Len(inbox[p]) - 1 : inbox'[p][k] = inbox[p][k + 1]
       /\ inbox'[p] = <<>> <=> Len(inbox[p]) = 1
  <2> HIDE DEF m
  <2>1. \A key \in Keys(p) : Holds(p, key)' = IF Says(m, key) # Silent THEN Says(m, key) ELSE Holds(p, key)
    BY <1>2, <1>6, <1>9 DEF Holds, Keys
  <2>2. \A d \in Endpoints \ {p} : \A key \in Keys(d) : Holds(d, key)' = Holds(d, key)
    BY <1>1, <1>9 DEF Holds
  <2> QED BY <1>1, <1>2, <1>10, <2>1, <2>2, OneReads DEF m
<1>12. /\ ConnectionInv' /\ \A q \in Publishers \ {p} : Handshake(q)'
       /\ proc' \in [Clients -> {"off", "connected", "greeting", "running", "cutOff", "failed", "dead"}]
  <2> HIDE DEF m, now
  <2>1. p \in Subscribers => now = "running"
    BY Given
  <2>2. \A q \in Publishers \ {p} : tracked'[q] = tracked[q] /\ awaiting'[q] = awaiting[q]
    BY <1>9
  <2>3. \A s \in Subscribers \ {p} : installed'[s] = installed[s]
    BY <1>1
  <2> QED BY <1>1, <1>2, <1>8, <1>10, <1>11, <2>1, <2>2, <2>3, ReaderStays
<1>13. Handshake(p)'
  <2>1. Expected(p) \in Nat /\ awaiting'[p] \in Nat /\ awaiting'[p] = Expected(p) - 1
    BY <1>4, <1>9
  <2>2. proc'[p] = IF awaiting'[p] = 0 THEN "running" ELSE "greeting"
    BY <1>4, <1>9
  <2> QED BY <1>1, <1>11, <2>1, <2>2, HandshakeReads
<1>14. ClientTypeOK'
  BY <1>1, <1>2, <1>9, <1>11, <1>12 DEF ClientTypeOK, Ids
<1> QED BY <1>11, <1>12, <1>13, <1>14 DEF SocketInv, HandshakeInv

LEMMA PublisherReceiveStep ==
  ASSUME IInv, SocketInv, NEW p \in Publishers, PublisherReceive(p)
  PROVE  SocketInv'
<1> DEFINE m == Head(inbox[p])
           tracks == m.type = "SubscriberEventFdAndSlot" /\ CanTrack(p, m.slot)
           reaps == m.type = "SubscriberDisconnected" /\ tracked[p][m.slot] # NoId
           id == IF m.type = "SubscriberEventFdAndSlot" THEN m.id ELSE NoId
<1>1. /\ proc[p] = "running" /\ inbox[p] # <<>>
      /\ inbox' = [inbox EXCEPT ![p] = Tail(@)]
      /\ UNCHANGED <<broker, role, attach, granted, pending, awaiting, installed>>
  BY DEF PublisherReceive, tables
<1>2. /\ BrokerTypeOK /\ ClientTypeOK /\ p \in Endpoints /\ p \in Clients /\ Handshake(p)
  BY SocketParts, Given DEF IInv, Endpoints
<1>3. m \in PublisherPackets(Ids) /\ 1 \in DOMAIN inbox[p] /\ m = inbox[p][1]
  BY <1>1, <1>2, FirstPacket
<1>4. m.type # "count"
  BY <1>1, <1>2, <1>3 DEF Handshake
<1>5. /\ m.slot \in Slot /\ id \in {NoId} \cup Ids /\ id # Silent /\ m.slot \in Keys(p)
      /\ \A key : Says(m, key) = IF m.slot = key THEN id ELSE Silent
      /\ m.type \in {"SubscriberEventFdAndSlot", "SubscriberDisconnected"}
      /\ m.type = "SubscriberEventFdAndSlot" <=> id # NoId
  <2>1. \A i \in Ids : i # NoId /\ i # Silent
    BY <1>2, Granted DEF NoId, Silent
  <2>2. NoId # Silent
    BY DEF NoId, Silent
  <2>3. m.slot \in Slot => m.slot \in Keys(p)
    BY DEF Keys
  <2> HIDE DEF m
  <2> QED BY <1>3, <1>4, <2>1, <2>2, <2>3, PublisherPacket
<1>6. id = NoId <=> tracked[p][m.slot] # NoId
  <2> HIDE DEF m, id
  <2>1. Says(m, m.slot) = id
    BY <1>5
  <2>2. id = NoId <=> Holds(p, m.slot) # NoId
    BY <1>1, <1>2, <1>5, <2>1, FirstPacket DEF m
  <2> QED BY <2>2 DEF Holds
<1>7. /\ tracked' = [tracked EXCEPT ![p][m.slot] = id]
      /\ proc' = [proc EXCEPT ![p] = "running"]
  <2>1. /\ tracked' = CASE tracks -> [tracked EXCEPT ![p][m.slot] = m.id]
                        [] reaps  -> [tracked EXCEPT ![p][m.slot] = NoId]
                        [] OTHER  -> tracked
        /\ proc' = [proc EXCEPT ![p] = IF tracks \/ reaps THEN "running" ELSE "failed"]
    BY DEF PublisherReceive
  <2> HIDE DEF m
  <2>2. CASE m.type = "SubscriberEventFdAndSlot"
    <3>1. tracks /\ ~reaps /\ id = m.id
      BY <1>5, <1>6, <2>2 DEF CanTrack
    <3> HIDE DEF tracks, reaps
    <3> QED BY <2>1, <3>1
  <2>3. CASE m.type = "SubscriberDisconnected"
    <3>1. ~tracks /\ reaps /\ id = NoId
      BY <1>5, <1>6, <2>3 DEF CanTrack
    <3> HIDE DEF tracks, reaps
    <3> QED BY <2>1, <3>1
  <2> QED BY <1>5, <2>2, <2>3
<1>8. /\ proc'[p] = "running" /\ \A d \in Clients \ {p} : proc'[d] = proc[d]
      /\ \A q \in Publishers \ {p} : tracked'[q] = tracked[q]
      /\ \A x \in Slot : tracked'[p][x] = IF x = m.slot THEN id ELSE tracked[p][x]
      /\ tracked' \in [Publishers -> [Slot -> {NoId} \cup Ids]]
  <2> HIDE DEF m, id
  <2> QED BY <1>2, <1>5, <1>7 DEF ClientTypeOK
<1>9. \A d \in Clients : proc'[d] = "dead" <=> proc[d] = "dead"
  BY <1>1, <1>8
<1>10. /\ PacketTypeOK' /\ LedgerInv' /\ AgreeInv' /\ NewsInv' /\ TenantsInv'
       /\ \A d \in Clients \ {p} : inbox'[d] = inbox[d]
       /\ Len(inbox'[p]) = Len(inbox[p]) - 1 /\ DOMAIN inbox'[p] = 1 .. Len(inbox[p]) - 1
       /\ \A k \in 1 .. Len(inbox[p]) - 1 : inbox'[p][k] = inbox[p][k + 1]
       /\ inbox'[p] = <<>> <=> Len(inbox[p]) = 1
  <2> HIDE DEF m, id
  <2>1. \A key \in Keys(p) : Holds(p, key)' = IF Says(m, key) # Silent THEN Says(m, key) ELSE Holds(p, key)
    BY <1>2, <1>5, <1>8 DEF Holds, Keys
  <2>2. \A d \in Endpoints \ {p} : \A key \in Keys(d) : Holds(d, key)' = Holds(d, key)
    BY <1>1, <1>8 DEF Holds
  <2> QED BY <1>1, <1>2, <1>9, <2>1, <2>2, OneReads DEF m
<1>11. /\ ConnectionInv' /\ \A q \in Publishers \ {p} : Handshake(q)'
       /\ proc' \in [Clients -> {"off", "connected", "greeting", "running", "cutOff", "failed", "dead"}]
  <2>1. "running" \in {"greeting", "running"}
    OBVIOUS
  <2>2. \A q \in Publishers \ {p} : tracked'[q] = tracked[q] /\ awaiting'[q] = awaiting[q]
    BY <1>1, <1>8
  <2>3. \A s \in Subscribers \ {p} : installed'[s] = installed[s]
    BY <1>1
  <2> QED BY <1>1, <1>2, <1>7, <1>9, <1>10, <2>1, <2>2, <2>3, ReaderStays
<1>12. Handshake(p)'
  BY <1>1, <1>8, <1>10, HandshakeReads
<1>13. ClientTypeOK'
  BY <1>1, <1>2, <1>8, <1>10, <1>11 DEF ClientTypeOK, Ids
<1> QED BY <1>10, <1>11, <1>12, <1>13 DEF SocketInv, HandshakeInv

LEMMA SubscriberReceiveStep ==
  ASSUME IInv, SocketInv, NEW s \in Subscribers, SubscriberReceive(s)
  PROVE  SocketInv'
<1> DEFINE m == Head(inbox[s])
           installs == /\ m.type = "SubscriberAttachmentBatch"
                       /\ Range(m.ids) \cap installed[s] = {}
           drops == m.type = "PublisherDisconnected" /\ m.id \in installed[s]
<1>1. /\ proc[s] = "running" /\ inbox[s] # <<>>
      /\ inbox' = [inbox EXCEPT ![s] = Tail(@)]
      /\ UNCHANGED <<broker, role, attach, granted, pending, awaiting, tracked>>
      /\ installed' = CASE installs -> [installed EXCEPT ![s] = installed[s] \cup Range(m.ids)]
                        [] drops    -> [installed EXCEPT ![s] = installed[s] \ {m.id}]
                        [] OTHER    -> installed
      /\ proc' = [proc EXCEPT ![s] = IF installs \/ drops THEN "running" ELSE "failed"]
  BY DEF SubscriberReceive, tables
<1>2. /\ BrokerTypeOK /\ ClientTypeOK /\ s \in Endpoints /\ s \in Clients /\ s \notin Publishers
      /\ \A p \in Publishers : Handshake(p)
  BY SocketParts, Given DEF IInv, Endpoints
<1>3. m \in SubscriberPackets(Ids)
  BY <1>1, <1>2, FirstPacket
<1>4. /\ \A id \in Ids : id # NoId /\ id # Silent /\ id \in Nat \ {0}
      /\ NoId # Silent /\ Keys(s) = Nat \ {0}
      /\ installed \in [Subscribers -> SUBSET Ids] /\ installed[s] \subseteq Ids
  BY <1>2, Granted DEF NoId, Silent, Keys, ClientTypeOK
<1>5. \A key \in Keys(s) : Says(m, key) # Silent => (Says(m, key) = NoId <=> key \in installed[s])
  <2>1. \A key \in Keys(s) : Holds(s, key) # NoId <=> key \in installed[s]
    BY <1>2, <1>4 DEF Holds, NoId
  <2> QED BY <1>1, <1>2, <2>1, FirstPacket
<1> HIDE DEF m
<1>6. /\ proc' = [proc EXCEPT ![s] = "running"]
      /\ installed' \in [Subscribers -> SUBSET Ids]
      /\ \A r \in Subscribers \ {s} : installed'[r] = installed[r]
      /\ \A key \in Keys(s) : Holds(s, key)' = IF Says(m, key) # Silent THEN Says(m, key) ELSE Holds(s, key)
  <2>1. CASE m.type = "SubscriberAttachmentBatch"
    <3>1. m.ids \in Seq(Ids) /\ \A key : Says(m, key) = IF key \in Range(m.ids) THEN key ELSE Silent
      BY <1>3, <2>1, SubscriberPacket
    <3>2. Range(m.ids) \subseteq Ids
      BY <3>1, RangeOfSeq
    <3>3. installs
      <4>1. ASSUME NEW key \in Range(m.ids) PROVE key \notin installed[s]
        <5>1. key \in Keys(s) /\ Says(m, key) = key /\ key # Silent /\ key # NoId
          BY <1>4, <3>1, <3>2
        <5> QED BY <1>5, <5>1
      <4> QED BY <2>1, <4>1
    <3>7. ~drops
      BY <2>1
    <3> HIDE DEF installs, drops
    <3>4. /\ proc' = [proc EXCEPT ![s] = "running"]
          /\ installed' = [installed EXCEPT ![s] = installed[s] \cup Range(m.ids)]
      BY <1>1, <3>3, <3>7
    <3>5. /\ installed' \in [Subscribers -> SUBSET Ids]
          /\ \A r \in Subscribers \ {s} : installed'[r] = installed[r]
          /\ installed'[s] = installed[s] \cup Range(m.ids)
      BY <1>4, <3>2, <3>4
    <3>6. ASSUME NEW key \in Keys(s)
          PROVE  Holds(s, key)' = IF Says(m, key) # Silent THEN Says(m, key) ELSE Holds(s, key)
      <4>1. key # Silent
        BY <1>4 DEF Silent
      <4> QED BY <1>2, <3>1, <3>5, <4>1 DEF Holds
    <3> QED BY <3>4, <3>5, <3>6
  <2>2. CASE m.type = "PublisherDisconnected"
    <3>1. m.id \in Ids /\ \A key : Says(m, key) = IF m.id = key THEN NoId ELSE Silent
      BY <1>3, <2>2, SubscriberPacket
    <3>2. drops /\ ~installs
      <4>1. m.id \in Keys(s) /\ Says(m, m.id) = NoId
        BY <1>4, <3>1
      <4> QED BY <1>4, <1>5, <2>2, <4>1
    <3> HIDE DEF installs, drops
    <3>3. /\ proc' = [proc EXCEPT ![s] = "running"]
          /\ installed' = [installed EXCEPT ![s] = installed[s] \ {m.id}]
      BY <1>1, <3>2
    <3>4. /\ installed' \in [Subscribers -> SUBSET Ids]
          /\ \A r \in Subscribers \ {s} : installed'[r] = installed[r]
          /\ installed'[s] = installed[s] \ {m.id}
      BY <1>4, <3>3
    <3>5. ASSUME NEW key \in Keys(s)
          PROVE  Holds(s, key)' = IF Says(m, key) # Silent THEN Says(m, key) ELSE Holds(s, key)
      BY <1>2, <1>4, <3>1, <3>4 DEF Holds
    <3> QED BY <3>3, <3>4, <3>5
  <2> QED BY <1>3, <2>1, <2>2, SubscriberPacket
<1>7. /\ proc'[s] = "running" /\ \A d \in Clients \ {s} : proc'[d] = proc[d]
      /\ \A d \in Clients : proc'[d] = "dead" <=> proc[d] = "dead"
  BY <1>1, <1>2, <1>6 DEF ClientTypeOK
<1>8. /\ PacketTypeOK' /\ LedgerInv' /\ AgreeInv' /\ NewsInv' /\ TenantsInv'
      /\ \A d \in Clients \ {s} : inbox'[d] = inbox[d]
  <2>1. \A d \in Endpoints \ {s} : \A key \in Keys(d) : Holds(d, key)' = Holds(d, key)
    BY <1>1, <1>6 DEF Holds, Endpoints
  <2> QED BY <1>1, <1>2, <1>6, <1>7, <2>1, OneReads DEF m
<1>9. /\ ConnectionInv' /\ \A q \in Publishers \ {s} : Handshake(q)'
      /\ proc' \in [Clients -> {"off", "connected", "greeting", "running", "cutOff", "failed", "dead"}]
  <2>1. "running" \in {"greeting", "running"} /\ proc[s] \in {"greeting", "running"}
    BY <1>1
  <2>2. \A q \in Publishers \ {s} : tracked'[q] = tracked[q] /\ awaiting'[q] = awaiting[q]
    BY <1>1
  <2> QED BY <1>1, <1>2, <1>6, <1>8, <2>1, <2>2, ReaderStays
<1>10. ClientTypeOK'
  BY <1>1, <1>2, <1>6, <1>8, <1>9 DEF ClientTypeOK, Ids
<1> QED BY <1>2, <1>8, <1>9, <1>10 DEF SocketInv, HandshakeInv

-----------------------------------------------------------------------------
(* Connections end *)

\* id leases slot x of p.
Has(p, x, id) == \E s \in Subscribers : /\ id \in Range(attach[s])
                                        /\ granted[id].pub = p /\ granted[id].slot = x

\* At most one does, before a handler and after it.
LEMMA LeaseOf ==
  ASSUME IInv, broker = "up", NEW p \in Publishers, NEW x \in Slot
  PROVE  /\ \A id : Has(p, x, id) => Lease(p, x) = id /\ id \in Ids /\ id # NoId
         /\ Lease(p, x) = NoId \/ Has(p, x, Lease(p, x))
<1>1. SlotsInv /\ BrokerTypeOK
  BY DEF IInv, TablesInv
<1>2. /\ \A id : Has(p, x, id) => Lease(p, x) = id
      /\ Lease(p, x) = NoId \/ Has(p, x, Lease(p, x))
  BY <1>1, LeaseIs DEF Has
<1>3. \A id : Has(p, x, id) => id \in Ids
  BY <1>1, Granted DEF Has
<1>4. NoId \notin Ids
  BY <1>1, Granted DEF NoId
<1> QED BY <1>2, <1>3, <1>4

LEMMA LeaseAfter ==
  ASSUME IInv', broker' = "up", NEW p \in Publishers, NEW x \in Slot
  PROVE  /\ \A id : Has(p, x, id)' => Lease(p, x)' = id
         /\ Lease(p, x)' = NoId \/ \E id : Has(p, x, id)' /\ Lease(p, x)' = id
<1> DEFINE leased == {id \in UNION {Range(attach'[s]) : s \in Subscribers} :
                        granted'[id].pub = p /\ granted'[id].slot = x}
<1>1. SlotsInv'
  BY DEF IInv, TablesInv
<1>2. Lease(p, x)' = IF leased = {} THEN NoId ELSE CHOOSE id \in leased : TRUE
  BY DEF Lease
<1>3. \A id : id \in leased <=> Has(p, x, id)'
  BY DEF Has
<1>4. \A i, j \in leased : i = j
  <2>1. \A i \in leased : \E s \in Subscribers : /\ i \in Range(attach'[s])
                                                 /\ granted'[i].pub = p /\ granted'[i].slot = x
    OBVIOUS
  <2> HIDE DEF leased
  <2> QED BY <1>1, <2>1 DEF SlotsInv
<1> HIDE DEF leased
<1>5. leased # {} => Lease(p, x)' \in leased
  BY <1>2
<1>6. leased = {} => Lease(p, x)' = NoId
  BY <1>2
<1> QED BY <1>3, <1>4, <1>5, <1>6

\* The packets of the handlers.
LEMMA LeftPacket ==
  ASSUME NEW I, NEW p \in Publishers, NEW x \in Slot
  PROVE  /\ Left(p, x) \in Packets(I) /\ Left(p, x).to = p
         /\ Left(p, x).type = "SubscriberDisconnected" /\ Left(p, x).slot = x
         /\ \A key : Says(Left(p, x), key) = IF x = key THEN NoId ELSE Silent
<1> DEFINE m == Left(p, x)
<1>1. m \in PublisherPackets(I) /\ m.to = p /\ m.type = "SubscriberDisconnected" /\ m.slot = x
  BY DEF Left, PublisherPackets
<1> HIDE DEF m
<1>2. \A key : Says(m, key) = IF x = key THEN NoId ELSE Silent
  BY <1>1 DEF Says
<1> QED BY <1>1, <1>2 DEF m, Packets

LEMMA GonePacket ==
  ASSUME NEW I, NEW s \in Subscribers, NEW id \in I
  PROVE  /\ Gone(s, id) \in Packets(I) /\ Gone(s, id).to = s
         /\ Gone(s, id).type = "PublisherDisconnected"
         /\ \A key : Says(Gone(s, id), key) = IF id = key THEN NoId ELSE Silent
<1> DEFINE m == Gone(s, id)
<1>1. m \in SubscriberPackets(I) /\ m.to = s /\ m.type = "PublisherDisconnected" /\ m.id = id
  BY DEF Gone, SubscriberPackets
<1> HIDE DEF m
<1>2. \A key : Says(m, key) = IF id = key THEN NoId ELSE Silent
  BY <1>1 DEF Says
<1> QED BY <1>1, <1>2 DEF m, Packets

LEMMA SubscriberEndSocketStep ==
  ASSUME IInv, IInv', SocketInv, NEW s \in Subscribers, HandleSubscriberEnd(s)
  PROVE  SocketInv'
<1> DEFINE ids == attach[s]
           sends == LeftPackets(s)
<1>1. /\ broker = "up" /\ role[s] = "subscriber" /\ proc[s] = "dead" /\ ~pending[s]
      /\ role' = [role EXCEPT ![s] = "gone"]
      /\ attach' = [attach EXCEPT ![s] = <<>>]
      /\ Post(sends)
      /\ broker' = "up" => AllSent(sends)
      /\ UNCHANGED <<granted, pending, proc, awaiting, tracked, installed>>
  <2>1. broker' = CASE \/ \E id \in Range(attach[s]) : role[granted[id].pub] # "publisher"
                       \/ \E t \in Range(TopicsOf[s]) : s \notin Range(topicSubs[t]) -> "inconsistent"
                    [] ~AllSent(sends) -> "disconnectSend"
                    [] OTHER -> "up"
    BY DEF HandleSubscriberEnd
  <2>2. broker' = "up" => AllSent(sends)
    BY <2>1
  <2> QED BY <2>2 DEF HandleSubscriberEnd, Ended, clients
<1>2. /\ BrokerTypeOK /\ AttachmentsInv /\ BrokerTypeOK'
      /\ ConnectionInv /\ ClientTypeOK /\ TenantsInv
  BY <1>1, SocketParts DEF IInv, TablesInv
<1>3. /\ \A r \in Subscribers \ {s} : attach'[r] = attach[r]
      /\ Range(attach'[s]) = {}
      /\ \A c \in Clients \ {s} : role'[c] = role[c]
      /\ role'[s] = "gone" /\ s \in Clients /\ s \notin Publishers
      /\ \A p \in Publishers : role'[p] = role[p]
      /\ Ids' = Ids
  <2>1. Range(<<>>) = {}
    BY DEF Range
  <2> QED BY <1>1, <1>2, <2>1, Given DEF BrokerTypeOK, Ids
<1>4. /\ ids \in Seq(Ids) /\ DOMAIN ids = 1 .. Len(ids) /\ Len(ids) \in Nat /\ IsInjective(ids)
      /\ Range(ids) = {ids[k] : k \in 1 .. Len(ids)}
  <2>1. ids \in Seq(Ids) /\ IsInjective(ids)
    BY <1>2, Granted DEF AttachmentsInv
  <2> QED BY <2>1, LenProperties DEF Range
<1>5. ASSUME NEW k \in 1 .. Len(ids)
      PROVE  /\ ids[k] \in Ids /\ granted[ids[k]].pub \in Publishers /\ granted[ids[k]].slot \in Slot
             /\ granted[ids[k]].sub = s /\ role[granted[ids[k]].pub] = "publisher"
             /\ Has(granted[ids[k]].pub, granted[ids[k]].slot, ids[k])
  <2>1. ids[k] \in Range(ids) /\ ids[k] \in Ids
    BY <1>4, ElementOfSeq
  <2>2. granted[ids[k]].pub \in Publishers /\ granted[ids[k]].slot \in Slot
    BY <1>2, <2>1, Granted
  <2>3. granted[ids[k]].sub = s /\ role[granted[ids[k]].pub] = "publisher"
    BY <1>2, <2>1 DEF AttachmentsInv, Match
  <2> QED BY <2>1, <2>2, <2>3 DEF Has
<1>6. /\ sends = [k \in 1 .. Len(ids) |-> Left(granted[ids[k]].pub, granted[ids[k]].slot)]
      /\ DOMAIN sends = 1 .. Len(ids)
  BY DEF LeftPackets
<1> HIDE DEF ids, sends
<1>7. ASSUME NEW k \in 1 .. Len(ids)
      PROVE  /\ sends[k] \in Packets(Ids') /\ sends[k].to = granted[ids[k]].pub
             /\ sends[k].type = "SubscriberDisconnected" /\ sends[k].slot = granted[ids[k]].slot
             /\ \A key : Says(sends[k], key) = IF granted[ids[k]].slot = key THEN NoId ELSE Silent
  <2>1. sends[k] = Left(granted[ids[k]].pub, granted[ids[k]].slot)
    BY <1>6
  <2>2. PICK p \in Publishers, x \in Slot : p = granted[ids[k]].pub /\ x = granted[ids[k]].slot
    BY <1>5
  <2>3. sends[k] = Left(p, x)
    BY <2>1, <2>2
  <2> QED BY <2>2, <2>3, LeftPacket, SMTT(60)
<1>8. \A p \in Publishers, x \in Slot : \A id : Has(p, x, id)' <=> Has(p, x, id) /\ id \notin Range(ids)
  <2>1. ASSUME NEW p \in Publishers, NEW x \in Slot, NEW id, Has(p, x, id)'
        PROVE  Has(p, x, id) /\ id \notin Range(ids)
    <3>1. PICK r \in Subscribers : id \in Range(attach'[r]) /\ granted[id].pub = p /\ granted[id].slot = x
      BY <1>1, <2>1 DEF Has
    <3>2. r # s /\ id \in Range(attach[r])
      BY <1>3, <3>1
    <3>3. granted[id].sub = r
      BY <1>2, <3>2, Granted DEF AttachmentsInv
    <3> QED BY <1>4, <1>5, <3>1, <3>2, <3>3 DEF Has
  <2>2. ASSUME NEW p \in Publishers, NEW x \in Slot, NEW id, Has(p, x, id), id \notin Range(ids)
        PROVE  Has(p, x, id)'
    <3>1. PICK r \in Subscribers : id \in Range(attach[r]) /\ granted[id].pub = p /\ granted[id].slot = x
      BY <2>2 DEF Has
    <3>2. r # s
      BY <2>2, <3>1 DEF ids
    <3> QED BY <1>1, <1>3, <3>1, <3>2 DEF Has
  <2> QED BY <2>1, <2>2
<1>9. ASSUME NEW c \in Endpoints, proc[c] # "dead", NEW key \in Keys(c)
      PROVE  Turns(sends, c, key)
  <2> DEFINE about == {i \in DOMAIN sends : sends[i].to = c /\ Says(sends[i], key) # Silent}
  <2>1. CASE c \in Publishers
    <3>1. /\ key \in Slot /\ Leases(c, key) = Lease(c, key) /\ Leases(c, key)' = Lease(c, key)'
      BY <2>1 DEF Keys, Leases
    <3>2. \A i : i \in about <=> /\ i \in 1 .. Len(ids) /\ granted[ids[i]].pub = c
                                 /\ granted[ids[i]].slot = key
      <4>1. NoId # Silent
        BY DEF NoId, Silent
      <4>2. \A i \in DOMAIN sends : Says(sends[i], key) # Silent <=> granted[ids[i]].slot = key
        BY <1>6, <1>7, <4>1
      <4> QED BY <1>6, <1>7, <4>2
    <3> HIDE DEF about
    <3>3. ASSUME NEW i \in about, NEW j \in about PROVE i = j
      <4>1. ids[i] \in Range(ids) /\ ids[j] \in Range(ids) /\ granted[ids[i]].pub = granted[ids[j]].pub
        BY <1>4, <3>2
      <4>2. ids[i] = ids[j]
        BY <1>2, <4>1 DEF AttachmentsInv, ids
      <4> QED BY <1>4, <3>2, <4>2 DEF IsInjective
    <3>4. ASSUME NEW i \in about
          PROVE  /\ Says(sends[i], key) = NoId /\ Lease(c, key) = ids[i] /\ ids[i] # NoId
                 /\ ids[i] \in Range(ids)
      <4>1. i \in 1 .. Len(ids) /\ granted[ids[i]].pub = c /\ granted[ids[i]].slot = key
        BY <3>2
      <4>2. Has(c, key, ids[i]) /\ ids[i] \in Range(ids) /\ Says(sends[i], key) = NoId
        BY <1>4, <1>5, <1>7, <4>1
      <4>3. Lease(c, key) = ids[i] /\ ids[i] # NoId
        BY <1>1, <2>1, <3>1, <4>2, LeaseOf
      <4> QED BY <4>2, <4>3
    <3>5. ASSUME broker' = "up", NEW i \in about PROVE Lease(c, key)' = NoId
      <4>1. ASSUME NEW id, Has(c, key, id)' PROVE FALSE
        <5>1. Has(c, key, id) /\ id \notin Range(ids)
          BY <1>8, <2>1, <3>1, <4>1
        <5>2. Lease(c, key) = id
          BY <1>1, <2>1, <3>1, <5>1, LeaseOf
        <5> QED BY <3>4, <5>1, <5>2
      <4> QED BY <2>1, <3>1, <3>5, <4>1, LeaseAfter
    <3>6. ASSUME broker' = "up", about = {} PROVE Lease(c, key)' = Lease(c, key)
      <4>1. ASSUME NEW id, Has(c, key, id) PROVE Has(c, key, id)'
        <5>1. ASSUME id \in Range(ids) PROVE FALSE
          <6>1. PICK k \in 1 .. Len(ids) : id = ids[k]
            BY <1>4, <5>1
          <6>2. granted[id].pub = c /\ granted[id].slot = key
            BY <4>1 DEF Has
          <6> QED BY <3>2, <3>6, <6>1, <6>2
        <5> QED BY <1>8, <2>1, <3>1, <4>1, <5>1
      <4>2. \A id : Has(c, key, id)' => Has(c, key, id)
        BY <1>8, <2>1, <3>1
      <4>3. CASE Lease(c, key) = NoId
        BY <1>1, <2>1, <3>1, <3>6, <4>2, <4>3, LeaseOf, LeaseAfter
      <4>4. CASE Has(c, key, Lease(c, key))
        BY <2>1, <3>1, <3>6, <4>1, <4>4, LeaseAfter
      <4> QED BY <1>1, <2>1, <3>1, <4>3, <4>4, LeaseOf
    <3>7. /\ \A i, j \in about : i = j
          /\ \A i \in about : /\ Says(sends[i], key) = NoId <=> Leases(c, key) # NoId
                              /\ broker' = "up" => Leases(c, key)' = Says(sends[i], key)
          /\ broker' = "up" /\ about = {} => Leases(c, key)' = Leases(c, key)
      BY <3>1, <3>3, <3>4, <3>5, <3>6
    <3> QED BY <3>7 DEF Turns, about
  <2>2. CASE c \notin Publishers
    <3>1. about = {}
      BY <1>5, <1>6, <1>7, <2>2
    <3>2. Leases(c, key)' = Leases(c, key)
      <4>1. c \in Subscribers \ {s}
        BY <1>1, <1>9, <2>2 DEF Endpoints
      <4> QED BY <1>3, <2>2, <4>1 DEF Leases
    <3> HIDE DEF about
    <3>3. /\ \A i, j \in about : i = j
          /\ \A i \in about : /\ Says(sends[i], key) = NoId <=> Leases(c, key) # NoId
                              /\ broker' = "up" => Leases(c, key)' = Says(sends[i], key)
          /\ broker' = "up" /\ about = {} => Leases(c, key)' = Leases(c, key)
      BY <3>1, <3>2
    <3> QED BY <3>3 DEF Turns, about
  <2> QED BY <2>1, <2>2
<1>10. ASSUME NEW i \in DOMAIN sends
       PROVE  /\ role'[sends[i].to] # "none" /\ proc[sends[i].to] # "off"
              /\ True(sends[i]) /\ sends[i].type # "count"
  <2>1. /\ sends[i].to \in Publishers /\ role[sends[i].to] = "publisher"
        /\ sends[i].slot \in Slot /\ sends[i].type = "SubscriberDisconnected"
        /\ Has(sends[i].to, sends[i].slot, ids[i]) /\ granted[ids[i]].sub = s /\ ids[i] \in Ids
    BY <1>5, <1>6, <1>7
  <2>2. role'[sends[i].to] # "none" /\ proc[sends[i].to] # "off"
    BY <1>2, <1>3, <2>1, Given DEF ConnectionInv
  <2>3. Leases(sends[i].to, sends[i].slot) = ids[i]
    BY <1>1, <2>1, LeaseOf DEF Leases
  <2>4. True(sends[i])
    BY <1>1, <2>1, <2>3 DEF True
  <2> QED BY <2>1, <2>2, <2>4
<1>11. Sends(sends)
  <2>1. sends \in Seq(Packets(Ids'))
    BY <1>4, <1>6, <1>7
  <2> QED BY <1>1, <1>2, <1>3, <1>9, <1>10, <2>1 DEF Sends, clients
<1>12. \A c \in Clients : Moves(c)
  BY <1>1, <1>3 DEF Moves
<1>13. \A p \in Publishers : Uncounted(sends, p)
  BY <1>3, <1>10 DEF Uncounted
<1>14. TenantsInv'
  <2>1. ASSUME NEW id \in Ids
        PROVE  /\ role'[granted[id].pub] # "none"
               /\ role'[granted[id].pub] = "publisher" =>
                    id \in Range(attach'[granted[id].sub]) \/ proc[granted[id].sub] = "dead"
    BY <1>1, <1>2, <1>3, <2>1, Granted DEF TenantsInv
  <2> QED BY <1>1, <1>3, <2>1 DEF TenantsInv
<1>15. pending' \in [Clients -> BOOLEAN]
  BY <1>1, <1>2 DEF ClientTypeOK
<1> QED BY <1>11, <1>12, <1>13, <1>14, <1>15, Handled

LEMMA PublisherEndSocketStep ==
  ASSUME IInv, IInv', SocketInv, NEW p \in Publishers, HandlePublisherEnd(p)
  PROVE  SocketInv'
<1> DEFINE subs == topicSubs[TopicOf[p]]
           sends == [k \in 1 .. Len(subs) |-> Gone(subs[k], FirstTo(subs[k], p))]
<1>1. /\ broker = "up" /\ role[p] = "publisher" /\ proc[p] = "dead" /\ ~pending[p]
      /\ role' = [role EXCEPT ![p] = "gone"]
      /\ attach' = [s \in Subscribers |-> IF s \in Range(subs)
                                            THEN DropAttachment(s, FirstTo(s, p)) ELSE attach[s]]
      /\ Post(sends)
      /\ broker' = "up" => AllSent(sends)
      /\ UNCHANGED <<granted, pending, proc, awaiting, tracked, installed>>
  BY DEF HandlePublisherEnd, Ended, clients
<1>2. /\ BrokerTypeOK /\ ListsInv /\ AttachmentsInv /\ BrokerTypeOK'
      /\ ConnectionInv /\ ClientTypeOK /\ TenantsInv
  BY <1>1, SocketParts DEF IInv, TablesInv
<1>3. /\ \A c \in Clients \ {p} : role'[c] = role[c]
      /\ role'[p] = "gone" /\ p \in Clients /\ p \notin Subscribers
      /\ \A s \in Subscribers : role'[s] = role[s]
      /\ \A q \in Publishers \ {p} : role'[q] = role[q]
      /\ Ids' = Ids
  BY <1>1, <1>2, Given DEF BrokerTypeOK, Ids
<1>4. /\ subs \in Seq(Subscribers) /\ DOMAIN subs = 1 .. Len(subs) /\ Len(subs) \in Nat
      /\ IsInjective(subs) /\ Range(subs) = {subs[k] : k \in 1 .. Len(subs)}
      /\ \A s \in Subscribers : s \in Range(subs) <=> Match(s, p)
  <2>1. TopicOf[p] \in Topics
    BY Given
  <2>2. subs \in Seq(Subscribers) /\ IsInjective(subs)
    BY <1>2, <2>1 DEF BrokerTypeOK, ListsInv
  <2>3. \A s \in Subscribers : s \in Range(subs) <=> Match(s, p)
    BY <1>1, <1>2, <2>1 DEF ListsInv, Match
  <2> QED BY <2>2, <2>3, LenProperties DEF Range
<1>5. ASSUME NEW s \in Subscribers
      PROVE  Range(attach'[s]) = {id \in Range(attach[s]) : granted[id].pub # p}
  BY <1>1, <1>2, <1>4, PublisherLeaves
<1>6. ASSUME NEW k \in 1 .. Len(subs)
      PROVE  /\ subs[k] \in Subscribers /\ role[subs[k]] = "subscriber"
             /\ FirstTo(subs[k], p) \in Range(attach[subs[k]]) /\ FirstTo(subs[k], p) \in Ids
             /\ FirstTo(subs[k], p) # NoId /\ granted[FirstTo(subs[k], p)].pub = p
  <2>1. subs[k] \in Subscribers /\ Match(subs[k], p)
    BY <1>4, ElementOfSeq
  <2>2. /\ FirstTo(subs[k], p) \in Range(attach[subs[k]])
        /\ FirstTo(subs[k], p) # NoId /\ granted[FirstTo(subs[k], p)].pub = p
    BY <1>2, <2>1, FirstToIs
  <2> QED BY <1>2, <2>1, <2>2, Granted DEF Match
<1>7. /\ \A k \in 1 .. Len(subs) : sends[k] = Gone(subs[k], FirstTo(subs[k], p))
      /\ DOMAIN sends = 1 .. Len(subs)
      /\ \A S : (\A k \in 1 .. Len(subs) : sends[k] \in S) => sends \in Seq(S)
  <2>1. ASSUME NEW S, \A k \in 1 .. Len(subs) : sends[k] \in S PROVE sends \in Seq(S)
    <3> DEFINE n == Len(subs)
               e(k) == Gone(subs[k], FirstTo(subs[k], p))
    <3>1. n \in Nat /\ \A k \in 1 .. n : e(k) \in S
      BY <1>4, <2>1
    <3>2. sends = [k \in 1 .. n |-> e(k)]
      OBVIOUS
    <3> HIDE DEF n, e, sends
    <3> QED BY <3>1, <3>2
  <2> QED BY <2>1
<1> HIDE DEF subs, sends
<1>8. ASSUME NEW k \in 1 .. Len(subs)
      PROVE  /\ sends[k] \in Packets(Ids') /\ sends[k].to = subs[k]
             /\ sends[k].type = "PublisherDisconnected"
             /\ \A key : Says(sends[k], key) = IF FirstTo(subs[k], p) = key THEN NoId ELSE Silent
  <2>1. PICK s \in Subscribers, id \in Ids : s = subs[k] /\ id = FirstTo(subs[k], p)
    BY <1>6
  <2>2. sends[k] = Gone(s, id) /\ id \in Ids'
    BY <1>3, <1>7, <2>1
  <2> QED BY <2>1, <2>2, GonePacket
<1>9. ASSUME NEW c \in Endpoints, proc[c] # "dead", NEW key \in Keys(c)
      PROVE  Turns(sends, c, key)
  <2> DEFINE about == {i \in DOMAIN sends : sends[i].to = c /\ Says(sends[i], key) # Silent}
  <2>1. CASE c \in Subscribers
    <3>1. /\ c \notin Publishers /\ key # NoId
          /\ Leases(c, key) = IF key \in Range(attach[c]) THEN key ELSE NoId
          /\ Leases(c, key)' = IF key \in Range(attach'[c]) THEN key ELSE NoId
      BY <2>1, Given DEF Keys, Leases, NoId
    <3>2. \A i : i \in about <=> i \in 1 .. Len(subs) /\ subs[i] = c /\ FirstTo(subs[i], p) = key
      <4>1. NoId # Silent
        BY DEF NoId, Silent
      <4>2. \A i \in DOMAIN sends : Says(sends[i], key) # Silent <=> FirstTo(subs[i], p) = key
        BY <1>7, <1>8, <4>1
      <4> QED BY <1>7, <1>8, <4>2
    <3> HIDE DEF about
    <3>3. \A i, j \in about : i = j
      BY <1>4, <3>2 DEF IsInjective
    <3>4. ASSUME NEW i \in about
          PROVE  /\ Says(sends[i], key) = NoId
                 /\ key \in Range(attach[c]) /\ key \notin Range(attach'[c])
      <4>1. i \in 1 .. Len(subs) /\ subs[i] = c /\ FirstTo(c, p) = key
        BY <3>2
      <4>2. key \in Range(attach[c]) /\ granted[key].pub = p /\ Says(sends[i], key) = NoId
        BY <1>6, <1>8, <4>1
      <4> QED BY <1>5, <2>1, <4>2
    <3>5. ASSUME about = {} PROVE key \in Range(attach'[c]) <=> key \in Range(attach[c])
      <4>1. ASSUME key \in Range(attach[c]), granted[key].pub = p PROVE FALSE
        <5>1. key = FirstTo(c, p)
          BY <1>2, <2>1, <4>1, FirstToIs
        <5>2. c \in Range(subs)
          <6>1. key \in Ids
            BY <1>2, <2>1, <4>1, Granted
          <6> QED BY <1>2, <1>4, <2>1, <4>1, <6>1 DEF AttachmentsInv
        <5> QED BY <1>4, <3>2, <3>5, <5>1, <5>2
      <4> QED BY <1>5, <2>1, <4>1
    <3>6. /\ \A i, j \in about : i = j
          /\ \A i \in about : /\ Says(sends[i], key) = NoId <=> Leases(c, key) # NoId
                              /\ broker' = "up" => Leases(c, key)' = Says(sends[i], key)
          /\ broker' = "up" /\ about = {} => Leases(c, key)' = Leases(c, key)
      BY <3>1, <3>3, <3>4, <3>5
    <3> QED BY <3>6 DEF Turns, about
  <2>2. CASE c \in Publishers
    <3>1. about = {}
      BY <1>6, <1>7, <1>8, <2>2, Given
    <3>2. /\ key \in Slot /\ c # p
          /\ Leases(c, key) = Lease(c, key) /\ Leases(c, key)' = Lease(c, key)'
      BY <1>1, <1>9, <2>2 DEF Keys, Leases
    <3>3. \A id : Has(c, key, id)' <=> Has(c, key, id)
      BY <1>1, <1>5, <3>2 DEF Has
    <3>4. ASSUME broker' = "up" PROVE Lease(c, key)' = Lease(c, key)
      <4>1. CASE Lease(c, key) = NoId
        BY <1>1, <2>2, <3>2, <3>3, <3>4, <4>1, LeaseOf, LeaseAfter
      <4>2. CASE Has(c, key, Lease(c, key))
        BY <2>2, <3>2, <3>3, <3>4, <4>2, LeaseAfter
      <4> QED BY <1>1, <2>2, <3>2, <4>1, <4>2, LeaseOf
    <3> HIDE DEF about
    <3>5. /\ \A i, j \in about : i = j
          /\ \A i \in about : /\ Says(sends[i], key) = NoId <=> Leases(c, key) # NoId
                              /\ broker' = "up" => Leases(c, key)' = Says(sends[i], key)
          /\ broker' = "up" /\ about = {} => Leases(c, key)' = Leases(c, key)
      BY <3>1, <3>2, <3>4
    <3> QED BY <3>5 DEF Turns, about
  <2> QED BY <2>1, <2>2 DEF Endpoints
<1>10. ASSUME NEW i \in DOMAIN sends
       PROVE  /\ role'[sends[i].to] # "none" /\ proc[sends[i].to] # "off"
              /\ True(sends[i]) /\ sends[i].type # "count"
  <2>1. /\ sends[i].to \in Subscribers /\ role[sends[i].to] = "subscriber"
        /\ sends[i].type = "PublisherDisconnected"
    BY <1>6, <1>7, <1>8
  <2>2. role'[sends[i].to] # "none" /\ proc[sends[i].to] # "off"
    BY <1>2, <1>3, <2>1, Given DEF ConnectionInv
  <2> QED BY <2>1, <2>2 DEF True
<1>11. Sends(sends)
  <2>1. sends \in Seq(Packets(Ids'))
    BY <1>7, <1>8
  <2> QED BY <1>1, <1>2, <1>3, <1>9, <1>10, <2>1 DEF Sends, clients
<1>12. \A c \in Clients : Moves(c)
  BY <1>1, <1>3 DEF Moves
<1>13. \A q \in Publishers : Uncounted(sends, q)
  BY <1>3, <1>10 DEF Uncounted
<1>14. TenantsInv'
  <2>1. ASSUME NEW id \in Ids
        PROVE  /\ role'[granted[id].pub] # "none"
               /\ role'[granted[id].pub] = "publisher" =>
                    id \in Range(attach'[granted[id].sub]) \/ proc[granted[id].sub] = "dead"
    <3>1. granted[id].pub \in Publishers /\ granted[id].sub \in Subscribers
      BY <1>2, Granted
    <3> QED BY <1>1, <1>2, <1>3, <1>5, <2>1, <3>1 DEF TenantsInv
  <2> QED BY <1>1, <1>3, <2>1 DEF TenantsInv
<1>15. pending' \in [Clients -> BOOLEAN]
  BY <1>1, <1>2 DEF ClientTypeOK
<1> QED BY <1>11, <1>12, <1>13, <1>14, <1>15, Handled

-----------------------------------------------------------------------------
(* Connections are made *)

LEMMA CountIs ==
  ASSUME NEW I, NEW p \in Publishers, NEW n \in 0 .. SlotCount
  PROVE  /\ CountPacket(p, n) \in Packets(I) /\ CountPacket(p, n).to = p
         /\ CountPacket(p, n).type = "count" /\ CountPacket(p, n).count = n
         /\ \A key : Says(CountPacket(p, n), key) = Silent
<1> DEFINE m == CountPacket(p, n)
<1>1. m \in PublisherPackets(I) /\ m.to = p /\ m.type = "count" /\ m.count = n
  BY DEF CountPacket, PublisherPackets
<1> HIDE DEF m
<1>2. \A key : Says(m, key) = Silent
  BY <1>1 DEF Says
<1> QED BY <1>1, <1>2 DEF m, Packets

LEMMA RegisteredPacket ==
  ASSUME NEW I, NEW p \in Publishers, NEW x \in Slot, NEW id \in I
  PROVE  /\ Registered(p, x, id) \in Packets(I) /\ Registered(p, x, id).to = p
         /\ Registered(p, x, id).type = "SubscriberEventFdAndSlot"
         /\ Registered(p, x, id).slot = x /\ Registered(p, x, id).id = id
         /\ \A key : Says(Registered(p, x, id), key) = IF x = key THEN id ELSE Silent
<1> DEFINE m == Registered(p, x, id)
<1>1. /\ m \in PublisherPackets(I) /\ m.to = p /\ m.type = "SubscriberEventFdAndSlot"
      /\ m.slot = x /\ m.id = id
  BY DEF Registered, PublisherPackets
<1> HIDE DEF m
<1>2. \A key : Says(m, key) = IF x = key THEN id ELSE Silent
  BY <1>1 DEF Says
<1> QED BY <1>1, <1>2 DEF m, Packets

LEMMA BatchPacket ==
  ASSUME NEW I, NEW s \in Subscribers, NEW ids \in Seq(I), Len(ids) <= MaxBatch
  PROVE  /\ Batch(s, ids) \in Packets(I) /\ Batch(s, ids).to = s
         /\ Batch(s, ids).type = "SubscriberAttachmentBatch"
         /\ \A key : Says(Batch(s, ids), key) = IF key \in Range(ids) THEN key ELSE Silent
<1> DEFINE m == Batch(s, ids)
<1>1. m \in SubscriberPackets(I) /\ m.to = s /\ m.type = "SubscriberAttachmentBatch" /\ m.ids = ids
  BY DEF Batch, SubscriberPackets, Batches
<1> HIDE DEF m
<1>2. \A key : Says(m, key) = IF key \in Range(ids) THEN key ELSE Silent
  BY <1>1 DEF Says
<1> QED BY <1>1, <1>2 DEF m, Packets

LEMMA SubscriberRegistrationSocketStep ==
  ASSUME IInv, IInv', SocketInv, NEW s \in Subscribers, HandleSubscriberRegistration(s)
  PROVE  SocketInv'
<1> DEFINE pubs == Routes(TopicsOf[s])
           n == Fits(pubs)
           ids == [k \in 1 .. n |-> Len(granted) + k]
           regs == [k \in 1 .. n |-> Registered(pubs[k], TopSlot(pubs[k]), ids[k])]
           more == [k \in 1 .. n |-> Attachment(s, pubs[k], TopSlot(pubs[k]))]
           last == IF n = Len(pubs) /\ n <= MaxBatch THEN <<Batch(s, ids)>> ELSE <<>>
           sends == regs \o last
           Records == [sub : Subscribers, pub : Publishers, slot : Slot]
<1>1. /\ broker = "up" /\ pending[s] /\ role[s] = "none"
      /\ pending' = [pending EXCEPT ![s] = FALSE]
      /\ role' = [role EXCEPT ![s] = "subscriber"]
      /\ granted' = granted \o more
      /\ attach' = [attach EXCEPT ![s] = ids]
      /\ Post(sends)
      /\ broker' = "up" => AllSent(sends) /\ ~(n < Len(pubs)) /\ ~(n > MaxBatch)
      /\ UNCHANGED <<proc, awaiting, tracked, installed>>
  <2>1. RegisterWith(s, pubs, n)
    BY DEF HandleSubscriberRegistration
  <2> HIDE DEF pubs, n
  <2> QED BY <2>1 DEF RegisterWith, clients
<1>2. /\ BrokerTypeOK /\ ListsInv /\ AttachmentsInv /\ SlotsInv /\ BrokerTypeOK'
      /\ ConnectionInv /\ ClientTypeOK /\ TenantsInv
  BY <1>1, SocketParts DEF IInv, TablesInv
<1>3. /\ pubs \in Seq(Publishers) /\ IsInjective(pubs) /\ Len(pubs) \in Nat
      /\ DOMAIN pubs = 1 .. Len(pubs) /\ Range(pubs) = {pubs[k] : k \in 1 .. Len(pubs)}
      /\ \A p \in Publishers : p \in Range(pubs) => role[p] = "publisher"
  <2>1. pubs \in Seq(Publishers)
    BY <1>2, RoutesAre
  <2> QED BY <1>2, <2>1, RoutesAre, LenProperties DEF Range
<1>4. n \in 0 .. Len(pubs) /\ n \in Nat /\ \A k \in 1 .. n : free[pubs[k]] # {}
  BY <1>3, FitsIs
<1> HIDE DEF pubs, n
<1>5. ASSUME NEW k \in 1 .. n
      PROVE  /\ pubs[k] \in Publishers /\ role[pubs[k]] = "publisher"
             /\ TopSlot(pubs[k]) \in Slot /\ ~Leased(pubs[k], TopSlot(pubs[k]))
  <2>1. k \in 1 .. Len(pubs)
    BY <1>3, <1>4
  <2>2. pubs[k] \in Publishers /\ role[pubs[k]] = "publisher"
    BY <1>3, <2>1
  <2>3. free[pubs[k]] \subseteq Slot
    BY <1>2, <2>2 DEF BrokerTypeOK
  <2>4. TopSlot(pubs[k]) \in free[pubs[k]]
    BY <1>4, <2>2, <2>3, TopSlotIs
  <2> QED BY <1>2, <2>2, <2>3, <2>4 DEF SlotsInv
<1>6. /\ more \in Seq(Records) /\ Len(more) = n
      /\ \A k \in 1 .. n : more[k].sub = s /\ more[k].pub = pubs[k] /\ more[k].slot = TopSlot(pubs[k])
  <2>1. \A k \in 1 .. n : more[k] \in Records
    BY <1>5 DEF Attachment
  <2>2. more \in Seq(Records) /\ Len(more) = n
    BY <1>4, <2>1
  <2> QED BY <2>2 DEF Attachment
<1> HIDE DEF more
<1>7. /\ Ids \subseteq Ids' /\ Len(granted) \in Nat /\ Ids = 1 .. Len(granted)
      /\ \A id \in Ids : granted'[id] = granted[id]
      /\ \A k \in 1 .. n : /\ Len(granted) + k \in Ids' \ Ids
                           /\ granted'[Len(granted) + k].sub = s
                           /\ granted'[Len(granted) + k].pub = pubs[k]
                           /\ granted'[Len(granted) + k].slot = TopSlot(pubs[k])
      /\ \A id \in Ids' : id \in Ids \/ \E k \in 1 .. n : id = Len(granted) + k
  <2>1. /\ Ids \subseteq Ids' /\ \A id \in Ids : granted'[id] = granted[id]
        /\ \A k \in 1 .. n : /\ Len(granted) + k \in Ids' \ Ids
                             /\ granted'[Len(granted) + k] = more[k]
        /\ Ids' = Ids \cup {Len(granted) + k : k \in 1 .. n}
    BY <1>1, <1>2, <1>6, GrantsGrow
  <2> QED BY <1>2, <1>6, <2>1, Granted
<1>8. /\ ids \in Seq(Ids') /\ DOMAIN ids = 1 .. n /\ \A k \in 1 .. n : ids[k] = Len(granted) + k
      /\ Range(ids) = {Len(granted) + k : k \in 1 .. n}
  <2>1. \A k \in 1 .. n : Len(granted) + k \in Ids'
    BY <1>7
  <2>2. ids \in Seq(Ids')
    BY <1>4, <2>1
  <2> QED BY <2>2 DEF Range
<1> HIDE DEF ids
<1>9. /\ \A r \in Subscribers \ {s} : attach'[r] = attach[r] /\ role'[r] = role[r]
      /\ attach'[s] = ids /\ Range(attach[s]) = {} /\ s \notin Publishers /\ s \in Clients
      /\ role'[s] = "subscriber" /\ \A c \in Clients \ {s} : role'[c] = role[c]
      /\ \A p \in Publishers : role'[p] = role[p] /\ p \in Clients
      /\ \A c \in Clients \ {s} : pending'[c] = pending[c]
      /\ pending'[s] = FALSE /\ pending' \in [Clients -> BOOLEAN]
  <2>1. Range(attach[s]) = {}
    BY <1>1, <1>2, Granted DEF AttachmentsInv, Match
  <2> QED BY <1>1, <1>2, <2>1, Given DEF BrokerTypeOK, ClientTypeOK
\* The packets.
<1>10. /\ regs \in Seq(Packets(Ids')) /\ Len(regs) = n
       /\ \A k \in 1 .. n : regs[k] = Registered(pubs[k], TopSlot(pubs[k]), Len(granted) + k)
  <2>1. ASSUME NEW k \in 1 .. n
        PROVE  /\ regs[k] = Registered(pubs[k], TopSlot(pubs[k]), Len(granted) + k)
               /\ regs[k] \in Packets(Ids')
    <3>1. regs[k] = Registered(pubs[k], TopSlot(pubs[k]), Len(granted) + k)
      BY <1>8
    <3>2. PICK p \in Publishers, x \in Slot, id \in Ids' :
            p = pubs[k] /\ x = TopSlot(pubs[k]) /\ id = Len(granted) + k
      BY <1>5, <1>7
    <3>3. regs[k] = Registered(p, x, id)
      BY <3>1, <3>2
    <3> QED BY <3>1, <3>3, RegisteredPacket
  <2>2. regs \in Seq(Packets(Ids')) /\ Len(regs) = n
    BY <1>4, <2>1
  <2> QED BY <2>1, <2>2
<1>11. last = <<>> \/ last = <<Batch(s, ids)>>
  OBVIOUS
<1>12. broker' = "up" => last # <<>>
  <2>1. MaxBatch \in Nat
    BY SizesAssumption
  <2>2. ASSUME broker' = "up" PROVE n = Len(pubs) /\ n <= MaxBatch
    <3>1. ~(n < Len(pubs)) /\ ~(n > MaxBatch)
      BY <1>1, <2>2
    <3>2. Len(pubs) \in Nat /\ n \in 0 .. Len(pubs)
      BY <1>3, <1>4
    <3> QED BY <2>1, <3>1, <3>2
  <2>3. <<Batch(s, ids)>> # <<>>
    OBVIOUS
  <2> QED BY <2>2, <2>3
<1>13. last # <<>> =>
         /\ Batch(s, ids) \in Packets(Ids') /\ Batch(s, ids).to = s
         /\ Batch(s, ids).type = "SubscriberAttachmentBatch"
         /\ \A key : Says(Batch(s, ids), key) = IF key \in Range(ids) THEN key ELSE Silent
  <2>1. Len(ids) = n
    BY <1>4, <1>8
  <2>2. last # <<>> => n <= MaxBatch
    OBVIOUS
  <2> QED BY <1>8, <2>1, <2>2, BatchPacket
<1> HIDE DEF regs, last
<1>14. /\ sends \in Seq(Packets(Ids'))
       /\ DOMAIN sends = IF last = <<>> THEN 1 .. n ELSE 1 .. n + 1
       /\ \A k \in 1 .. n : sends[k] = Registered(pubs[k], TopSlot(pubs[k]), Len(granted) + k)
       /\ last # <<>> => sends[n + 1] = Batch(s, ids)
  <2>1. last \in Seq(Packets(Ids'))
    <3> DEFINE S == Packets(Ids')
               m == Batch(s, ids)
    <3>1. (last # <<>> => m \in S) /\ (last = <<>> \/ last = <<m>>)
      BY <1>11, <1>13
    <3> HIDE DEF S, m
    <3>2. <<>> \in Seq(S) /\ (m \in S => <<m>> \in Seq(S))
      OBVIOUS
    <3>3. last \in Seq(S)
      BY <3>1, <3>2
    <3> QED BY <3>3 DEF S
  <2>2. last # <<>> => Len(last) = 1 /\ last[1] = Batch(s, ids)
    BY <1>11
  <2>3. last = <<>> => Len(last) = 0
    OBVIOUS
  <2>4. /\ sends \in Seq(Packets(Ids')) /\ Len(sends) = Len(regs) + Len(last)
        /\ \A i \in 1 .. Len(regs) + Len(last) :
             sends[i] = IF i <= Len(regs) THEN regs[i] ELSE last[i - Len(regs)]
    BY <1>10, <2>1, ConcatProperties
  <2>5. DOMAIN sends = 1 .. Len(sends)
    BY <2>4, LenProperties
  <2>6. Len(last) \in Nat
    BY <2>1
  <2>7. \A k \in 1 .. n : sends[k] = regs[k]
    BY <1>4, <1>10, <2>4, <2>6
  <2>8. last # <<>> => sends[n + 1] = Batch(s, ids)
    <3>1. (n + 1) - n = 1 /\ ~(n + 1 <= n)
      BY <1>4
    <3>2. last # <<>> => n + 1 \in 1 .. Len(regs) + Len(last)
      BY <1>4, <1>10, <2>2
    <3> QED BY <1>10, <2>2, <2>4, <3>1, <3>2
  <2>9. DOMAIN sends = IF last = <<>> THEN 1 .. n ELSE 1 .. n + 1
    <3>1. Len(sends) = IF last = <<>> THEN n ELSE n + 1
      <4>1. Len(sends) = n + Len(last)
        BY <1>10, <2>4
      <4>2. CASE last = <<>>
        BY <1>4, <2>3, <4>1, <4>2
      <4>3. CASE last # <<>>
        BY <1>4, <2>2, <4>1, <4>3
      <4> QED BY <4>2, <4>3
    <3> HIDE DEF sends
    <3> QED BY <2>5, <3>1
  <2> QED BY <1>10, <2>4, <2>7, <2>8, <2>9
<1> HIDE DEF sends
<1>15. ASSUME NEW k \in 1 .. n
       PROVE  /\ sends[k].to = pubs[k] /\ sends[k].type = "SubscriberEventFdAndSlot"
              /\ sends[k].slot = TopSlot(pubs[k]) /\ sends[k].id = Len(granted) + k
              /\ \A key : Says(sends[k], key) =
                            IF TopSlot(pubs[k]) = key THEN Len(granted) + k ELSE Silent
  <2>1. PICK p \in Publishers, x \in Slot, id \in Ids' :
          p = pubs[k] /\ x = TopSlot(pubs[k]) /\ id = Len(granted) + k
    BY <1>5, <1>7
  <2>2. sends[k] = Registered(p, x, id)
    BY <1>14, <2>1
  <2>3. /\ sends[k] \in Packets(Ids')
        /\ sends[k].to = p /\ sends[k].type = "SubscriberEventFdAndSlot"
        /\ sends[k].slot = x /\ sends[k].id = id
        /\ \A key : Says(sends[k], key) = IF x = key THEN id ELSE Silent
    BY <2>2, RegisteredPacket
  <2> QED BY <2>1, <2>3
<1>16. last # <<>> =>
         /\ n + 1 \in DOMAIN sends /\ sends[n + 1].to = s
         /\ sends[n + 1].type = "SubscriberAttachmentBatch"
         /\ \A key : Says(sends[n + 1], key) = IF key \in Range(ids) THEN key ELSE Silent
  <2>1. n + 1 \in 1 .. n + 1
    BY <1>4
  <2> QED BY <1>13, <1>14, <2>1
<1>17. \A i \in DOMAIN sends : i \in 1 .. n \/ (i = n + 1 /\ last # <<>>)
  BY <1>4, <1>14
<1>18. 1 .. n \subseteq DOMAIN sends
  BY <1>4, <1>14
<1>19. \A k \in 1 .. n : Len(granted) + k # NoId /\ Len(granted) + k # Silent
  BY <1>4, <1>7 DEF NoId, Silent
\* The leases.
<1>20. ASSUME NEW p \in Publishers, NEW x \in Slot, NEW id
       PROVE  Has(p, x, id)' <=> \/ Has(p, x, id)
                                 \/ \E k \in 1 .. n : /\ p = pubs[k] /\ x = TopSlot(p)
                                                      /\ id = Len(granted) + k
  <2>1. ASSUME Has(p, x, id)'
        PROVE  \/ Has(p, x, id)
               \/ \E k \in 1 .. n : p = pubs[k] /\ x = TopSlot(p) /\ id = Len(granted) + k
    <3>1. PICK r \in Subscribers : id \in Range(attach'[r]) /\ granted'[id].pub = p /\ granted'[id].slot = x
      BY <2>1 DEF Has
    <3>2. CASE r = s
      BY <1>7, <1>8, <1>9, <3>1, <3>2
    <3>3. CASE r # s
      <4>1. id \in Range(attach[r]) /\ id \in Ids
        BY <1>2, <1>9, <3>1, <3>3, Granted
      <4> QED BY <1>7, <3>1, <4>1 DEF Has
    <3> QED BY <3>2, <3>3
  <2>2. ASSUME Has(p, x, id) PROVE Has(p, x, id)'
    <3>1. PICK r \in Subscribers : id \in Range(attach[r]) /\ granted[id].pub = p /\ granted[id].slot = x
      BY <2>2 DEF Has
    <3>2. r # s /\ id \in Ids
      BY <1>2, <1>9, <3>1, Granted
    <3> QED BY <1>7, <1>9, <3>1, <3>2 DEF Has
  <2>3. ASSUME NEW k \in 1 .. n, p = pubs[k], x = TopSlot(p), id = Len(granted) + k
        PROVE  Has(p, x, id)'
    BY <1>7, <1>8, <1>9, <2>3 DEF Has
  <2> QED BY <2>1, <2>2, <2>3
<1>21. ASSUME NEW c \in Endpoints, proc[c] # "dead", NEW key \in Keys(c)
       PROVE  Turns(sends, c, key)
  <2> DEFINE about == {i \in DOMAIN sends : sends[i].to = c /\ Says(sends[i], key) # Silent}
  <2>1. CASE c \in Publishers
    <3>1. /\ key \in Slot /\ Leases(c, key) = Lease(c, key) /\ Leases(c, key)' = Lease(c, key)'
      BY <2>1 DEF Keys, Leases
    <3>2. \A i : i \in about <=> i \in 1 .. n /\ pubs[i] = c /\ TopSlot(c) = key
      <4>1. \A i \in 1 .. n : Says(sends[i], key) # Silent <=> TopSlot(pubs[i]) = key
        BY <1>15, <1>19
      <4>2. \A i \in DOMAIN sends : i \in 1 .. n \/ sends[i].to = s
        BY <1>16, <1>17
      <4> QED BY <1>9, <1>15, <1>18, <2>1, <4>1, <4>2
    <3> HIDE DEF about
    <3>3. \A i, j \in about : i = j
      <4>1. 1 .. n \subseteq DOMAIN pubs
        BY <1>3, <1>4
      <4> QED BY <1>3, <3>2, <4>1 DEF IsInjective
    <3>4. ASSUME NEW i \in about
          PROVE  /\ Says(sends[i], key) = Len(granted) + i /\ Len(granted) + i # NoId
                 /\ Lease(c, key) = NoId
                 /\ broker' = "up" => Lease(c, key)' = Len(granted) + i
      <4>1. i \in 1 .. n /\ pubs[i] = c /\ TopSlot(c) = key /\ ~Leased(c, key)
        BY <1>5, <3>2
      <4>2. Lease(c, key) = NoId
        BY <1>1, <2>1, <3>1, <4>1, LeaseOf DEF Has, Leased
      <4>3. PICK id : id = Len(granted) + i
        OBVIOUS
      <4>4. Has(c, key, id)'
        <5>1. \E k \in 1 .. n : c = pubs[k] /\ key = TopSlot(c) /\ id = Len(granted) + k
          BY <4>1, <4>3
        <5> QED BY <1>20, <2>1, <3>1, <5>1
      <4>5. broker' = "up" => Lease(c, key)' = id
        BY <2>1, <3>1, <4>4, LeaseAfter
      <4>6. Says(sends[i], key) = id /\ id # NoId
        BY <1>15, <1>19, <4>1, <4>3
      <4> QED BY <4>2, <4>3, <4>5, <4>6
    <3>5. ASSUME broker' = "up", about = {} PROVE Lease(c, key)' = Lease(c, key)
      <4>1. \A id : Has(c, key, id)' <=> Has(c, key, id)
        BY <1>20, <2>1, <3>1, <3>2, <3>5
      <4>2. CASE Lease(c, key) = NoId
        BY <1>1, <2>1, <3>1, <3>5, <4>1, <4>2, LeaseOf, LeaseAfter
      <4>3. CASE Has(c, key, Lease(c, key))
        BY <2>1, <3>1, <3>5, <4>1, <4>3, LeaseAfter
      <4> QED BY <1>1, <2>1, <3>1, <4>2, <4>3, LeaseOf
    <3>6. /\ \A i, j \in about : i = j
          /\ \A i \in about : /\ Says(sends[i], key) = NoId <=> Leases(c, key) # NoId
                              /\ broker' = "up" => Leases(c, key)' = Says(sends[i], key)
          /\ broker' = "up" /\ about = {} => Leases(c, key)' = Leases(c, key)
      BY <3>1, <3>3, <3>4, <3>5
    <3> QED BY <3>6 DEF Turns, about
  <2>2. CASE c = s
    <3>1. /\ key # NoId /\ Leases(c, key) = NoId
          /\ Leases(c, key)' = IF key \in Range(ids) THEN key ELSE NoId
      BY <1>9, <2>2 DEF Keys, Leases, NoId
    <3>2. \A i : i \in about <=> i = n + 1 /\ last # <<>> /\ key \in Range(ids)
      <4>1. \A i \in 1 .. n : sends[i].to # s
        BY <1>5, <1>9, <1>15
      <4>2. key # Silent
        BY <1>9, <2>2 DEF Keys, Silent
      <4> QED BY <1>16, <1>17, <2>2, <4>1, <4>2
    <3> HIDE DEF about
    <3>3. /\ \A i, j \in about : i = j
          /\ \A i \in about : Says(sends[i], key) = key /\ key \in Range(ids)
          /\ broker' = "up" /\ about = {} => key \notin Range(ids)
      BY <1>12, <1>16, <3>2
    <3>4. /\ \A i, j \in about : i = j
          /\ \A i \in about : /\ Says(sends[i], key) = NoId <=> Leases(c, key) # NoId
                              /\ broker' = "up" => Leases(c, key)' = Says(sends[i], key)
          /\ broker' = "up" /\ about = {} => Leases(c, key)' = Leases(c, key)
      BY <3>1, <3>3
    <3> QED BY <3>4 DEF Turns, about
  <2>3. CASE c \in Subscribers \ {s}
    <3>1. about = {}
      <4>1. \A i \in DOMAIN sends : sends[i].to \in Publishers \/ sends[i].to = s
        BY <1>5, <1>15, <1>16, <1>17
      <4> QED BY <2>3, <4>1, Given
    <3>2. Leases(c, key)' = Leases(c, key)
      BY <1>9, <2>3, Given DEF Leases
    <3> HIDE DEF about
    <3>3. /\ \A i, j \in about : i = j
          /\ \A i \in about : /\ Says(sends[i], key) = NoId <=> Leases(c, key) # NoId
                              /\ broker' = "up" => Leases(c, key)' = Says(sends[i], key)
          /\ broker' = "up" /\ about = {} => Leases(c, key)' = Leases(c, key)
      BY <3>1, <3>2
    <3> QED BY <3>3 DEF Turns, about
  <2> QED BY <2>1, <2>2, <2>3 DEF Endpoints
<1>22. ASSUME NEW i \in DOMAIN sends
       PROVE  /\ role'[sends[i].to] # "none" /\ proc[sends[i].to] # "off"
              /\ True(sends[i]) /\ sends[i].type # "count"
  <2>1. CASE i \in 1 .. n
    <3>1. /\ sends[i].to = pubs[i] /\ pubs[i] \in Publishers /\ role[pubs[i]] = "publisher"
          /\ sends[i].type = "SubscriberEventFdAndSlot"
      BY <1>5, <1>15, <2>1
    <3>2. role'[pubs[i]] = "publisher" /\ proc[pubs[i]] # "off"
      BY <1>2, <1>9, <3>1 DEF ConnectionInv
    <3>3. ASSUME NEW id \in Ids', granted'[id].pub = pubs[i], granted'[id].slot = TopSlot(pubs[i]),
                 id < Len(granted) + i
          PROVE  proc[granted'[id].sub] = "dead"
      <4>1. CASE id \in Ids
        <5>1. granted'[id] = granted[id] /\ granted[id].sub \in Subscribers
          BY <1>2, <1>7, <4>1, Granted
        <5>2. id \notin Range(attach[granted[id].sub])
          BY <1>5, <2>1, <3>3, <5>1 DEF Leased
        <5> QED BY <1>1, <1>2, <3>1, <3>3, <4>1, <5>1, <5>2 DEF TenantsInv
      <4>2. CASE id \notin Ids
        <5>1. PICK k \in 1 .. n : id = Len(granted) + k
          BY <1>7, <4>2
        <5>2. pubs[k] = pubs[i] /\ k \in DOMAIN pubs /\ i \in DOMAIN pubs
          BY <1>3, <1>4, <1>7, <2>1, <3>3, <5>1
        <5>3. k = i
          BY <1>3, <5>2 DEF IsInjective
        <5> QED BY <1>4, <1>7, <2>1, <3>3, <5>1, <5>3
      <4> QED BY <4>1, <4>2
    <3>4. True(sends[i])
      BY <1>15, <2>1, <3>1, <3>3 DEF True
    <3> QED BY <3>1, <3>2, <3>4
  <2>2. CASE i = n + 1 /\ last # <<>>
    <3>1. sends[i].to = s /\ sends[i].type = "SubscriberAttachmentBatch"
      BY <1>16, <2>2
    <3>2. proc[s] # "off"
      BY <1>1, <1>2, <1>9 DEF ConnectionInv
    <3> QED BY <1>9, <3>1, <3>2 DEF True
  <2> QED BY <1>17, <2>1, <2>2
<1>23. Sends(sends)
  BY <1>1, <1>2, <1>7, <1>14, <1>21, <1>22 DEF Sends, clients
<1>24. \A c \in Clients : Moves(c)
  BY <1>1, <1>9 DEF Moves
<1>25. \A p \in Publishers : Uncounted(sends, p)
  BY <1>9, <1>22 DEF Uncounted
<1>26. TenantsInv'
  <2>1. ASSUME NEW id \in Ids'
        PROVE  /\ role'[granted'[id].pub] # "none"
               /\ role'[granted'[id].pub] = "publisher" =>
                    id \in Range(attach'[granted'[id].sub]) \/ proc[granted'[id].sub] = "dead"
    <3>1. CASE id \in Ids
      <4>1. /\ granted'[id] = granted[id] /\ granted[id].pub \in Publishers
            /\ granted[id].sub \in Subscribers
        BY <1>2, <1>7, <3>1, Granted
      <4>2. /\ role[granted[id].pub] # "none"
            /\ role[granted[id].pub] = "publisher" =>
                 id \in Range(attach[granted[id].sub]) \/ proc[granted[id].sub] = "dead"
        BY <1>1, <1>2, <3>1 DEF TenantsInv
      <4>3. id \in Range(attach[granted[id].sub]) => granted[id].sub # s
        BY <1>9
      <4> QED BY <1>9, <4>1, <4>2, <4>3
    <3>2. CASE id \notin Ids
      <4>1. PICK k \in 1 .. n : id = Len(granted) + k
        BY <1>7, <3>2
      <4>2. /\ granted'[id].sub = s /\ granted'[id].pub = pubs[k]
            /\ role'[pubs[k]] = "publisher"
        BY <1>5, <1>7, <1>9, <4>1
      <4>3. id \in Range(attach'[s])
        BY <1>8, <1>9, <4>1
      <4> QED BY <4>2, <4>3
    <3> QED BY <3>1, <3>2
  <2> QED BY <1>1, <2>1 DEF TenantsInv
<1> QED BY <1>9, <1>23, <1>24, <1>25, <1>26, Handled

\* A handshake starts with a count, and what is sent to the publisher behind it.
LEMMA HandshakeStarts ==
  ASSUME NEW S, NEW sends \in Seq(S), Post(sends), NEW p \in Publishers, NEW n \in Nat,
         inbox[p] = <<>>, UNCHANGED <<proc, awaiting>>, awaiting[p] = Unknown,
         Open(p) => proc[p] = "greeting",
         \A i \in DOMAIN sends : sends[i].to = p => /\ sends[i].type = "count" <=> i = 1
                                                    /\ sends[i].type # "SubscriberDisconnected",
         sends # <<>> => sends[1].to = p /\ sends[1].count = n,
         broker' = "up" => AllSent(sends) /\ sends # <<>>,
         broker' = "up" => \A k \in 1 .. n : 2 * k \in DOMAIN sends /\ sends[2 * k].to = p
  PROVE  Handshake(p)'
<1> DEFINE v == inbox'[p]
           c == SentCount(sends)
<1>1. v = Arrives(sends, p) /\ v \in Seq(S)
  <2>1. p \in Clients
    BY Given
  <2>2. inbox'[p] = <<>> \o Arrives(sends, p)
    BY <2>1 DEF Post
  <2>3. Arrives(sends, p) \in Seq(S)
    BY ArrivesIs
  <2> DEFINE a == Arrives(sends, p)
  <2>4. a \in Seq(S) /\ inbox'[p] = <<>> \o a
    BY <2>2, <2>3
  <2> HIDE DEF a
  <2>5. inbox'[p] = a
    BY <2>4, ConcatEmptySeq
  <2> QED BY <2>4, <2>5 DEF a
<1>2. PICK h : Picks(h, v, sends, p, c)
  BY <1>1, ArrivesIs
<1>3. /\ DOMAIN sends = 1 .. Len(sends) /\ Len(sends) \in Nat
      /\ DOMAIN v = 1 .. Len(v) /\ Len(v) \in Nat /\ (v = <<>> <=> Len(v) = 0)
      /\ (sends = <<>> <=> Len(sends) = 0)
  BY <1>1, LenProperties, EmptySeq
<1>4. c \in 0 .. Len(sends) /\ \A i \in 1 .. c : Reaches(sends, i)
  BY <1>3, SentCountIs
<1> HIDE DEF v, c
<1>5. ASSUME NEW k \in 1 .. Len(v)
      PROVE  /\ h[k] \in 1 .. c /\ h[k] \in DOMAIN sends /\ v[k] = sends[h[k]] /\ sends[h[k]].to = p
             /\ Open(p)
  <2>1. h[k] \in 1 .. c /\ v[k] = sends[h[k]] /\ sends[h[k]].to = p
    BY <1>2 DEF Picks
  <2>2. h[k] \in DOMAIN sends
    BY <1>3, <1>4, <2>1
  <2>3. Open(p)
    BY <1>4, <2>1 DEF Reaches
  <2> QED BY <2>1, <2>2, <2>3
<1>6. ASSUME NEW k \in 1 .. Len(v) PROVE h[k] = 1 <=> k = 1
  <2>1. 1 \in 1 .. Len(v) /\ 1 \in 1 .. c /\ sends # <<>>
    BY <1>3, <1>4, <1>5
  <2>2. PICK j \in 1 .. Len(v) : h[j] = 1
    BY <1>2, <2>1 DEF Picks
  <2>3. 1 < j => h[1] < h[j]
    BY <1>2, <2>1 DEF Picks
  <2>4. 1 < k => h[1] < h[k]
    BY <1>2, <2>1 DEF Picks
  <2>5. h[1] \in 1 .. c /\ h[k] \in 1 .. c
    BY <1>5, <2>1
  <2>6. j = 1
    BY <1>3, <1>4, <2>2, <2>3, <2>5
  <2> QED BY <1>3, <1>4, <2>2, <2>4, <2>5, <2>6
<1>7. ASSUME NEW k \in DOMAIN v
      PROVE  /\ v[k].type = "count" <=> proc[p] = "greeting" /\ awaiting[p] = Unknown /\ k = 1
             /\ v[k].type # "SubscriberDisconnected"
  <2>1. k \in 1 .. Len(v)
    BY <1>3
  <2>2. proc[p] = "greeting" /\ v[k] = sends[h[k]] /\ sends[h[k]].to = p /\ h[k] \in DOMAIN sends
    BY <1>5, <2>1
  <2>3. v[k].type = "count" <=> h[k] = 1
    BY <2>2
  <2>4. h[k] = 1 <=> k = 1
    BY <1>6, <2>1
  <2> QED BY <2>2, <2>3, <2>4
<1>8. ASSUME broker' = "up" PROVE v # <<>> /\ v[1].count = n /\ Len(v) >= n + 1
  <2>1. c = Len(sends) /\ sends # <<>>
    BY <1>8 DEF AllSent, c
  <2> DEFINE t(i) == IF i = 1 THEN 1 ELSE 2 * (i - 1)
  <2>2. ASSUME NEW i \in 1 .. n + 1 PROVE t(i) \in 1 .. c /\ sends[t(i)].to = p
    <3>1. CASE i = 1
      BY <1>3, <2>1, <3>1
    <3>2. CASE i # 1
      <4>1. i - 1 \in 1 .. n
        BY <3>2
      <4>2. 2 * (i - 1) \in DOMAIN sends /\ sends[2 * (i - 1)].to = p
        BY <1>8, <4>1
      <4> QED BY <1>3, <2>1, <3>2, <4>2
    <3> QED BY <3>1, <3>2
  <2>3. ASSUME NEW i \in 1 .. n + 1, NEW j \in 1 .. n + 1, t(i) = t(j) PROVE i = j
    BY <2>3
  <2> HIDE DEF t
  <2> DEFINE g == [i \in 1 .. n + 1 |-> CHOOSE k \in 1 .. Len(v) : h[k] = t(i)]
  <2>4. ASSUME NEW i \in 1 .. n + 1 PROVE g[i] \in 1 .. Len(v) /\ h[g[i]] = t(i)
    <3>1. \E k \in 1 .. Len(v) : h[k] = t(i)
      BY <1>2, <2>2 DEF Picks
    <3> QED BY <3>1
  <2>5. g \in [1 .. n + 1 -> 1 .. Len(v)]
    BY <2>4
  <2>6. \A i, j \in 1 .. n + 1 : g[i] = g[j] => i = j
    <3>1. ASSUME NEW i \in 1 .. n + 1, NEW j \in 1 .. n + 1, g[i] = g[j] PROVE i = j
      <4>1. t(i) = t(j)
        <5>1. h[g[i]] = t(i) /\ h[g[j]] = t(j)
          BY <2>4
        <5> HIDE DEF g
        <5> QED BY <3>1, <5>1
      <4> QED BY <2>3, <4>1
    <3> QED BY <3>1
  <2> HIDE DEF g
  <2>7. g \in Injection(1 .. n + 1, 1 .. Len(v))
    BY <2>5, <2>6, Fun_IsInj
  <2>8. /\ IsFiniteSet(1 .. n + 1) /\ Cardinality(1 .. n + 1) = n + 1
        /\ IsFiniteSet(1 .. Len(v)) /\ Cardinality(1 .. Len(v)) = Len(v)
    <3>1. ASSUME NEW l \in Nat PROVE IsFiniteSet(1 .. l) /\ Cardinality(1 .. l) = l
      <4>1. 1 \in Int /\ l \in Int /\ IF 1 > l THEN l = 0 ELSE l - 1 + 1 = l
        OBVIOUS
      <4>2. /\ IsFiniteSet(1 .. l)
            /\ Cardinality(1 .. l) = IF 1 > l THEN 0 ELSE l - 1 + 1
        BY <4>1, FS_Interval
      <4> QED BY <4>1, <4>2
    <3>2. n + 1 \in Nat /\ Len(v) \in Nat
      BY <1>3
    <3> HIDE DEF v
    <3> QED BY <3>1, <3>2
  <2>9. n + 1 <= Len(v)
    <3> DEFINE A == 1 .. n + 1
               B == 1 .. Len(v)
    <3>1. g \in Injection(A, B) /\ IsFiniteSet(B)
      BY <2>7, <2>8
    <3> HIDE DEF A, B
    <3>2. Cardinality(A) <= Cardinality(B)
      BY <3>1, FS_Injection
    <3> QED BY <2>8, <3>2 DEF A, B
  <2>10. 1 \in 1 .. Len(v) /\ v # <<>>
    BY <1>3, <2>9
  <2>11. v[1] = sends[1]
    BY <1>5, <1>6, <2>10
  <2> QED BY <1>3, <2>1, <2>9, <2>10, <2>11
<1>9. broker' = "up" => v # <<>> /\ Len(v) >= Expected(p)'
  <2>1. Expected(p)' = v[1].count + 1
    BY DEF Expected, v
  <2> QED BY <1>8, <2>1
<1>10. awaiting[p] # 0
  BY DEF Unknown
<1> QED BY <1>7, <1>9, <1>10 DEF Handshake, v

LEMMA PublisherRegistrationSocketStep ==
  ASSUME IInv, IInv', SocketInv, NEW p \in Publishers, HandlePublisherRegistration(p)
  PROVE  SocketInv'
<1> DEFINE subs == topicSubs[TopicOf[p]]
           fits == Len(subs) <= SlotCount
           n == IF fits THEN Len(subs) ELSE 0
           L == Len(granted)
           more == [k \in 1 .. n |-> Attachment(subs[k], p, k - 1)]
           news(j) == LET k == (j + 1) \div 2 IN
                      IF j % 2 = 1 THEN Registered(p, k - 1, L + k) ELSE Batch(subs[k], <<L + k>>)
           rest == [j \in 1 .. 2 * Len(subs) |-> news(j)]
           sends == IF fits THEN <<CountPacket(p, Len(subs))>> \o rest ELSE <<>>
           Records == [sub : Subscribers, pub : Publishers, slot : Slot]
<1>1. /\ broker = "up" /\ pending[p] /\ role[p] = "none"
      /\ pending' = [pending EXCEPT ![p] = FALSE]
      /\ role' = [role EXCEPT ![p] = "publisher"]
      /\ granted' = granted \o more
      /\ attach' = [s \in Subscribers |->
                      IF \E k \in 1 .. n : subs[k] = s
                        THEN Append(attach[s], Len(granted) + CHOOSE k \in 1 .. n : subs[k] = s)
                        ELSE attach[s]]
      /\ Post(sends)
      /\ broker' = "up" => AllSent(sends) /\ fits
      /\ UNCHANGED <<proc, awaiting, tracked, installed>>
  BY DEF HandlePublisherRegistration, HasRoom, clients
<1>2. /\ BrokerTypeOK /\ ListsInv /\ AttachmentsInv /\ SlotsInv /\ BrokerTypeOK'
      /\ ConnectionInv /\ ClientTypeOK /\ TenantsInv
  BY <1>1, SocketParts DEF IInv, TablesInv
<1>3. /\ subs \in Seq(Subscribers) /\ IsInjective(subs) /\ Len(subs) \in Nat
      /\ DOMAIN subs = 1 .. Len(subs)
      /\ \A k \in 1 .. Len(subs) : subs[k] \in Subscribers /\ role[subs[k]] = "subscriber"
  <2>1. TopicOf[p] \in Topics
    BY Given
  <2>2. subs \in Seq(Subscribers) /\ IsInjective(subs)
    BY <1>2, <2>1 DEF BrokerTypeOK, ListsInv
  <2>3. \A s \in Subscribers : s \in Range(subs) => role[s] = "subscriber"
    BY <1>2, <2>1 DEF ListsInv
  <2> HIDE DEF subs
  <2> QED BY <2>2, <2>3, LenProperties, ElementOfSeq DEF Range
<1>4. n \in 0 .. Len(subs) /\ n \in Nat /\ n <= SlotCount /\ (fits => n = Len(subs))
  <2>1. Len(subs) \in Nat /\ SlotCount \in Nat
    BY <1>3, Given
  <2> HIDE DEF subs
  <2> QED BY <2>1
<1> HIDE DEF subs, n, fits
<1>5. ASSUME NEW k \in 1 .. n
      PROVE  /\ k \in 1 .. Len(subs) /\ subs[k] \in Subscribers /\ role[subs[k]] = "subscriber"
             /\ k - 1 \in Slot /\ k \in Nat
  <2>1. k \in 1 .. Len(subs) /\ k - 1 \in 0 .. SlotCount - 1
    <3>1. SlotCount \in Nat /\ Len(subs) \in Nat
      BY <1>3, Given
    <3> QED BY <1>4, <3>1
  <2> QED BY <1>3, <2>1 DEF Slot
<1>6. /\ more \in Seq(Records) /\ Len(more) = n
      /\ \A k \in 1 .. n : more[k].sub = subs[k] /\ more[k].pub = p /\ more[k].slot = k - 1
  <2>1. \A k \in 1 .. n : more[k] \in Records
    BY <1>5 DEF Attachment
  <2>2. more \in Seq(Records) /\ Len(more) = n
    BY <1>4, <2>1
  <2> QED BY <2>2 DEF Attachment
<1> HIDE DEF more
<1>7. /\ Ids \subseteq Ids' /\ Seq(Ids) \subseteq Seq(Ids') /\ L \in Nat /\ Ids = 1 .. L
      /\ \A id \in Ids : granted'[id] = granted[id]
      /\ \A k \in 1 .. n : /\ L + k \in Ids' \ Ids /\ granted'[L + k].sub = subs[k]
                           /\ granted'[L + k].pub = p /\ granted'[L + k].slot = k - 1
      /\ \A id \in Ids' : id \in Ids \/ \E k \in 1 .. n : id = L + k
  <2>1. /\ Ids \subseteq Ids' /\ Seq(Ids) \subseteq Seq(Ids')
        /\ \A id \in Ids : granted'[id] = granted[id]
        /\ \A k \in 1 .. n : L + k \in Ids' \ Ids /\ granted'[L + k] = more[k]
        /\ Ids' = Ids \cup {L + k : k \in 1 .. n}
    BY <1>1, <1>2, <1>6, GrantsGrow
  <2> QED BY <1>2, <1>6, <2>1, Granted
<1>8. ASSUME NEW k \in 1 .. n
      PROVE  Range(attach'[subs[k]]) = Range(attach[subs[k]]) \cup {L + k}
  <2>1. (CHOOSE l \in 1 .. n : subs[l] = subs[k]) = k
    <3>1. \A l \in 1 .. n : subs[l] = subs[k] => l = k
      BY <1>3, <1>5 DEF IsInjective
    <3> QED BY <3>1
  <2>2. attach'[subs[k]] = Append(attach[subs[k]], L + k)
    BY <1>1, <1>5, <2>1
  <2>3. attach[subs[k]] \in Seq(Ids') /\ L + k \in Ids'
    BY <1>2, <1>5, <1>7, Granted
  <2> QED BY <2>2, <2>3, Appended
<1>9. /\ \A s \in Subscribers : (\A k \in 1 .. n : subs[k] # s) => attach'[s] = attach[s]
      /\ \A s \in Subscribers : Range(attach[s]) \subseteq Range(attach'[s])
  <2>1. \A s \in Subscribers : (\A k \in 1 .. n : subs[k] # s) => attach'[s] = attach[s]
    BY <1>1
  <2> QED BY <1>8, <2>1
<1>10. /\ \A c \in Clients \ {p} : role'[c] = role[c] /\ pending'[c] = pending[c]
       /\ role'[p] = "publisher" /\ pending'[p] = FALSE /\ pending' \in [Clients -> BOOLEAN]
       /\ p \in Clients /\ p \in Endpoints /\ p \notin Subscribers
       /\ \A q \in Publishers \ {p} : role'[q] = role[q]
       /\ \A s \in Subscribers : role'[s] = role[s]
  BY <1>1, <1>2, Given DEF BrokerTypeOK, ClientTypeOK, Endpoints
\* Nobody has been told of the publisher.
<1>11. \A id \in Ids : granted[id].pub # p
  BY <1>1, <1>2 DEF TenantsInv
\* The packets.
<1>12. ASSUME NEW k \in 1 .. n
       PROVE  /\ Registered(p, k - 1, L + k) \in Packets(Ids')
              /\ Registered(p, k - 1, L + k).to = p
              /\ Registered(p, k - 1, L + k).type = "SubscriberEventFdAndSlot"
              /\ Registered(p, k - 1, L + k).slot = k - 1 /\ Registered(p, k - 1, L + k).id = L + k
              /\ \A key : Says(Registered(p, k - 1, L + k), key) = IF k - 1 = key THEN L + k ELSE Silent
              /\ Batch(subs[k], <<L + k>>) \in Packets(Ids')
              /\ Batch(subs[k], <<L + k>>).to = subs[k]
              /\ Batch(subs[k], <<L + k>>).type = "SubscriberAttachmentBatch"
              /\ \A key : Says(Batch(subs[k], <<L + k>>), key) = IF key = L + k THEN key ELSE Silent
  <2>1. PICK x \in Slot, id \in Ids', s \in Subscribers : x = k - 1 /\ id = L + k /\ s = subs[k]
    BY <1>5, <1>7
  <2>2. /\ <<id>> \in Seq(Ids') /\ Len(<<id>>) <= MaxBatch
        /\ \A key : key \in Range(<<id>>) <=> key = id
    <3>1. <<id>> \in Seq(Ids') /\ DOMAIN <<id>> = {1} /\ <<id>>[1] = id /\ Len(<<id>>) = 1
      OBVIOUS
    <3>2. 1 <= MaxBatch
      BY SizesAssumption
    <3> QED BY <3>1, <3>2 DEF Range
  <2>3. PICK ids \in Seq(Ids') : ids = <<id>>
    BY <2>2
  <2>4. /\ Batch(s, ids) \in Packets(Ids') /\ Batch(s, ids).to = s
        /\ Batch(s, ids).type = "SubscriberAttachmentBatch"
        /\ \A key : Says(Batch(s, ids), key) = IF key \in Range(ids) THEN key ELSE Silent
    BY <2>2, <2>3, BatchPacket
  <2>5. \A key : key \in Range(ids) <=> key = id
    BY <2>2, <2>3
  <2>6. /\ Registered(p, x, id) \in Packets(Ids') /\ Registered(p, x, id).to = p
        /\ Registered(p, x, id).type = "SubscriberEventFdAndSlot"
        /\ Registered(p, x, id).slot = x /\ Registered(p, x, id).id = id
        /\ \A key : Says(Registered(p, x, id), key) = IF x = key THEN id ELSE Silent
    BY RegisteredPacket
  <2> QED BY <2>1, <2>3, <2>4, <2>5, <2>6
<1>13. \A k \in 1 .. n : /\ news(2 * k - 1) = Registered(p, k - 1, L + k)
                         /\ news(2 * k) = Batch(subs[k], <<L + k>>)
  <2>1. ASSUME NEW k \in 1 .. n
        PROVE  /\ (2 * k - 1) % 2 = 1 /\ ((2 * k - 1) + 1) \div 2 = k
               /\ (2 * k) % 2 # 1 /\ ((2 * k) + 1) \div 2 = k
    BY <1>4
  <2> QED BY <2>1
<1>14. \A j \in 1 .. 2 * n : \E k \in 1 .. n : j = 2 * k - 1 \/ j = 2 * k
  <2>1. ASSUME NEW j \in 1 .. 2 * n PROVE \E k \in 1 .. n : j = 2 * k - 1 \/ j = 2 * k
    <3>1. /\ (j + 1) \div 2 \in 1 .. n
          /\ j = 2 * ((j + 1) \div 2) - 1 \/ j = 2 * ((j + 1) \div 2)
      BY <1>4
    <3> QED BY <3>1
  <2> QED BY <2>1
<1> HIDE DEF news
<1>15. fits =>
         /\ sends \in Seq(Packets(Ids')) /\ DOMAIN sends = 1 .. 2 * n + 1
         /\ sends[1] = CountPacket(p, n)
         /\ \A k \in 1 .. n : /\ sends[2 * k] = Registered(p, k - 1, L + k)
                              /\ sends[2 * k + 1] = Batch(subs[k], <<L + k>>)
  <2> SUFFICES ASSUME fits
               PROVE  /\ sends \in Seq(Packets(Ids')) /\ DOMAIN sends = 1 .. 2 * n + 1
                      /\ sends[1] = CountPacket(p, n)
                      /\ \A k \in 1 .. n : /\ sends[2 * k] = Registered(p, k - 1, L + k)
                                           /\ sends[2 * k + 1] = Batch(subs[k], <<L + k>>)
    OBVIOUS
  <2>1. n = Len(subs) /\ n \in Nat
    BY <1>4
  <2> DEFINE S == Packets(Ids')
             first == <<CountPacket(p, n)>>
  <2>2. rest \in Seq(S) /\ Len(rest) = 2 * n /\ \A j \in 1 .. 2 * n : rest[j] = news(j)
    <3>1. rest = [j \in 1 .. 2 * n |-> news(j)]
      BY <2>1
    <3>2. ASSUME NEW j \in 1 .. 2 * n PROVE news(j) \in S
      <4>1. PICK k \in 1 .. n : j = 2 * k - 1 \/ j = 2 * k
        BY <1>14
      <4>2. news(2 * k - 1) \in S /\ news(2 * k) \in S
        BY <1>12, <1>13
      <4> QED BY <4>1, <4>2
    <3>3. 2 * n \in Nat
      BY <2>1
    <3> HIDE DEF S, rest
    <3> DEFINE N == 2 * n
    <3>4. N \in Nat /\ rest = [j \in 1 .. N |-> news(j)] /\ \A j \in 1 .. N : news(j) \in S
      BY <3>1, <3>2, <3>3
    <3> HIDE DEF N
    <3>5. rest \in Seq(S) /\ Len(rest) = N /\ \A j \in 1 .. N : rest[j] = news(j)
      BY <3>4
    <3> QED BY <3>5 DEF N
  <2>3. first \in Seq(S) /\ Len(first) = 1 /\ first[1] = CountPacket(p, n)
    <3>1. CountPacket(p, n) \in S
      <4>1. n \in 0 .. SlotCount
        BY <1>4, Given
      <4> QED BY <4>1, CountIs
    <3> HIDE DEF S
    <3> QED BY <3>1
  <2>4. sends = first \o rest
    BY <2>1
  <2> HIDE DEF first, rest, S, sends
  <2>5. /\ sends \in Seq(S) /\ Len(sends) = 1 + 2 * n
        /\ \A i \in 1 .. 1 + 2 * n : sends[i] = IF i <= 1 THEN first[i] ELSE rest[i - 1]
    <3> DEFINE N == 2 * n
    <3>1. N \in Nat /\ Len(rest) = N /\ rest \in Seq(S) /\ first \in Seq(S) /\ Len(first) = 1
      BY <2>1, <2>2, <2>3
    <3> HIDE DEF N
    <3>2. /\ first \o rest \in Seq(S) /\ Len(first \o rest) = Len(first) + Len(rest)
          /\ \A i \in 1 .. Len(first) + Len(rest) :
               (first \o rest)[i] = IF i <= Len(first) THEN first[i] ELSE rest[i - Len(first)]
      BY <3>1, ConcatProperties
    <3>3. sends \in Seq(S) /\ Len(sends) = 1 + N
      BY <2>4, <3>1, <3>2
    <3>4. \A i \in 1 .. 1 + N : sends[i] = IF i <= 1 THEN first[i] ELSE rest[i - 1]
      BY <2>4, <3>1, <3>2
    <3> QED BY <3>3, <3>4 DEF N
  <2>6. DOMAIN sends = 1 .. 2 * n + 1
    BY <2>1, <2>5, LenProperties
  <2>7. sends[1] = CountPacket(p, n)
    BY <2>1, <2>3, <2>5
  <2>8. ASSUME NEW k \in 1 .. n
        PROVE  /\ sends[2 * k] = Registered(p, k - 1, L + k)
               /\ sends[2 * k + 1] = Batch(subs[k], <<L + k>>)
    <3>1. /\ 2 * k \in 1 .. 1 + 2 * n /\ ~(2 * k <= 1) /\ 2 * k - 1 \in 1 .. 2 * n
          /\ 2 * k + 1 \in 1 .. 1 + 2 * n /\ ~(2 * k + 1 <= 1) /\ 2 * k \in 1 .. 2 * n
          /\ (2 * k + 1) - 1 = 2 * k
      BY <2>1
    <3>2. sends[2 * k] = rest[2 * k - 1]
      BY <2>5, <3>1
    <3>3. sends[2 * k + 1] = rest[2 * k]
      BY <2>5, <3>1
    <3>4. rest[2 * k - 1] = news(2 * k - 1) /\ rest[2 * k] = news(2 * k)
      BY <2>2, <3>1
    <3> QED BY <1>13, <3>2, <3>3, <3>4
  <2> QED BY <2>5, <2>6, <2>7, <2>8 DEF S
<1>16. ~fits => sends = <<>> /\ sends \in Seq(Packets(Ids')) /\ DOMAIN sends = {}
  <2>1. ~fits => sends = <<>>
    OBVIOUS
  <2> HIDE DEF sends
  <2> QED BY <2>1
<1> HIDE DEF sends, rest
<1>17. CountPacket(p, n).to = p /\ CountPacket(p, n).type = "count" /\ CountPacket(p, n).count = n
       /\ \A key : Says(CountPacket(p, n), key) = Silent
  BY <1>4, CountIs
<1>18. /\ fits => 1 \in DOMAIN sends
       /\ \A k \in 1 .. n : fits => 2 * k \in DOMAIN sends /\ 2 * k + 1 \in DOMAIN sends
       /\ \A i \in DOMAIN sends : /\ fits
                                  /\ i = 1 \/ \E k \in 1 .. n : i = 2 * k \/ i = 2 * k + 1
       /\ sends # <<>> <=> fits
  <2>1. ASSUME fits, NEW k \in 1 .. n PROVE 2 * k \in DOMAIN sends /\ 2 * k + 1 \in DOMAIN sends
    BY <1>4, <1>15, <2>1
  <2>2. ASSUME NEW i \in DOMAIN sends, i # 1 PROVE \E k \in 1 .. n : i = 2 * k \/ i = 2 * k + 1
    <3>1. i - 1 \in 1 .. 2 * n
      BY <1>4, <1>15, <1>16, <2>2
    <3>2. PICK k \in 1 .. n : i - 1 = 2 * k - 1 \/ i - 1 = 2 * k
      BY <1>14, <3>1
    <3>3. i \in Nat
      BY <1>4, <1>15, <1>16, <2>2
    <3>4. i = 2 * k \/ i = 2 * k + 1
      BY <1>4, <3>2, <3>3
    <3> QED BY <3>4
  <2>3. fits => 1 \in DOMAIN sends
    BY <1>4, <1>15
  <2>4. DOMAIN <<>> = {}
    OBVIOUS
  <2> QED BY <1>16, <2>1, <2>2, <2>3, <2>4
<1>19. \A k \in 1 .. n : L + k # NoId /\ L + k # Silent
  BY <1>4, <1>7 DEF NoId, Silent
\* The leases.
<1>20. ASSUME NEW q \in Publishers, NEW x \in Slot, NEW id
       PROVE  Has(q, x, id)' <=> \/ Has(q, x, id)
                                 \/ \E k \in 1 .. n : q = p /\ x = k - 1 /\ id = L + k
  <2>1. ASSUME Has(q, x, id)'
        PROVE  Has(q, x, id) \/ \E k \in 1 .. n : q = p /\ x = k - 1 /\ id = L + k
    <3>1. PICK r \in Subscribers : id \in Range(attach'[r]) /\ granted'[id].pub = q /\ granted'[id].slot = x
      BY <2>1 DEF Has
    <3>2. CASE id \in Range(attach[r])
      <4>1. id \in Ids
        BY <1>2, <3>2, Granted
      <4> QED BY <1>7, <3>1, <3>2, <4>1 DEF Has
    <3>3. CASE id \notin Range(attach[r])
      <4>1. PICK k \in 1 .. n : subs[k] = r
        BY <1>9, <3>1, <3>3
      <4>2. id = L + k
        BY <1>8, <3>1, <3>3, <4>1
      <4>3. granted'[L + k].pub = p /\ granted'[L + k].slot = k - 1
        BY <1>7
      <4>4. q = p /\ x = k - 1
        BY <3>1, <4>2, <4>3
      <4> QED BY <4>2, <4>4
    <3> QED BY <3>2, <3>3
  <2>2. ASSUME Has(q, x, id) PROVE Has(q, x, id)'
    <3>1. PICK r \in Subscribers : id \in Range(attach[r]) /\ granted[id].pub = q /\ granted[id].slot = x
      BY <2>2 DEF Has
    <3>2. id \in Ids /\ id \in Range(attach'[r])
      BY <1>2, <1>9, <3>1, Granted
    <3> QED BY <1>7, <3>1, <3>2 DEF Has
  <2>3. ASSUME NEW k \in 1 .. n, q = p, x = k - 1, id = L + k PROVE Has(q, x, id)'
    <3>1. /\ subs[k] \in Subscribers /\ L + k \in Range(attach'[subs[k]])
          /\ granted'[L + k].pub = p /\ granted'[L + k].slot = k - 1
      BY <1>5, <1>7, <1>8
    <3> QED BY <2>3, <3>1 DEF Has
  <2> QED BY <2>1, <2>2, <2>3
<1>21. ASSUME NEW x \in Slot, NEW id PROVE ~Has(p, x, id)
  <2>1. ASSUME NEW r \in Subscribers, id \in Range(attach[r]) PROVE granted[id].pub # p
    <3>1. id \in Ids
      BY <1>2, <2>1, Granted
    <3> QED BY <1>11, <3>1
  <2> QED BY <2>1 DEF Has
\* What is sent to whom.
<1>22. ASSUME NEW k \in 1 .. n
       PROVE  /\ fits => /\ sends[2 * k].to = p /\ sends[2 * k].type = "SubscriberEventFdAndSlot"
                         /\ sends[2 * k].slot = k - 1 /\ sends[2 * k].id = L + k
                         /\ \A key : Says(sends[2 * k], key) = IF k - 1 = key THEN L + k ELSE Silent
                         /\ sends[2 * k + 1].to = subs[k]
                         /\ sends[2 * k + 1].type = "SubscriberAttachmentBatch"
                         /\ \A key : Says(sends[2 * k + 1], key) = IF key = L + k THEN key ELSE Silent
  <2>1. fits => /\ sends[2 * k] = Registered(p, k - 1, L + k)
                /\ sends[2 * k + 1] = Batch(subs[k], <<L + k>>)
    BY <1>15
  <2>2. PICK m, b : m = Registered(p, k - 1, L + k) /\ b = Batch(subs[k], <<L + k>>)
    OBVIOUS
  <2>3. /\ m.to = p /\ m.type = "SubscriberEventFdAndSlot" /\ m.slot = k - 1 /\ m.id = L + k
        /\ \A key : Says(m, key) = IF k - 1 = key THEN L + k ELSE Silent
        /\ b.to = subs[k] /\ b.type = "SubscriberAttachmentBatch"
        /\ \A key : Says(b, key) = IF key = L + k THEN key ELSE Silent
    BY <1>12, <2>2
  <2>4. fits => sends[2 * k] = m /\ sends[2 * k + 1] = b
    BY <2>1, <2>2
  <2> QED BY <2>3, <2>4
<1>23. fits => /\ sends[1].to = p /\ sends[1].type = "count" /\ sends[1].count = n
               /\ \A key : Says(sends[1], key) = Silent
  BY <1>15, <1>17
<1>24. \A k, l \in 1 .. n : /\ 2 * k # 1 /\ 2 * k + 1 # 1 /\ 2 * k # 2 * l + 1
                            /\ (2 * k = 2 * l => k = l) /\ (2 * k + 1 = 2 * l + 1 => k = l)
                            /\ (k - 1 = l - 1 => k = l) /\ (L + k = L + l => k = l)
  <2>1. ASSUME NEW k \in 1 .. n, NEW l \in 1 .. n
        PROVE  /\ 2 * k # 1 /\ 2 * k + 1 # 1 /\ 2 * k # 2 * l + 1
               /\ (2 * k = 2 * l => k = l) /\ (2 * k + 1 = 2 * l + 1 => k = l)
               /\ (k - 1 = l - 1 => k = l) /\ (L + k = L + l => k = l)
    <3>1. k \in Int /\ l \in Int /\ L \in Int
      BY <1>4, <1>7
    <3> QED BY <3>1
  <2> QED BY <2>1
<1>25. ASSUME NEW c \in Endpoints, proc[c] # "dead", NEW key \in Keys(c)
       PROVE  Turns(sends, c, key)
  <2> DEFINE about == {i \in DOMAIN sends : sends[i].to = c /\ Says(sends[i], key) # Silent}
  <2>1. \A i \in about : /\ fits /\ i \in DOMAIN sends /\ sends[i].to = c /\ Says(sends[i], key) # Silent
                         /\ \E k \in 1 .. n : i = 2 * k \/ i = 2 * k + 1
    BY <1>18, <1>23
  <2>2. \A i \in DOMAIN sends : sends[i].to = c /\ Says(sends[i], key) # Silent => i \in about
    OBVIOUS
  <2> HIDE DEF about
  <2>3. CASE c \in Publishers
    <3>1. /\ key \in Slot /\ Leases(c, key) = Lease(c, key) /\ Leases(c, key)' = Lease(c, key)'
          /\ \A k \in 1 .. n : subs[k] # c
      BY <1>5, <2>3, Given DEF Keys, Leases
    <3>2. ASSUME NEW i \in about
          PROVE  \E k \in 1 .. n : i = 2 * k /\ k - 1 = key /\ c = p /\ fits
      <4>1. PICK k \in 1 .. n : i = 2 * k \/ i = 2 * k + 1
        BY <2>1
      <4>2. i = 2 * k
        BY <1>22, <2>1, <3>1, <4>1, SMTT(30)
      <4>3. fits /\ sends[2 * k].to = c /\ Says(sends[2 * k], key) # Silent
        BY <2>1, <4>2
      <4>4. k - 1 = key /\ c = p
        BY <1>22, <4>3
      <4> QED BY <4>2, <4>3, <4>4
    <3>3. \A i, j \in about : i = j
      <4>1. ASSUME NEW i \in about, NEW j \in about PROVE i = j
        <5>1. PICK k \in 1 .. n : i = 2 * k /\ k - 1 = key
          BY <3>2
        <5>2. PICK l \in 1 .. n : j = 2 * l /\ l - 1 = key
          BY <3>2
        <5> QED BY <1>24, <5>1, <5>2
      <4> QED BY <4>1
    <3>4. ASSUME NEW i \in about
          PROVE  /\ Says(sends[i], key) # NoId /\ Lease(c, key) = NoId
                 /\ broker' = "up" => Lease(c, key)' = Says(sends[i], key)
      <4>1. PICK k \in 1 .. n : i = 2 * k /\ k - 1 = key /\ c = p /\ fits
        BY <3>2
      <4>2. PICK id : id = L + k
        OBVIOUS
      <4>3. Says(sends[i], key) = id /\ id # NoId
        BY <1>19, <1>22, <4>1, <4>2
      <4>4. Lease(c, key) = NoId
        BY <1>1, <1>21, <2>3, <3>1, <4>1, LeaseOf
      <4>5. Has(c, key, id)'
        BY <1>20, <2>3, <3>1, <4>1, <4>2
      <4>6. broker' = "up" => Lease(c, key)' = id
        BY <2>3, <3>1, <4>5, LeaseAfter
      <4> QED BY <4>3, <4>4, <4>6
    <3>5. ASSUME broker' = "up", about = {} PROVE Lease(c, key)' = Lease(c, key)
      <4>1. \A id : Has(c, key, id)' <=> Has(c, key, id)
        <5>1. ASSUME NEW k \in 1 .. n, c = p, key = k - 1 PROVE FALSE
          <6>1. 2 * k \in DOMAIN sends /\ sends[2 * k].to = c /\ Says(sends[2 * k], key) = L + k
            BY <1>1, <1>18, <1>22, <3>5, <5>1
          <6> QED BY <1>19, <2>2, <3>5, <6>1
        <5> QED BY <1>20, <2>3, <3>1, <5>1
      <4>2. CASE Lease(c, key) = NoId
        BY <1>1, <2>3, <3>1, <3>5, <4>1, <4>2, LeaseOf, LeaseAfter
      <4>3. CASE Has(c, key, Lease(c, key))
        BY <2>3, <3>1, <3>5, <4>1, <4>3, LeaseAfter
      <4> QED BY <1>1, <2>3, <3>1, <4>2, <4>3, LeaseOf
    <3>6. /\ \A i, j \in about : i = j
          /\ \A i \in about : /\ Says(sends[i], key) = NoId <=> Leases(c, key) # NoId
                              /\ broker' = "up" => Leases(c, key)' = Says(sends[i], key)
          /\ broker' = "up" /\ about = {} => Leases(c, key)' = Leases(c, key)
      BY <3>1, <3>3, <3>4, <3>5
    <3> QED BY <3>6 DEF Turns, about
  <2>4. CASE c \in Subscribers
    <3>1. /\ key # NoId /\ key # Silent /\ c # p /\ c \notin Publishers
          /\ Leases(c, key) = IF key \in Range(attach[c]) THEN key ELSE NoId
          /\ Leases(c, key)' = IF key \in Range(attach'[c]) THEN key ELSE NoId
      BY <2>4, Given DEF Keys, Leases, NoId, Silent
    <3>2. ASSUME NEW i \in about
          PROVE  \E k \in 1 .. n : i = 2 * k + 1 /\ subs[k] = c /\ key = L + k /\ fits
      <4>1. PICK k \in 1 .. n : i = 2 * k \/ i = 2 * k + 1
        BY <2>1
      <4>2. i = 2 * k + 1
        BY <1>22, <2>1, <3>1, <4>1
      <4>3. fits /\ sends[2 * k + 1].to = c /\ Says(sends[2 * k + 1], key) # Silent
        BY <2>1, <4>2
      <4>4. subs[k] = c /\ key = L + k
        BY <1>22, <4>3
      <4> QED BY <4>2, <4>3, <4>4
    <3>3. \A i, j \in about : i = j
      <4>1. ASSUME NEW i \in about, NEW j \in about PROVE i = j
        <5>1. PICK k \in 1 .. n : i = 2 * k + 1 /\ key = L + k
          BY <3>2
        <5>2. PICK l \in 1 .. n : j = 2 * l + 1 /\ key = L + l
          BY <3>2
        <5> QED BY <1>24, <5>1, <5>2
      <4> QED BY <4>1
    <3>4. ASSUME NEW i \in about
          PROVE  /\ Says(sends[i], key) = key /\ key \notin Range(attach[c])
                 /\ key \in Range(attach'[c])
      <4>1. PICK k \in 1 .. n : i = 2 * k + 1 /\ subs[k] = c /\ key = L + k /\ fits
        BY <3>2
      <4>2. key \notin Ids
        BY <1>7, <4>1
      <4>3. key \notin Range(attach[c])
        BY <1>2, <2>4, <4>2, Granted
      <4>4. key \in Range(attach'[c])
        BY <1>8, <4>1
      <4> QED BY <1>22, <4>1, <4>3, <4>4
    <3>5. ASSUME broker' = "up", about = {}
          PROVE  key \in Range(attach'[c]) <=> key \in Range(attach[c])
      <4>1. ASSUME NEW k \in 1 .. n, subs[k] = c PROVE key # L + k
        <5>1. SUFFICES ASSUME key = L + k PROVE FALSE
          OBVIOUS
        <5>2. 2 * k + 1 \in DOMAIN sends /\ sends[2 * k + 1].to = c /\ Says(sends[2 * k + 1], key) = key
          BY <1>1, <1>18, <1>22, <3>5, <4>1, <5>1
        <5> QED BY <2>2, <3>1, <3>5, <5>2
      <4>2. CASE \E k \in 1 .. n : subs[k] = c
        BY <1>8, <4>1, <4>2
      <4>3. CASE \A k \in 1 .. n : subs[k] # c
        BY <1>9, <2>4, <4>3
      <4> QED BY <4>2, <4>3
    <3>6. /\ \A i, j \in about : i = j
          /\ \A i \in about : /\ Says(sends[i], key) = NoId <=> Leases(c, key) # NoId
                              /\ broker' = "up" => Leases(c, key)' = Says(sends[i], key)
          /\ broker' = "up" /\ about = {} => Leases(c, key)' = Leases(c, key)
      BY <3>1, <3>3, <3>4, <3>5
    <3> QED BY <3>6 DEF Turns, about
  <2> QED BY <2>3, <2>4 DEF Endpoints
<1>26. proc[p] \in {"greeting", "dead"} /\ inbox[p] = <<>> /\ awaiting[p] = Unknown
  BY <1>1, <1>2, <1>10 DEF ConnectionInv, ClientTypeOK
<1>27. ASSUME NEW i \in DOMAIN sends
       PROVE  /\ role'[sends[i].to] # "none" /\ proc[sends[i].to] # "off"
              /\ True(sends[i]) /\ (sends[i].type = "count" <=> i = 1)
              /\ sends[i].to = p \/ sends[i].to \in Subscribers
              /\ sends[i].type # "SubscriberDisconnected"
  <2>1. fits
    BY <1>18
  <2>2. CASE i = 1
    BY <1>10, <1>23, <1>26, <2>1, <2>2 DEF True
  <2>3. ASSUME NEW k \in 1 .. n, i = 2 * k
        PROVE  /\ role'[sends[i].to] # "none" /\ proc[sends[i].to] # "off"
               /\ True(sends[i]) /\ sends[i].type # "count"
               /\ sends[i].to = p /\ sends[i].type # "SubscriberDisconnected"
    <3>1. /\ sends[i].to = p /\ sends[i].type = "SubscriberEventFdAndSlot"
          /\ sends[i].slot = k - 1 /\ sends[i].id = L + k
      BY <1>22, <2>1, <2>3
    <3>2. ASSUME NEW id \in Ids', granted'[id].pub = p, granted'[id].slot = k - 1, id < L + k
          PROVE  FALSE
      <4>1. PICK l \in 1 .. n : id = L + l
        BY <1>7, <1>11, <3>2
      <4>2. k = l
        BY <1>7, <1>24, <3>2, <4>1
      <4> QED BY <1>4, <1>7, <3>2, <4>1, <4>2
    <3>3. True(sends[i])
      BY <3>1, <3>2 DEF True
    <3> QED BY <1>10, <1>26, <3>1, <3>3
  <2>4. ASSUME NEW k \in 1 .. n, i = 2 * k + 1
        PROVE  /\ role'[sends[i].to] # "none" /\ proc[sends[i].to] # "off"
               /\ True(sends[i]) /\ sends[i].type # "count"
               /\ sends[i].to \in Subscribers /\ sends[i].type # "SubscriberDisconnected"
    <3>1. sends[i].to = subs[k] /\ sends[i].type = "SubscriberAttachmentBatch"
      BY <1>22, <2>1, <2>4
    <3>2. subs[k] \in Subscribers /\ subs[k] \in Clients /\ role[subs[k]] = "subscriber"
      BY <1>5, Given
    <3>3. role'[subs[k]] # "none" /\ proc[subs[k]] # "off"
      BY <1>2, <1>10, <3>2 DEF ConnectionInv
    <3> QED BY <3>1, <3>2, <3>3 DEF True
  <2>5. i = 1 \/ \E k \in 1 .. n : i = 2 * k \/ i = 2 * k + 1
    BY <1>18
  <2> QED BY <1>23, <1>24, <2>1, <2>2, <2>3, <2>4, <2>5
<1>28. Sends(sends)
  <2>1. sends \in Seq(Packets(Ids'))
    BY <1>15, <1>16
  <2> QED BY <1>1, <1>2, <1>7, <1>25, <1>27, <2>1 DEF Sends, clients
<1>29. \A c \in Clients : Moves(c)
  BY <1>1, <1>10 DEF Moves
<1>30. ASSUME NEW q \in Publishers, q # p PROVE Uncounted(sends, q)
  <2>1. q \notin Subscribers /\ role'[q] = role[q]
    BY <1>10, <1>30, Given
  <2> QED BY <1>27, <1>30, <2>1 DEF Uncounted
<1>31. Handshake(p)'
  <2>1. sends \in Seq(Packets(Ids'))
    BY <1>15, <1>16
  <2>2. Open(p) => proc[p] = "greeting"
    BY <1>26 DEF Open
  <2>3. sends # <<>> => sends[1].to = p /\ sends[1].count = n
    BY <1>18, <1>23
  <2>4. broker' = "up" => /\ AllSent(sends) /\ sends # <<>>
                          /\ \A k \in 1 .. n : 2 * k \in DOMAIN sends /\ sends[2 * k].to = p
    BY <1>1, <1>18, <1>22
  <2>5. \A i \in DOMAIN sends : sends[i].to = p => /\ sends[i].type = "count" <=> i = 1
                                                   /\ sends[i].type # "SubscriberDisconnected"
    BY <1>27
  <2> QED BY <1>1, <1>4, <1>26, <2>1, <2>2, <2>3, <2>4, <2>5, HandshakeStarts
<1>32. TenantsInv'
  <2>1. ASSUME NEW id \in Ids'
        PROVE  /\ role'[granted'[id].pub] # "none"
               /\ role'[granted'[id].pub] = "publisher" =>
                    id \in Range(attach'[granted'[id].sub]) \/ proc[granted'[id].sub] = "dead"
    <3>1. CASE id \in Ids
      <4>1. /\ granted'[id] = granted[id] /\ granted[id].pub \in Publishers
            /\ granted[id].sub \in Subscribers /\ granted[id].pub # p
        BY <1>2, <1>7, <1>11, <3>1, Granted
      <4>2. /\ role[granted[id].pub] # "none"
            /\ role[granted[id].pub] = "publisher" =>
                 id \in Range(attach[granted[id].sub]) \/ proc[granted[id].sub] = "dead"
        BY <1>1, <1>2, <3>1 DEF TenantsInv
      <4> QED BY <1>9, <1>10, <4>1, <4>2
    <3>2. CASE id \notin Ids
      <4>1. PICK k \in 1 .. n : id = L + k
        BY <1>7, <3>2
      <4>2. /\ granted'[id].sub = subs[k] /\ granted'[id].pub = p /\ role'[p] = "publisher"
            /\ id \in Range(attach'[subs[k]])
        BY <1>7, <1>8, <1>10, <4>1
      <4> QED BY <4>2
    <3> QED BY <3>1, <3>2
  <2> QED BY <1>1, <2>1 DEF TenantsInv
<1> QED BY <1>10, <1>28, <1>29, <1>30, <1>31, <1>32, Handled

-----------------------------------------------------------------------------
(* The whole of it *)

LEMMA InitSockets ==
  ASSUME Init
  PROVE  SocketInv
<1>1. /\ broker = "up" /\ granted = <<>> /\ Ids = {}
      /\ \A c \in Clients : role[c] = "none" /\ ~pending[c] /\ proc[c] = "off" /\ inbox[c] = <<>>
      /\ \A p \in Publishers : awaiting[p] = Unknown /\ \A x \in Slot : tracked[p][x] = NoId
      /\ \A s \in Subscribers : attach[s] = <<>> /\ installed[s] = {}
  BY DEF Init, Ids
<1>2. /\ \A c \in Endpoints : c \in Clients
      /\ \A p \in Publishers : p \in Clients /\ p \in Endpoints
      /\ \A s \in Subscribers : s \in Clients /\ s \notin Publishers /\ s \in Endpoints
      /\ \A o \in Observers : o \in Clients
  BY Given DEF Endpoints, Clients
<1>3. /\ Len(<<>>) = 0 /\ DOMAIN <<>> = {} /\ Range(<<>>) = {} /\ \A S : <<>> \in Seq(S)
      /\ 1 .. 0 = {}
  BY DEF Range
<1>4. ClientTypeOK
  BY <1>1 DEF Init, ClientTypeOK
<1>5. PacketTypeOK
  BY <1>1, <1>2, <1>3 DEF PacketTypeOK, Init
<1>6. ConnectionInv
  BY <1>1, <1>2 DEF ConnectionInv
<1>7. HandshakeInv
  BY <1>1, <1>2, <1>3 DEF HandshakeInv, Handshake
<1>8. \A c \in Endpoints : \A key \in Keys(c) : Holds(c, key) = NoId /\ Leases(c, key) = NoId
  <2>1. ASSUME NEW p \in Publishers, NEW x PROVE Lease(p, x) = NoId
    <3>1. \A s \in Subscribers : Range(attach[s]) = {}
      BY <1>1, <1>3
    <3>2. {id \in UNION {Range(attach[s]) : s \in Subscribers} :
             granted[id].pub = p /\ granted[id].slot = x} = {}
      BY <3>1
    <3> QED BY <3>2 DEF Lease
  <2> QED BY <1>1, <1>3, <2>1 DEF Holds, Leases, Keys, Endpoints
<1>9. LedgerInv
  BY <1>1, <1>2, <1>3 DEF LedgerInv, Orderly, Saying
<1>10. AgreeInv
  <2>1. ASSUME NEW c \in Endpoints, NEW key \in Keys(c)
        PROVE  ToldIn(c, key, Len(inbox[c]) + 1) = Holds(c, key)
    <3>1. Len(inbox[c]) + 1 = 1
      BY <1>1, <1>2, <1>3
    <3> QED BY <3>1, ToldNext DEF ToldIn
  <2> QED BY <1>8, <2>1 DEF AgreeInv
<1>11. NewsInv /\ TenantsInv
  BY <1>1, <1>2, <1>3 DEF NewsInv, TenantsInv
<1> QED BY <1>4, <1>5, <1>6, <1>7, <1>9, <1>10, <1>11 DEF SocketInv

LEMMA StepSockets ==
  ASSUME IInv, SocketInv, [Next]_vars
  PROVE  SocketInv'
<1>1. IInv'
  BY StepIInv
<1>2. CASE BrokerStep
  <2>1. CASE \E s \in Subscribers : HandleSubscriberRegistration(s)
    BY <1>1, <2>1, SubscriberRegistrationSocketStep
  <2>2. CASE \E s \in Subscribers : HandleSubscriberEnd(s)
    BY <1>1, <2>2, SubscriberEndSocketStep
  <2>3. CASE \E p \in Publishers : HandlePublisherRegistration(p)
    BY <1>1, <2>3, PublisherRegistrationSocketStep
  <2>4. CASE \E p \in Publishers : HandlePublisherEnd(p)
    BY <1>1, <2>4, PublisherEndSocketStep
  <2>5. CASE \/ \E o \in Observers : HandleStatusQuery(o)
             \/ \E c \in Clients : HandleUnregisteredEnd(c)
    BY <2>5, QuietSocketStep
  <2> QED BY <1>2, <2>1, <2>2, <2>3, <2>4, <2>5 DEF BrokerStep
<1>3. CASE Shutdown
  BY <1>3, QuietSocketStep
<1>4. CASE ClientReceives
  <2>1. CASE \E p \in Publishers : ReceiveCount(p)
    BY <2>1, ReceiveCountStep
  <2>2. CASE \E p \in Publishers : ReceiveInitialRegistration(p)
    BY <2>2, ReceiveInitialRegistrationStep
  <2>3. CASE \E p \in Publishers : PublisherReceive(p)
    BY <2>3, PublisherReceiveStep
  <2>4. CASE \E s \in Subscribers : SubscriberReceive(s)
    BY <2>4, SubscriberReceiveStep
  <2> QED BY <1>4, <2>1, <2>2, <2>3, <2>4 DEF ClientReceives, PublisherStep
<1>5. CASE \E c \in Clients : Die(c)
  BY <1>5, DieSocketStep
<1>6. CASE \E c \in Clients : Connect(c) \/ Register(c) \/ BrokerClosed(c)
  BY <1>6, QuietSocketStep
<1>7. CASE UNCHANGED vars
  BY <1>7, QuietSocketStep
<1> QED BY <1>2, <1>3, <1>4, <1>5, <1>6, <1>7 DEF Next

(***************************************************************************)
(* In every state of every execution, for any number of clients, topics,   *)
(* slots and packets a socket holds, the packets on their way to a client  *)
(* lead from what it holds to what the broker has leased, in an order it   *)
(* accepts (Post in broker.cpp; poll_broker_events of both clients).       *)
(***************************************************************************)
THEOREM SocketInvariant == Spec => [](IInv /\ SocketInv)
<1>1. Init => IInv /\ SocketInv
  BY InitIInv, InitSockets
<1>2. IInv /\ SocketInv /\ [Next]_vars => IInv' /\ SocketInv'
  BY StepIInv, StepSockets
<1> QED BY <1>1, <1>2, PTL DEF Spec

(***************************************************************************)
(* The broker's tables, the clients and the packets hold values of their   *)
(* types: a packet is one its receiver has a case for, a slot is one of    *)
(* the publisher's, an id has been given out, and the count and the ids of *)
(* a batch are no more than the receiver's arrays hold (TypeOK).           *)
(***************************************************************************)
THEOREM BrokerTypeCorrect == Spec => []TypeOK
<1>1. IInv /\ SocketInv => TypeOK
  BY DEF IInv, SocketInv, TypeOK
<1> QED BY <1>1, SocketInvariant, PTL

(***************************************************************************)
(* No client meets a packet it rejects, whoever registers, dies and has    *)
(* its slot given away in whatever order, and wherever the broker stops    *)
(* half-way through its sends (NoPacketIsRejected).                        *)
(***************************************************************************)
THEOREM ClientsRejectNothing == Spec => []NoPacketIsRejected
<1>1. IInv /\ SocketInv => NoPacketIsRejected
  BY DEF SocketInv, ConnectionInv, NoPacketIsRejected
<1> QED BY <1>1, SocketInvariant, PTL

(***************************************************************************)
(* A publisher that has read the packets on their way signals in each slot *)
(* the subscriber to which the broker has leased it (PublisherAgrees).     *)
(***************************************************************************)
THEOREM PublishersAgree == Spec => []PublisherAgrees
<1>1. ASSUME IInv, SocketInv PROVE PublisherAgrees
  <2>1. SUFFICES ASSUME NEW p \in Publishers, Serving(p), NEW x \in Slot
                 PROVE  TrackedAfter(p, x) = Lease(p, x)
    BY DEF PublisherAgrees
  <2> DEFINE q == inbox[p]
             about == {k \in DOMAIN q : q[k].type # "count" /\ q[k].slot = x}
             said == {k \in 1 .. Len(q) + 1 - 1 : Saying(q, x)[k] # Silent}
  <2>2. /\ p \in Endpoints /\ x \in Keys(p) /\ proc[p] # "dead" /\ broker = "up"
        /\ BrokerTypeOK /\ AgreeInv
        /\ q \in Seq(PublisherPackets(Ids)) /\ DOMAIN q = 1 .. Len(q) /\ Len(q) \in Nat
    BY <1>1, <2>1, SocketParts DEF IInv, Endpoints, Keys, Serving, Open
  <2>3. Told(Saying(q, x), tracked[p][x], Len(q) + 1) = Lease(p, x)
    BY <2>2 DEF AgreeInv, ToldIn, Holds, Leases
  <2>4. ASSUME NEW k \in DOMAIN q
        PROVE  /\ Saying(q, x)[k] = Says(q[k], x)
               /\ Says(q[k], x) # Silent <=> q[k].type # "count" /\ q[k].slot = x
               /\ Says(q[k], x) # Silent =>
                    Says(q[k], x) = IF q[k].type = "SubscriberEventFdAndSlot" THEN q[k].id ELSE NoId
    <3>1. q[k] \in PublisherPackets(Ids)
      BY <2>2, ElementOfSeq
    <3>2. Saying(q, x)[k] = Says(q[k], x)
      BY <2>2 DEF Saying
    <3>3. (\A id \in Ids : id # Silent) /\ NoId # Silent
      BY <2>2, Granted DEF NoId, Silent
    <3> QED BY <3>1, <3>2, <3>3, PublisherPacket
  <2>5. about = said
    <3>1. 1 .. Len(q) + 1 - 1 = DOMAIN q
      BY <2>2
    <3> QED BY <2>4, <3>1
  <2>6. TrackedAfter(p, x) = IF about = {} THEN tracked[p][x]
                             ELSE IF q[Max(about)].type = "SubscriberEventFdAndSlot"
                               THEN q[Max(about)].id ELSE NoId
    BY DEF TrackedAfter
  <2>7. Told(Saying(q, x), tracked[p][x], Len(q) + 1)
          = IF said = {} THEN tracked[p][x] ELSE Saying(q, x)[Max(said)]
    BY DEF Told
  <2>8. about # {} => Max(about) \in about
    <3>1. about \in SUBSET (1 .. Len(q))
      BY <2>2
    <3> HIDE DEF about
    <3> QED BY <2>2, <3>1, Greatest
  <2>9. \A k \in about : Saying(q, x)[k] = IF q[k].type = "SubscriberEventFdAndSlot"
                                             THEN q[k].id ELSE NoId
    BY <2>4
  <2> HIDE DEF q, about, said
  <2> QED BY <2>3, <2>5, <2>6, <2>7, <2>8, <2>9
<1> QED BY <1>1, SocketInvariant, PTL

(***************************************************************************)
(* A subscriber that has read the packets on their way has mapped what the *)
(* broker has attached to it, and the broker's tables agree with           *)
(* themselves (SubscriberAgrees).                                          *)
(***************************************************************************)
THEOREM SubscribersAgree == Spec => []SubscriberAgrees
<1>1. ASSUME IInv, SocketInv, TopicTablesAgree PROVE SubscriberAgrees
  <2>1. SUFFICES ASSUME NEW s \in Subscribers, Serving(s)
                 PROVE  InstalledAfter(s) = Range(attach[s])
    BY <1>1 DEF SubscriberAgrees
  <2> DEFINE q == inbox[s]
             of(id) == {k \in DOMAIN q : IF q[k].type = "PublisherDisconnected"
                                           THEN q[k].id = id ELSE id \in Range(q[k].ids)}
  <2>2. /\ s \in Endpoints /\ s \notin Publishers /\ proc[s] # "dead" /\ broker = "up"
        /\ BrokerTypeOK /\ AgreeInv
        /\ q \in Seq(SubscriberPackets(Ids)) /\ DOMAIN q = 1 .. Len(q) /\ Len(q) \in Nat
        /\ Range(attach[s]) \subseteq Ids
    <3>1. BrokerTypeOK /\ broker = "up"
      BY <1>1, <2>1 DEF IInv, Serving
    <3> QED BY <1>1, <2>1, <3>1, SocketParts, Granted, Given DEF Endpoints, Serving, Open
  <2>3. ASSUME NEW id \in Ids
        PROVE  id \in Range(attach[s]) <=>
                 IF of(id) = {} THEN id \in installed[s]
                 ELSE q[Max(of(id))].type = "SubscriberAttachmentBatch"
    <3> DEFINE said == {k \in 1 .. Len(q) + 1 - 1 : Saying(q, id)[k] # Silent}
               start == IF id \in installed[s] THEN id ELSE NoId
               about == of(id)
    <3>1. id \in Keys(s) /\ id # NoId /\ id # Silent /\ NoId # Silent
      <4>1. id \in Nat \ {0}
        BY <2>2, Granted
      <4> QED BY <2>2, <4>1 DEF Keys, NoId, Silent
    <3>2. Told(Saying(q, id), start, Len(q) + 1) = IF id \in Range(attach[s]) THEN id ELSE NoId
      BY <2>2, <3>1 DEF AgreeInv, ToldIn, Holds, Leases
    <3>3. ASSUME NEW k \in DOMAIN q
          PROVE  /\ Saying(q, id)[k] = Says(q[k], id)
                 /\ Says(q[k], id) # Silent <=> k \in about
                 /\ Says(q[k], id) # Silent =>
                      Says(q[k], id) = IF q[k].type = "SubscriberAttachmentBatch" THEN id ELSE NoId
      <4>1. q[k] \in SubscriberPackets(Ids)
        BY <2>2, ElementOfSeq
      <4>2. Saying(q, id)[k] = Says(q[k], id)
        BY <2>2 DEF Saying
      <4>3. k \in about <=> IF q[k].type = "PublisherDisconnected"
                              THEN q[k].id = id ELSE id \in Range(q[k].ids)
        OBVIOUS
      <4> HIDE DEF about, q
      <4> QED BY <3>1, <4>1, <4>2, <4>3, SubscriberPacket
    <3>4. about = said
      <4>1. 1 .. Len(q) + 1 - 1 = DOMAIN q
        BY <2>2
      <4> QED BY <3>3, <4>1
    <3>5. Told(Saying(q, id), start, Len(q) + 1)
            = IF said = {} THEN start ELSE Saying(q, id)[Max(said)]
      BY DEF Told
    <3>6. about # {} => Max(about) \in about
      <4>1. about \in SUBSET (1 .. Len(q))
        BY <2>2
      <4> HIDE DEF about
      <4> QED BY <2>2, <4>1, Greatest
    <3>7. \A k \in about : Saying(q, id)[k] = IF q[k].type = "SubscriberAttachmentBatch"
                                                THEN id ELSE NoId
      BY <3>3
    <3>8. about = of(id)
      OBVIOUS
    <3> HIDE DEF q, about, said, of
    <3> QED BY <3>1, <3>2, <3>4, <3>5, <3>6, <3>7, <3>8
  <2>4. InstalledAfter(s) = {id \in Ids : IF of(id) = {} THEN id \in installed[s]
                                          ELSE q[Max(of(id))].type = "SubscriberAttachmentBatch"}
    BY DEF InstalledAfter
  <2> HIDE DEF q, of
  <2> QED BY <2>2, <2>3, <2>4
<1> QED BY <1>1, SocketInvariant, TopicTablesStayRight, PTL

(***************************************************************************)
(* A publisher forgets a tenant of a slot only when the tenant is dead and *)
(* takes the next when all that had the slot before are                    *)
(* (SlotsChangeHandsSafely), which the data plane counts on.               *)
(***************************************************************************)
THEOREM SlotsChangeHands == Spec => SlotsChangeHandsSafely
<1> DEFINE Safely == \A p \in Publishers, x \in Slot :
                       LET old == tracked[p][x]
                           new == tracked'[p][x] IN
                       old # new /\ Open(p)' =>
                         \A id \in Ids :
                           /\ granted[id].pub = p /\ granted[id].slot = x
                           /\ id = old \/ id < new
                           => proc[granted[id].sub] = "dead"
<1>1. ASSUME IInv, SocketInv, [Next]_vars PROVE Safely
  <2>1. SUFFICES ASSUME NEW p \in Publishers, NEW x \in Slot, tracked[p][x] # tracked'[p][x], Open(p)',
                        NEW id \in Ids, granted[id].pub = p, granted[id].slot = x,
                        id = tracked[p][x] \/ id < tracked'[p][x]
                 PROVE  proc[granted[id].sub] = "dead"
    OBVIOUS
  <2>2. /\ BrokerTypeOK /\ ClientTypeOK /\ NewsInv /\ p \in Endpoints /\ p \in Clients
        /\ id \in Nat \ {0}
    BY <1>1, SocketParts, Granted, Given DEF IInv, Endpoints
  <2>3. \/ ReceiveInitialRegistration(p)
        \/ PublisherReceive(p)
    <3>1. ASSUME NEW q \in Publishers, ReceiveInitialRegistration(q) \/ PublisherReceive(q) PROVE q = p
      <4>1. q # p => tracked'[p] = tracked[p]
        BY <2>2, <3>1 DEF ReceiveInitialRegistration, PublisherReceive, ClientTypeOK
      <4> QED BY <2>1, <4>1
    <3>2. ASSUME NEW c \in Clients, Die(c) PROVE FALSE
      <4>1. c = p
        BY <2>1, <3>2 DEF Die
      <4>2. proc'[p] = "dead"
        BY <2>2, <3>2, <4>1 DEF Die, ClientTypeOK
      <4> QED BY <2>1, <4>2 DEF Open
    <3>3. tracked' # tracked
      BY <2>1
    <3>4. ASSUME BrokerStep PROVE FALSE
      <4>1. \A s \in Subscribers : ~HandleSubscriberRegistration(s) /\ ~HandleSubscriberEnd(s)
        BY <3>3 DEF HandleSubscriberRegistration, RegisterWith, HandleSubscriberEnd, clients
      <4>2. \A q \in Publishers : ~HandlePublisherRegistration(q) /\ ~HandlePublisherEnd(q)
        BY <3>3 DEF HandlePublisherRegistration, HandlePublisherEnd, clients
      <4>3. /\ \A o \in Observers : ~HandleStatusQuery(o)
            /\ \A c \in Clients : ~HandleUnregisteredEnd(c)
        BY <3>3 DEF HandleStatusQuery, HandleUnregisteredEnd, clients
      <4> QED BY <3>4, <4>1, <4>2, <4>3 DEF BrokerStep
    <3>5. ~Shutdown /\ ~UNCHANGED vars
      BY <3>3 DEF Shutdown, clients, vars
    <3>6. \A c \in Clients : ~Connect(c) /\ ~Register(c) /\ ~BrokerClosed(c)
      BY <3>3 DEF Connect, Register, BrokerClosed
    <3>7. /\ \A q \in Publishers : ~ReceiveCount(q)
          /\ \A s \in Subscribers : ~SubscriberReceive(s)
      BY <3>3 DEF ReceiveCount, SubscriberReceive
    <3> QED BY <1>1, <3>1, <3>2, <3>4, <3>5, <3>6, <3>7 DEF Next, ClientReceives, PublisherStep
  <2> DEFINE m == Head(inbox[p])
  <2>4. inbox[p] # <<>>
    BY <2>3 DEF ReceiveInitialRegistration, PublisherReceive
  <2>5. 1 \in DOMAIN inbox[p] /\ m = inbox[p][1]
    BY <1>1, <2>2, <2>4, FirstPacket
  <2>6. \/ /\ m.type = "SubscriberEventFdAndSlot" /\ tracked[p][m.slot] = NoId
           /\ tracked' = [tracked EXCEPT ![p][m.slot] = m.id]
        \/ /\ m.type = "SubscriberDisconnected"
           /\ tracked' = [tracked EXCEPT ![p][m.slot] = NoId]
    BY <2>1, <2>3 DEF ReceiveInitialRegistration, PublisherReceive, CanTrack
  <2> HIDE DEF m
  <2>7. CASE /\ m.type = "SubscriberEventFdAndSlot" /\ tracked[p][m.slot] = NoId
             /\ tracked' = [tracked EXCEPT ![p][m.slot] = m.id]
    <3>1. x = m.slot /\ tracked'[p][x] = m.id /\ tracked[p][x] = NoId
      BY <2>1, <2>2, <2>7 DEF ClientTypeOK
    <3>2. id < m.id
      BY <2>1, <2>2, <3>1 DEF NoId
    <3> QED BY <2>1, <2>2, <2>5, <2>7, <3>1, <3>2, SMTT(30) DEF NewsInv
  <2>8. CASE m.type = "SubscriberDisconnected" /\ tracked' = [tracked EXCEPT ![p][m.slot] = NoId]
    <3>1. x = m.slot /\ tracked'[p][x] = NoId
      BY <2>1, <2>2, <2>8 DEF ClientTypeOK
    <3>2. id = tracked[p][x]
      BY <2>1, <2>2, <3>1 DEF NoId
    <3>3. ToldIn(p, x, 1) = tracked[p][x]
      BY ToldNext DEF ToldIn, Holds
    <3>4. proc[granted[ToldIn(p, x, 1)].sub] = "dead"
      BY <2>2, <2>5, <2>8, <3>1 DEF NewsInv
    <3> QED BY <3>2, <3>3, <3>4
  <2> QED BY <2>6, <2>7, <2>8
<1>2. IInv /\ SocketInv /\ [Next]_vars => [Safely]_vars
  BY <1>1
<1> QED BY <1>2, SocketInvariant, PTL DEF Spec, SlotsChangeHandsSafely

=============================================================================
