----------------------- MODULE SubscriberEndpoint_proofs -----------------------
(***************************************************************************)
(* The Subscriber object keeps its descriptors, tables and messages in     *)
(* order, for any number of publishers, messages and descriptors, whatever *)
(* the packets of the broker, the signals of the publishers, the faults of *)
(* its own steps and the calls of its owner.  One inductive invariant,     *)
(* IInv, stands behind all of it; its parts are stated first.              *)
(***************************************************************************)
EXTENDS SubscriberEndpoint, ListLemmas, FiniteSetTheorems

Running == {"loop", "control", "data"}
Ending == {"promise", "announce", "deactivate", "finished"}
WorkerResults == {"None", "EpollWaitFailed", "BrokerControlMessageProcessingFailed",
                  "DataAvailableEventReadFailed", "ConsumptionFailed", "ShutdownEventReadFailed",
                  "WorkerException"}

(***************************************************************************)
(* Where the object and its thread are: the tables are filled only while   *)
(* the object is alive, only an object in asynchronous mode ends with a    *)
(* result, stop_consume() joins a thread that has left its loop, and only  *)
(* the synchronous consume() assembles a message over several reads.       *)
(***************************************************************************)
ControlInv ==
  /\ phase \in {"epoll", "connect", "register", "watch", "shutdown", "exit", "start", "alive", "gone"}
  /\ owner \in {"none", "signal", "join", "stopped"}
  /\ asynchronous \in BOOLEAN /\ active \in BOOLEAN /\ wasActive \in BOOLEAN
  /\ faults \in Nat /\ cur \in 0 .. FdLimit
  /\ phase # "alive" => /\ pc = "out" /\ owner = "none" /\ batch = {}
                        /\ Installed = {} /\ DOMAIN attachmentAt = {}
  /\ phase \notin {"alive", "gone"} => promise = "unset" /\ outcome = "nothing"
  /\ phase \in {"shutdown", "exit", "start"} => asynchronous
  /\ pc \in Ending => asynchronous
  /\ owner = "stopped" => pc = "out"
  /\ owner \in {"signal", "join"} => pc # "out" /\ asynchronous
  /\ cur = 0 <=> pc # "data"
  /\ assembled > 0 => pc = "data" /\ ~asynchronous

(***************************************************************************)
(* The thread keeps the promise it was given: the future has no value      *)
(* while the loop runs, and the loop's outcome from the moment the thread  *)
(* has set it.                                                             *)
(***************************************************************************)
WorkerInv ==
  /\ ~asynchronous => promise = "unset"
  /\ pc \in Running \cup {"promise"} => promise = "unset"
  /\ pc \in Ending => outcome \in WorkerResults
  /\ pc \in Ending \ {"promise"} \/ (owner = "stopped" /\ wasActive) => promise = outcome

(***************************************************************************)
(* The shutdown eventfd is written by stop_consume() alone, after which    *)
(* the owner joins: a loop that returns None was asked to.                 *)
(***************************************************************************)
ShutdownInv ==
  /\ ~asynchronous \/ phase \notin {"alive", "gone"} => Own("shutdown") \notin counter
  /\ ~asynchronous => ShutdownEventId \notin batch
  /\ pc \in Running /\ (Own("shutdown") \in counter \/ ShutdownEventId \in batch) => owner = "join"
  /\ asynchronous /\ outcome = "None" /\ pc \notin Running => ShutdownEventId \notin batch
  /\ pc \in Ending /\ outcome = "None" => owner = "join"

(***************************************************************************)
(* data_available_event_fd_by_attachment_id_ and                           *)
(* publisher_attachment_by_data_available_event_fd_ are inverse to each    *)
(* other; the epoll set watches the data eventfd of every attachment, the  *)
(* broker's socket and the shutdown eventfd, and nothing else.             *)
(***************************************************************************)
TablesInv ==
  /\ \A id \in Installed : /\ fdOf[id] \in DOMAIN attachmentAt
                           /\ At(id).segment = id /\ At(id).data = fdOf[id]
  /\ \A fd \in DOMAIN attachmentAt : /\ attachmentAt[fd].segment \in Installed
                                     /\ fdOf[attachmentAt[fd].segment] = fd
  /\ registered \subseteq
       {[file |-> <<"data", id>>, id |-> id] : id \in Installed} \cup
       {[file |-> Own("broker"), id |-> BrokerEventId],
        [file |-> Own("shutdown"), id |-> ShutdownEventId]}
  /\ \A id \in Installed : [file |-> <<"data", id>>, id |-> id] \in registered
  /\ phase \in {"shutdown", "exit", "start", "alive"} =>
       [file |-> Own("broker"), id |-> BrokerEventId] \in registered

\* What the k-th packet on the broker's socket is, and whose attachments wait
\* there.
IsBatch(k) == k \in DOMAIN queue /\ queue[k].type = "SubscriberAttachmentBatch"
IsEnd(k) == k \in DOMAIN queue /\ queue[k].type = "PublisherDisconnected"
Announces(k, id) == IsBatch(k) /\ id \in Range(queue[k].ids)
Waiting == {id \in Id : \E k \in DOMAIN queue : Announces(k, id)}

(***************************************************************************)
(* What the broker has sent and the subscriber has not read: a publisher   *)
(* is announced once, and once disconnected; a disconnect comes after the  *)
(* announcement it undoes.  While no step fails, a publisher that the      *)
(* broker has introduced and not ended is installed or waiting.            *)
(***************************************************************************)
Packet == [type : {"SubscriberAttachmentBatch", "PublisherDisconnected"}, ids : Seq(Id)]
QueueInv ==
  /\ queue \in Seq(Packet)
  /\ \A k \in DOMAIN queue :
       /\ IsEnd(k) => Len(queue[k].ids) = 1 /\ queue[k].ids[1] \in ended
       /\ IsBatch(k) => IsInjective(queue[k].ids) /\ Range(queue[k].ids) \subseteq 1 .. introduced
  /\ \A j, k \in DOMAIN queue, id \in Id : Announces(j, id) /\ Announces(k, id) => j = k
  /\ \A j, k \in DOMAIN queue : IsEnd(j) /\ IsEnd(k) /\ queue[j].ids = queue[k].ids => j = k
  /\ (faults = 0 /\ phase # "gone") => \A k \in DOMAIN queue : IsEnd(k) =>
       queue[k].ids[1] \in Installed \/ \E j \in 1 .. k - 1 : Announces(j, queue[k].ids[1])
  /\ ended \subseteq 1 .. introduced
  /\ \A id \in Id : id > introduced => published[id] = 0
  /\ \A id \in Id : id > introduced \/ id \in Waiting => id \notin Installed /\ delivered[id] = 0
  /\ (faults = 0 /\ phase # "gone") =>
       \A id \in (1 .. introduced) \ ended : id \in Installed \cup Waiting

(***************************************************************************)
(* An attachment's read index is at most what its publisher has committed, *)
(* and at least what the callback has seen; it falls one behind only when  *)
(* the callback has thrown and the loop is over.                           *)
(***************************************************************************)
MessagesInv ==
  /\ \A id \in Id : delivered[id] <= published[id]
  /\ \A id \in Installed :
       /\ At(id).read <= published[id]
       /\ \/ delivered[id] + (IF cur = fdOf[id] THEN assembled ELSE 0) <= At(id).read
          \/ /\ delivered[id] = At(id).read + 1 /\ outcome = "WorkerException"
             /\ pc \notin Running /\ asynchronous

\* What will make the subscriber look at publisher id's messages: the
\* publisher is about to signal or to be disconnected, an event of its is
\* pending in the kernel or in the batch, or it is being read.
Announced(id) ==
  \/ id \in ended \cup unsignalled \cup batch
  \/ id \in ready /\ <<"data", id>> \in counter
  \/ pc = "data" /\ cur = fdOf[id]

\* While no step fails and the broker lives, unread messages are announced,
\* and so are unread packets.
ProgressInv ==
  (faults = 0 /\ ~brokerGone) =>
    /\ \A id \in Installed : At(id).read < published[id] => Announced(id)
    /\ \A id \in Waiting : published[id] > 0 => id \in ended \cup unsignalled \/ <<"data", id>> \in counter
    /\ phase \in {"shutdown", "exit", "start", "alive"} /\ queue # <<>> =>
         BrokerEventId \in ready \cup batch \/ pc = "control"

\* The inductive invariant.
IInv == /\ TypeOK /\ ControlInv /\ WorkerInv /\ ShutdownInv /\ TablesInv /\ DescriptorsAreOwned
        /\ QueueInv /\ MessagesInv /\ NothingEndsByItself /\ ProgressInv

-----------------------------------------------------------------------------
\* The bounds, one by one.
LEMMA Bounds ==
  /\ Attachments \in Nat \ {0} /\ MaxMessages \in Nat \ {0} /\ FdLimit \in Nat \ {0}
  /\ MaxEvents \in Nat \ {0} /\ MaxBatch \in Nat \ {0}
  /\ MaxFaults \in Nat /\ MaxMoves \in Nat
  /\ Modes \subseteq BOOLEAN /\ BrokerMayEnd \in BOOLEAN
BY BoundsAssumption

\* What the three descriptors of an attachment are.
LEMMA Triple ==
  ASSUME NEW ids, NEW i \in Nat \ {0}
  PROVE  /\ ReceivedFile(ids, 3 * i - 2) = <<"shm", ids[i]>>
         /\ ReceivedFile(ids, 3 * i - 1) = <<"space", ids[i]>>
         /\ ReceivedFile(ids, 3 * i) = <<"data", ids[i]>>
<1>1. /\ (3 * i - 2) % 3 = 1 /\ (3 * i - 2 + 2) \div 3 = i
      /\ (3 * i - 1) % 3 = 2 /\ (3 * i - 1 + 2) \div 3 = i
      /\ (3 * i) % 3 = 0 /\ (3 * i + 2) \div 3 = i
  OBVIOUS
<1> QED BY <1>1 DEF ReceivedFile

\* Every descriptor of a batch belongs to one of its attachments.
LEMMA OfThree ==
  ASSUME NEW n \in Nat, NEW k \in 1 .. 3 * n
  PROVE  \E i \in 1 .. n : k \in {3 * i - 2, 3 * i - 1, 3 * i}
<1>1. /\ (k + 2) \div 3 \in 1 .. n
      /\ k \in {3 * ((k + 2) \div 3) - 2, 3 * ((k + 2) \div 3) - 1, 3 * ((k + 2) \div 3)}
  OBVIOUS
<1> QED BY <1>1

\* A finite set of numbers has an n-th element for every n up to its size.
LEMMA NthElement ==
  ASSUME NEW m \in Nat, NEW S \in SUBSET (1 .. m), NEW n \in 1 .. Cardinality(S)
  PROVE  \E x \in S : Cardinality({y \in S : y <= x}) = n
<1> DEFINE Has(T) == \A k \in 1 .. Cardinality(T) : \E x \in T : Cardinality({y \in T : y <= x}) = k
           Good == {l \in Nat : \A T \in SUBSET (1 .. l) : Has(T)}
<1>1. 0 \in Good
  <2>1. ASSUME NEW T \in SUBSET (1 .. 0) PROVE Has(T)
    <3>1. T = {} /\ Cardinality({}) = 0
      BY FS_EmptySet
    <3> QED BY <3>1
  <2> QED BY <2>1
<1>2. ASSUME NEW l \in Nat, l \in Good PROVE l + 1 \in Good
  <2>1. SUFFICES ASSUME NEW T \in SUBSET (1 .. l + 1) PROVE Has(T)
    OBVIOUS
  <2>2. \A U \in SUBSET (1 .. l) : Has(U)
    BY <1>2
  <2>3. IsFiniteSet(T) /\ Cardinality(T) \in Nat
    <3>1. IsFiniteSet(1 .. l + 1)
      <4>1. 1 \in Int /\ l + 1 \in Int
        OBVIOUS
      <4> QED BY <4>1, FS_Interval
    <3> QED BY <3>1, FS_Subset, FS_CardinalityType
  <2>4. CASE l + 1 \notin T
    <3>1. T \in SUBSET (1 .. l)
      BY <2>4
    <3> QED BY <2>2, <3>1
  <2>5. CASE l + 1 \in T
    <3> DEFINE U == T \ {l + 1}
    <3>1. /\ IsFiniteSet(U) /\ Cardinality(U) = Cardinality(T) - 1 /\ Cardinality(U) \in Nat
      BY <2>3, <2>5, FS_RemoveElement, FS_CardinalityType
    <3>4. U \in SUBSET (1 .. l)
      <4>1. \A x \in T : x \in 1 .. l + 1
        OBVIOUS
      <4> QED BY <4>1
    <3>2. ASSUME NEW k \in 1 .. Cardinality(T)
          PROVE  \E x \in T : Cardinality({y \in T : y <= x}) = k
      <4>1. CASE k = Cardinality(T)
        <5>1. {y \in T : y <= l + 1} = T
          <6>1. \A y \in T : y \in 1 .. l + 1
            OBVIOUS
          <6>2. \A y \in T : y <= l + 1
            BY <6>1
          <6> QED BY <6>2
        <5> QED BY <2>5, <4>1, <5>1
      <4>2. CASE k # Cardinality(T)
        <5>1. k \in 1 .. Cardinality(U)
          BY <2>3, <3>1, <3>2, <4>2
        <5>2. PICK x \in U : Cardinality({y \in U : y <= x}) = k
          BY <2>2, <3>4, <5>1
        <5>3. {y \in T : y <= x} = {y \in U : y <= x}
          BY <3>4
        <5> QED BY <5>2, <5>3
      <4> QED BY <4>1, <4>2
    <3> QED BY <3>2
  <2> QED BY <2>4, <2>5
<1>3. m \in Good
  <2> HIDE DEF Good
  <2> QED BY <1>1, <1>2, Induct
<1> QED BY <1>3

\* The kernel hands out free descriptors, the lowest first.
LEMMA NthFreeIs ==
  ASSUME NEW n \in 1 .. Cardinality(Free)
  PROVE  NthFree(n) \in Free /\ Cardinality({f \in Free : f <= NthFree(n)}) = n
<1>1. FdLimit \in Nat /\ Free \in SUBSET (1 .. FdLimit)
  BY Bounds DEF Free, Fd
<1>2. \E fd \in Free : Cardinality({f \in Free : f <= fd}) = n
  BY <1>1, NthElement
<1> QED BY <1>2 DEF NthFree

\* What a batch does of which the first n attachments are installed.
LEMMA Installation ==
  ASSUME NEW ids \in Seq(Id), IsInjective(ids), 3 * Len(ids) <= Cardinality(Free),
         NEW n \in 0 .. Len(ids), files \in [Fd -> File \cup {NoFile}],
         \A i \in 1 .. n : Acceptable(ids, ReceivedFds(ids), i),
         Install(ids, ReceivedFds(ids), n)
  PROVE  LET fds == ReceivedFds(ids)
             new == {ids[i] : i \in 1 .. n} IN
         /\ \A k \in 1 .. 3 * n : fds[k] \in Free /\ files'[fds[k]] = ReceivedFile(ids, k)
         /\ \A j, k \in 1 .. 3 * n : fds[j] = fds[k] => j = k
         /\ \A fd \in Fd : (\A k \in 1 .. 3 * n : fds[k] # fd) => files'[fd] = files[fd]
         /\ DOMAIN files' = Fd
         /\ DOMAIN fdOf' = DOMAIN fdOf \cup new
         /\ \A id \in DOMAIN fdOf : fdOf'[id] = fdOf[id]
         /\ \A i \in 1 .. n : fdOf'[ids[i]] = fds[3 * i]
         /\ DOMAIN attachmentAt' = DOMAIN attachmentAt \cup {fds[3 * i] : i \in 1 .. n}
         /\ \A fd \in DOMAIN attachmentAt : attachmentAt'[fd] = attachmentAt[fd]
         /\ \A i \in 1 .. n : attachmentAt'[fds[3 * i]] = Received(ids, fds, i)
         /\ mapped' = mapped \cup new
         /\ registered' = registered \cup {[file |-> <<"data", id>>, id |-> id] : id \in new}
         /\ ready' = ready \cup new
<1> DEFINE fds == ReceivedFds(ids)
           recs == {Received(ids, fds, i) : i \in 1 .. n}
<1>1. /\ Len(ids) \in Nat /\ DOMAIN ids = 1 .. Len(ids) /\ n \in Nat /\ n <= Len(ids)
      /\ \A i \in 1 .. n : ids[i] \in Id
  BY LenProperties
<1>2. \A i, j \in 1 .. n : ids[i] = ids[j] => i = j
  BY <1>1 DEF IsInjective
<1>3. \A k \in 1 .. 3 * n : k \in 1 .. Cardinality(Free) /\ fds[k] = NthFree(k)
  <2>1. ASSUME NEW k \in 1 .. 3 * n PROVE k \in 1 .. Cardinality(Free) /\ k \in 1 .. 3 * Len(ids)
    <3>1. Cardinality(Free) \in Nat
      <4>1. Free \in SUBSET (1 .. FdLimit) /\ IsFiniteSet(1 .. FdLimit)
        BY Bounds, FS_Interval DEF Free, Fd
      <4> QED BY <4>1, FS_Subset, FS_CardinalityType
    <3> QED BY <1>1, <3>1
  <2> QED BY <2>1 DEF ReceivedFds
<1>4. \A k \in 1 .. 3 * n : fds[k] \in Free
  BY <1>3, NthFreeIs
<1> HIDE DEF fds
<1>5. ASSUME NEW j \in 1 .. 3 * n, NEW k \in 1 .. 3 * n, fds[j] = fds[k] PROVE j = k
  <2>1. /\ Cardinality({f \in Free : f <= NthFree(j)}) = j
        /\ Cardinality({f \in Free : f <= NthFree(k)}) = k
    BY <1>3, NthFreeIs
  <2>2. NthFree(j) = NthFree(k)
    BY <1>3, <1>5
  <2> QED BY <2>1, <2>2
<1>6. \A i \in 1 .. n : 3 * i \in 1 .. 3 * n
  BY <1>1
<1>7. \A i \in 1 .. n : Received(ids, fds, i).segment = ids[i] /\ Received(ids, fds, i).data = fds[3 * i]
  BY DEF Received
<1>8. /\ files' = [fd \in Fd |-> IF \E k \in Kept(ids, n) : fds[k] = fd
                                 THEN ReceivedFile(ids, CHOOSE k \in Kept(ids, n) : fds[k] = fd)
                                 ELSE files[fd]]
      /\ mapped' = mapped \cup {r.segment : r \in recs}
      /\ registered' = registered \cup {[file |-> <<"data", ids[i]>>, id |-> ids[i]] : i \in 1 .. n}
      /\ ready' = ready \cup {ids[i] : i \in 1 .. n}
      /\ fdOf' = [id \in DOMAIN fdOf \cup {r.segment : r \in recs} |->
                   IF id \in DOMAIN fdOf THEN fdOf[id]
                                         ELSE (CHOOSE r \in recs : r.segment = id).data]
      /\ attachmentAt' = [fd \in DOMAIN attachmentAt \cup {r.data : r \in recs} |->
                           IF fd \in DOMAIN attachmentAt THEN attachmentAt[fd]
                                                        ELSE CHOOSE r \in recs : r.data = fd]
  BY DEF Install, fds
<1>9. Kept(ids, n) = 1 .. 3 * n
  BY DEF Kept
<1>10. /\ {r.segment : r \in recs} = {ids[i] : i \in 1 .. n}
       /\ {r.data : r \in recs} = {fds[3 * i] : i \in 1 .. n}
  <2>1. {r.segment : r \in recs} = {Received(ids, fds, i).segment : i \in 1 .. n}
    OBVIOUS
  <2>2. {r.data : r \in recs} = {Received(ids, fds, i).data : i \in 1 .. n}
    OBVIOUS
  <2>3. {Received(ids, fds, i).data : i \in 1 .. n} = {fds[3 * i] : i \in 1 .. n}
    BY <1>7
  <2>4. {Received(ids, fds, i).segment : i \in 1 .. n} = {ids[i] : i \in 1 .. n}
    BY <1>7
  <2> HIDE DEF recs
  <2> QED BY <2>1, <2>2, <2>3, <2>4
<1>11. ASSUME NEW i \in 1 .. n
       PROVE  /\ (CHOOSE r \in recs : r.segment = ids[i]) = Received(ids, fds, i)
              /\ (CHOOSE r \in recs : r.data = fds[3 * i]) = Received(ids, fds, i)
  <2>1. Received(ids, fds, i) \in recs
    OBVIOUS
  <2>2. \A r \in recs : r.segment = ids[i] => r = Received(ids, fds, i)
    BY <1>2, <1>7
  <2>3. \A r \in recs : r.data = fds[3 * i] => r = Received(ids, fds, i)
    <3>1. ASSUME NEW j \in 1 .. n, Received(ids, fds, j).data = fds[3 * i] PROVE j = i
      <4>1. 3 * j = 3 * i
        BY <1>5, <1>6, <1>7, <3>1
      <4> QED BY <1>1, <4>1
    <3> QED BY <3>1
  <2> HIDE DEF recs
  <2> QED BY <1>7, <2>1, <2>2, <2>3
<1>12. \A k \in 1 .. 3 * n : fds[k] \in Fd /\ (CHOOSE l \in 1 .. 3 * n : fds[l] = fds[k]) = k
  BY <1>4, <1>5 DEF Free
<1>13. \A i \in 1 .. n : ids[i] \notin DOMAIN fdOf /\ fds[3 * i] \notin DOMAIN attachmentAt
  BY DEF Acceptable, fds
<1> HIDE DEF recs
<1>14. \A k \in 1 .. 3 * n : files'[fds[k]] = ReceivedFile(ids, k)
  BY <1>8, <1>9, <1>12, SMTT(30)
<1>15. \A fd \in Fd : (\A k \in 1 .. 3 * n : fds[k] # fd) => files'[fd] = files[fd]
  BY <1>8, <1>9
<1>16. /\ DOMAIN fdOf' = DOMAIN fdOf \cup {ids[i] : i \in 1 .. n}
       /\ \A id \in DOMAIN fdOf : fdOf'[id] = fdOf[id]
       /\ \A i \in 1 .. n : fdOf'[ids[i]] = fds[3 * i]
  BY <1>7, <1>8, <1>10, <1>11, <1>13
<1>17. /\ DOMAIN attachmentAt' = DOMAIN attachmentAt \cup {fds[3 * i] : i \in 1 .. n}
       /\ \A fd \in DOMAIN attachmentAt : attachmentAt'[fd] = attachmentAt[fd]
       /\ \A i \in 1 .. n : attachmentAt'[fds[3 * i]] = Received(ids, fds, i)
  BY <1>8, <1>10, <1>11, <1>13
<1>18. registered' = registered \cup {[file |-> <<"data", id>>, id |-> id] : id \in {ids[i] : i \in 1 .. n}}
  BY <1>8
<1>19. DOMAIN files' = Fd /\ mapped' = mapped \cup {ids[i] : i \in 1 .. n}
  BY <1>8, <1>10
<1>20. ready' = ready \cup {ids[i] : i \in 1 .. n}
  BY <1>8
<1> QED BY <1>4, <1>5, <1>14, <1>15, <1>16, <1>17, <1>18, <1>19, <1>20 DEF fds

-----------------------------------------------------------------------------
(* What the steps do to the descriptors and the tables. *)

\* The steps that touch the descriptors, the epoll set or the tables.
LEMMA WhatChanges ==
  ASSUME [Next]_vars
  PROVE  \/ CreateStep \/ ReadMessage \/ ReadPacket
         \/ ReleaseAll /\ pc' = pc /\ UNCHANGED env
         \/ UNCHANGED <<files, registered, mapped, phase, fdOf, attachmentAt>>
<1>1. CASE CreateFails
  BY <1>1 DEF CreateFails, thread
<1>2. CASE BrokerAttaches \/ BrokerEnds
  BY <1>2 DEF BrokerAttaches, BrokerEnds, object
<1>3. CASE \E id \in Id : PublisherEnds(id) \/ PublisherCommits(id) \/ PublisherSignals(id)
  BY <1>3 DEF PublisherEnds, PublisherCommits, PublisherSignals, kernel, object
<1>4. CASE Subscribe \/ Timeout \/ Fetch \/ HandleEvent \/ ReadAll
  BY <1>4 DEF Subscribe, Timeout, Fetch, HandleEvent, ReadAll, kernel, object
<1>5. CASE WorkerExits \/ BeginStop \/ SignalShutdown \/ Join
  BY <1>5 DEF WorkerExits, BeginStop, SignalShutdown, Join, kernel, object
<1>6. CASE Destroy
  BY <1>6 DEF Destroy, thread
<1>7. CASE Move
  BY <1>7 DEF Move, kernel, object
<1>8. CASE UNCHANGED vars
  BY <1>8 DEF vars, kernel, object
<1> QED BY <1>1, <1>2, <1>3, <1>4, <1>5, <1>6, <1>7, <1>8 DEF Next

Attachment == [shm : Fd, space : Fd, data : Fd, segment : Id, read : 0 .. MaxMessages]

\* The two tables are inverse to each other.
LEMMA Tables ==
  ASSUME TablesTypeOK, TablesInv
  PROVE  /\ \A id \in Installed : /\ id \in Id /\ fdOf[id] \in DOMAIN attachmentAt /\ fdOf[id] \in Fd
                                  /\ At(id) \in Attachment /\ At(id) \in Records
                                  /\ At(id).segment = id /\ At(id).data = fdOf[id]
         /\ \A fd \in DOMAIN attachmentAt :
              /\ fd \in Fd /\ attachmentAt[fd] \in Attachment
              /\ attachmentAt[fd].segment \in Installed /\ fdOf[attachmentAt[fd].segment] = fd
              /\ attachmentAt[fd] = At(attachmentAt[fd].segment) /\ attachmentAt[fd].data = fd
         /\ Records = {At(id) : id \in Installed}
         /\ {r.segment : r \in Records} = Installed
<1>1. \A fd \in DOMAIN attachmentAt :
        /\ fd \in Fd /\ attachmentAt[fd] \in Attachment /\ attachmentAt[fd] \in Records
        /\ attachmentAt[fd].segment \in Installed /\ fdOf[attachmentAt[fd].segment] = fd
  BY DEF TablesTypeOK, TablesInv, Records, Attachment
<1>2. \A id \in Installed : /\ id \in Id /\ fdOf[id] \in DOMAIN attachmentAt /\ fdOf[id] \in Fd
                             /\ At(id) \in Attachment /\ At(id) \in Records
                             /\ At(id).segment = id /\ At(id).data = fdOf[id]
  BY <1>1 DEF TablesTypeOK, TablesInv, At
<1>3. \A fd \in DOMAIN attachmentAt : /\ attachmentAt[fd] = At(attachmentAt[fd].segment)
                                       /\ attachmentAt[fd].data = fd
  BY <1>1, <1>2 DEF At
<1>4. Records = {At(id) : id \in Installed}
  <2>1. ASSUME NEW r \in Records PROVE r \in {At(id) : id \in Installed}
    <3>1. PICK fd \in DOMAIN attachmentAt : r = attachmentAt[fd]
      BY DEF Records
    <3> QED BY <1>1, <1>3, <3>1
  <2> QED BY <1>2, <2>1
<1>5. {r.segment : r \in Records} = Installed
  BY <1>2, <1>4
<1> QED BY <1>1, <1>2, <1>3, <1>4, <1>5

\* Without an attachment.
LEMMA NoTables ==
  ASSUME Installed = {}, DOMAIN attachmentAt = {}
  PROVE  Records = {} /\ FdsOf(Records) = {} /\ TablesTypeOK
BY DEF Records, FdsOf, TablesTypeOK

\* release_resources gives everything back.
LEMMA Closing ==
  ASSUME KernelTypeOK, DescriptorsAreOwned, ReleaseAll
  PROVE  /\ files' = [fd \in Fd |-> NoFile] /\ mapped' = {} /\ registered' = {} /\ ready' = {}
         /\ Installed' = {} /\ DOMAIN attachmentAt' = {} /\ batch' = {} /\ phase' = "gone"
         /\ counter' \subseteq counter
<1>1. \A fd \in Fd : fd \in FdsOf(Records) \cup OwnFds \/ files[fd] = NoFile
  BY DEF DescriptorsAreOwned
<1>2. files' = [fd \in Fd |-> NoFile]
  BY <1>1 DEF ReleaseAll
<1>3. mapped' = {}
  BY DEF DescriptorsAreOwned, ReleaseAll
<1>4. DOMAIN <<>> = {}
  OBVIOUS
<1> QED BY <1>2, <1>3, <1>4 DEF ReleaseAll, Installed

\* After release_resources nothing is open and the tables are empty.
LEMMA CloseStep ==
  ASSUME KernelTypeOK, DescriptorsAreOwned, ReleaseAll
  PROVE  KernelTypeOK' /\ TablesTypeOK' /\ TablesInv' /\ DescriptorsAreOwned'
<1>1. KernelTypeOK'
  BY Closing DEF KernelTypeOK
<1>2. TablesTypeOK' /\ Records' = {}
  BY Closing DEF TablesTypeOK, Records
<1>3. TablesInv'
  BY Closing DEF TablesInv
<1>4. DescriptorsAreOwned'
  BY Closing, <1>2 DEF DescriptorsAreOwned, Free
<1> QED BY <1>1, <1>2, <1>3, <1>4

\* Other steps leave the descriptors and the tables alone.
LEMMA QuietTables ==
  ASSUME TablesTypeOK, TablesInv, DescriptorsAreOwned,
         UNCHANGED <<files, registered, mapped, phase, fdOf, attachmentAt>>
  PROVE  TablesTypeOK' /\ TablesInv' /\ DescriptorsAreOwned'
<1>1. Installed' = Installed /\ Records' = Records /\ OwnFds' = OwnFds /\ Free' = Free
      /\ FdsOf(Records)' = FdsOf(Records) /\ \A id : At(id)' = At(id)
  BY DEF Installed, Records, OwnFds, Free, FdsOf, At
<1>2. TablesTypeOK'
  BY <1>1 DEF TablesTypeOK
<1>3. TablesInv'
  BY <1>1 DEF TablesInv
<1>4. DescriptorsAreOwned'
  BY <1>1 DEF DescriptorsAreOwned
<1> QED BY <1>2, <1>3, <1>4

\* create() opens descriptors of its own and installs no attachment.
LEMMA CreateTables ==
  ASSUME ControlInv, KernelTypeOK, TablesTypeOK, TablesInv, DescriptorsAreOwned, CreateStep
  PROVE  /\ KernelTypeOK' /\ TablesTypeOK' /\ TablesInv' /\ DescriptorsAreOwned'
         /\ UNCHANGED <<fdOf, attachmentAt>> /\ Installed = {}
<1>1. /\ phase \notin {"alive", "gone"} /\ phase' # "gone" /\ Installed = {} /\ DOMAIN attachmentAt = {}
      /\ UNCHANGED <<fdOf, attachmentAt, mapped>>
      /\ \/ UNCHANGED files
         \/ Free # {} /\ \E kind \in {"epoll", "broker", "shutdown", "exit"} :
              files' = [files EXCEPT ![NthFree(1)] = Own(kind)]
      /\ \/ UNCHANGED registered /\ (phase' \in {"shutdown", "exit", "start", "alive"}
                                      => phase \in {"shutdown", "exit", "start", "alive"})
         \/ registered' = registered \cup {[file |-> Own("broker"), id |-> BrokerEventId]}
         \/ phase = "shutdown"
            /\ registered' = registered \cup {[file |-> Own("shutdown"), id |-> ShutdownEventId]}
      /\ ready' \in {ready, ready \cup {BrokerEventId}} /\ UNCHANGED <<counter, batch>>
  BY DEF CreateStep, Open, Watch, ControlInv
<1>2. Records = {} /\ Records' = {} /\ FdsOf(Records) = {} /\ Installed' = {}
  BY <1>1 DEF Records, FdsOf, Installed
<1>3. /\ files' \in [Fd -> File \cup {NoFile}]
      /\ \A fd \in Fd : files'[fd] = files[fd]
                        \/ files'[fd] \in {Own("epoll"), Own("broker"), Own("shutdown"), Own("exit")}
  <2>1. \A kind \in {"epoll", "broker", "shutdown", "exit"} : Own(kind) \in File
    BY DEF Own, File
  <2>2. files \in [Fd -> File \cup {NoFile}]
    BY DEF KernelTypeOK
  <2> QED BY <1>1, <2>1, <2>2
<1>4. KernelTypeOK'
  <2>1. /\ Own("broker") \in File /\ Own("shutdown") \in File
        /\ BrokerEventId \in 0 .. ShutdownEventId /\ ShutdownEventId \in 0 .. ShutdownEventId
    BY Bounds DEF Own, File, BrokerEventId, ShutdownEventId
  <2>2. registered' \subseteq [file : File, id : 0 .. ShutdownEventId]
    BY <1>1, <2>1 DEF KernelTypeOK
  <2>3. ready' \subseteq 0 .. ShutdownEventId
    BY <1>1, <2>1 DEF KernelTypeOK
  <2> QED BY <1>1, <1>3, <2>2, <2>3 DEF KernelTypeOK
<1>5. TablesTypeOK'
  BY <1>1, <1>2 DEF TablesTypeOK
<1>6. TablesInv'
  BY <1>1, <1>2 DEF TablesInv
<1>7. DescriptorsAreOwned'
  <2>1. \A fd \in Fd : files'[fd] # NoFile => fd \in OwnFds'
    BY <1>2, <1>3 DEF DescriptorsAreOwned, OwnFds
  <2>2. mapped' = {r.segment : r \in Records'}
    BY <1>1, <1>2 DEF DescriptorsAreOwned
  <2> QED BY <1>1, <1>2, <2>1, <2>2 DEF DescriptorsAreOwned
<1> QED BY <1>1, <1>4, <1>5, <1>6, <1>7

\* A packet is read.
LEMMA Packets ==
  ASSUME QueueInv, queue # <<>>
  PROVE  /\ Len(queue) \in Nat \ {0} /\ 1 \in DOMAIN queue /\ Head(queue) = queue[1]
         /\ Head(queue) \in Packet
         /\ Tail(queue) \in Seq(Packet) /\ DOMAIN Tail(queue) = 1 .. Len(queue) - 1
         /\ \A k \in 1 .. Len(queue) - 1 : Tail(queue)[k] = queue[k + 1]
<1>1. queue \in Seq(Packet)
  BY DEF QueueInv
<1>2. Len(queue) \in Nat \ {0} /\ DOMAIN queue = 1 .. Len(queue)
  BY <1>1, EmptySeq, LenProperties
<1> QED BY <1>1, <1>2, HeadTailProperties, ElementOfSeq

\* The ids of a batch that waits.
LEMMA BatchIds ==
  ASSUME QueueInv, queue # <<>>, Head(queue).type = "SubscriberAttachmentBatch"
  PROVE  LET ids == Head(queue).ids IN
         /\ ids \in Seq(Id) /\ IsInjective(ids) /\ Len(ids) \in Nat /\ DOMAIN ids = 1 .. Len(ids)
         /\ \A i \in 1 .. Len(ids) : /\ ids[i] \in Id /\ ids[i] \in 1 .. introduced
                                     /\ ids[i] \notin Installed /\ delivered[ids[i]] = 0
<1> DEFINE ids == Head(queue).ids
<1>1. 1 \in DOMAIN queue /\ IsBatch(1) /\ ids = queue[1].ids /\ ids \in Seq(Id)
  BY Packets DEF IsBatch, Packet
<1>2. IsInjective(ids) /\ Range(ids) \subseteq 1 .. introduced
  BY <1>1 DEF QueueInv
<1>3. Len(ids) \in Nat /\ DOMAIN ids = 1 .. Len(ids) /\ \A i \in 1 .. Len(ids) : ids[i] \in Id
  BY <1>1, LenProperties, ElementOfSeq
<1>4. ASSUME NEW i \in 1 .. Len(ids)
      PROVE  ids[i] \in 1 .. introduced /\ ids[i] \notin Installed /\ delivered[ids[i]] = 0
  <2>1. ids[i] \in Range(ids)
    BY <1>3 DEF Range
  <2>2. ids[i] \in Waiting
    BY <1>1, <1>3, <2>1 DEF Waiting, Announces
  <2> QED BY <1>2, <1>3, <2>1, <2>2 DEF QueueInv
<1> QED BY <1>1, <1>2, <1>3, <1>4

\* A descriptor that is free is in no table: a batch that is complete can always
\* be installed.
LEMMA AllAcceptable ==
  ASSUME TablesTypeOK, TablesInv, DescriptorsAreOwned, KernelTypeOK, QueueInv, queue # <<>>,
         Head(queue).type = "SubscriberAttachmentBatch",
         3 * Len(Head(queue).ids) <= Cardinality(Free)
  PROVE  LET ids == Head(queue).ids IN
         \A i \in 1 .. Len(ids) : Acceptable(ids, ReceivedFds(ids), i)
<1> DEFINE ids == Head(queue).ids
<1>1. /\ Len(ids) \in Nat
      /\ \A i \in 1 .. Len(ids) : ids[i] \notin Installed
  BY BatchIds
<1>2. Cardinality(Free) \in Nat
  <2>1. Free \in SUBSET (1 .. FdLimit) /\ IsFiniteSet(1 .. FdLimit)
    BY Bounds, FS_Interval DEF Free, Fd
  <2> QED BY <2>1, FS_Subset, FS_CardinalityType
<1>3. \A fd \in DOMAIN attachmentAt : fd \notin Free
  <2>1. ASSUME NEW fd \in DOMAIN attachmentAt PROVE fd \notin Free
    <3>1. attachmentAt[fd] \in Records /\ attachmentAt[fd].data = fd
      BY Tables
    <3>2. files[fd] = <<"data", attachmentAt[fd].segment>>
      BY <3>1 DEF DescriptorsAreOwned
    <3> QED BY <3>2 DEF Free, NoFile
  <2> QED BY <2>1
<1>4. ASSUME NEW i \in 1 .. Len(ids) PROVE ReceivedFds(ids)[3 * i] \in Free
  <2>1. 3 * i \in 1 .. 3 * Len(ids) /\ 3 * i \in 1 .. Cardinality(Free)
    BY <1>1, <1>2
  <2>2. ReceivedFds(ids)[3 * i] = NthFree(3 * i)
    BY <2>1 DEF ReceivedFds
  <2> QED BY <2>1, <2>2, NthFreeIs
<1> QED BY <1>1, <1>3, <1>4 DEF Acceptable, Installed

\* The kinds of turns of the loop over recvmsg.
Idles == /\ queue = <<>> /\ pc' = "loop" /\ UNCHANGED <<queue, tables, outcome, faults>>
FailsToRead == /\ ControlFails /\ UNCHANGED <<queue, tables>>
               /\ \/ faults' = faults + 1
                  \/ queue = <<>> /\ brokerGone /\ UNCHANGED faults
DropsBatch == /\ queue # <<>> /\ queue' = Tail(queue)
              /\ ControlFails /\ faults' = faults + 1 /\ UNCHANGED tables
Installs == LET ids == Head(queue).ids IN
  /\ queue # <<>> /\ queue' = Tail(queue) /\ Head(queue).type = "SubscriberAttachmentBatch"
  /\ 3 * Len(ids) <= Cardinality(Free)
  /\ \E n \in 0 .. Len(ids) :
       /\ Install(ids, ReceivedFds(ids), n)
       /\ \/ n = Len(ids) /\ ReadOn /\ UNCHANGED faults
          \/ n < Len(ids) /\ ControlFails /\ faults' = faults + 1
Uninstalls == LET id == Head(queue).ids[1] IN
  /\ queue # <<>> /\ queue' = Tail(queue) /\ Head(queue).type = "PublisherDisconnected"
  /\ id \in Installed /\ HandleDisconnected(id) /\ ReadOn /\ UNCHANGED faults
MissesAttachment ==
  /\ queue # <<>> /\ queue' = Tail(queue) /\ Head(queue).type = "PublisherDisconnected"
  /\ Head(queue).ids[1] \notin Installed /\ ControlFails /\ UNCHANGED <<tables, faults>>

\* What process_broker_control_messages does with the next packet.
LEMMA PacketCases ==
  ASSUME TablesTypeOK, TablesInv, DescriptorsAreOwned, KernelTypeOK, QueueInv, ReadPacket
  PROVE  /\ pc = "control"
         /\ UNCHANGED <<greeted, introduced, ended, brokerGone, published, unsignalled, counter,
                        phase, batch, active, promise, cur, assembled, owning, delivered>>
         /\ \/ Idles \/ FailsToRead \/ DropsBatch \/ Installs \/ Uninstalls \/ MissesAttachment
<1>1. /\ pc = "control"
      /\ UNCHANGED <<greeted, introduced, ended, brokerGone, published, unsignalled, counter,
                     phase, batch, active, promise, cur, assembled, owning, delivered>>
  BY DEF ReadPacket
<1>2. CASE queue = <<>> /\ ~brokerGone /\ pc' = "loop" /\ UNCHANGED <<queue, tables, outcome, faults>>
  BY <1>1, <1>2 DEF Idles
<1>3. CASE queue = <<>> /\ brokerGone /\ ControlFails /\ UNCHANGED <<queue, tables, faults>>
  BY <1>1, <1>3 DEF FailsToRead
<1>4. CASE Fault /\ ControlFails /\ UNCHANGED <<queue, tables>>
  BY <1>1, <1>4 DEF FailsToRead, Fault
<1>5. ASSUME queue # <<>>, queue' = Tail(queue), Head(queue).type = "SubscriberAttachmentBatch",
             3 * Len(Head(queue).ids) <= Cardinality(Free), InstallBatch(Head(queue).ids)
      PROVE  Installs
  <2> DEFINE ids == Head(queue).ids
             fds == ReceivedFds(ids)
  <2>1. Len(ids) \in Nat
    BY <1>5, BatchIds
  <2>2. CASE Install(ids, fds, Len(ids)) /\ ReadOn /\ UNCHANGED faults
    <3>1. Len(ids) \in 0 .. Len(ids)
      BY <2>1
    <3> QED BY <1>5, <2>2, <3>1 DEF Installs
  <2>3. ASSUME NEW n \in 0 .. Len(ids) - 1,
               IF Acceptable(ids, fds, n + 1) THEN Fault ELSE UNCHANGED faults,
               Install(ids, fds, n), ControlFails
        PROVE  Installs
    <3>1. n \in 0 .. Len(ids) /\ n < Len(ids) /\ n + 1 \in 1 .. Len(ids)
      BY <2>1
    <3>2. Acceptable(ids, fds, n + 1)
      BY <1>5, <3>1, AllAcceptable
    <3>3. faults' = faults + 1
      BY <2>3, <3>2 DEF Fault
    <3> QED BY <1>5, <2>3, <3>1, <3>3 DEF Installs
  <2> QED BY <1>5, <2>2, <2>3 DEF InstallBatch
<1>6. ASSUME queue # <<>>, queue' = Tail(queue),
             ControlFails, faults' = faults + 1, UNCHANGED tables
      PROVE  DropsBatch
  BY <1>6 DEF DropsBatch
<1>7. ASSUME queue # <<>>, queue' = Tail(queue), Head(queue).type = "PublisherDisconnected",
             Head(queue).ids[1] \in DOMAIN fdOf, HandleDisconnected(Head(queue).ids[1]),
             ReadOn, UNCHANGED faults
      PROVE  Uninstalls
  BY <1>7 DEF Uninstalls, Installed
<1>8. ASSUME queue # <<>>, queue' = Tail(queue), Head(queue).type = "PublisherDisconnected",
             Head(queue).ids[1] \notin DOMAIN fdOf, ControlFails, UNCHANGED <<tables, faults>>
      PROVE  MissesAttachment
  BY <1>8 DEF MissesAttachment, Installed
<1> QED BY <1>1, <1>2, <1>3, <1>4, <1>5, <1>6, <1>7, <1>8 DEF ReadPacket

\* The first n attachments of a batch are there, and nothing else has changed.
LEMMA InstallTables ==
  ASSUME KernelTypeOK, TablesTypeOK, TablesInv, DescriptorsAreOwned, QueueInv,
         phase' = phase, phase # "gone", queue # <<>>,
         Head(queue).type = "SubscriberAttachmentBatch",
         3 * Len(Head(queue).ids) <= Cardinality(Free),
         NEW n \in 0 .. Len(Head(queue).ids),
         Install(Head(queue).ids, ReceivedFds(Head(queue).ids), n)
  PROVE  LET new == {Head(queue).ids[i] : i \in 1 .. n} IN
         /\ TablesTypeOK' /\ TablesInv' /\ DescriptorsAreOwned'
         /\ files' \in [Fd -> File \cup {NoFile}] /\ mapped' \subseteq Id
         /\ registered' \subseteq [file : File, id : 0 .. ShutdownEventId]
         /\ Installed' = Installed \cup new /\ new \subseteq Id /\ new \cap Installed = {}
         /\ \A id \in Installed : fdOf'[id] = fdOf[id] /\ At(id)' = At(id)
         /\ \A id \in new : At(id)'.read = 0 /\ fdOf'[id] \in Free
         /\ ready' = ready \cup new
<1> DEFINE ids == Head(queue).ids
           fds == ReceivedFds(ids)
           new == {ids[i] : i \in 1 .. n}
<1>1. /\ ids \in Seq(Id) /\ IsInjective(ids) /\ Len(ids) \in Nat /\ DOMAIN ids = 1 .. Len(ids)
      /\ \A i \in 1 .. Len(ids) : ids[i] \in Id /\ ids[i] \notin Installed
      /\ n \in Nat /\ n <= Len(ids)
  BY BatchIds
<1>2. /\ \A i \in 1 .. n : ids[i] \in Id /\ ids[i] \notin Installed
      /\ \A i, j \in 1 .. n : ids[i] = ids[j] => i = j
      /\ new \subseteq Id /\ new \cap Installed = {}
  BY <1>1 DEF IsInjective
<1>3. \A i \in 1 .. n : Acceptable(ids, fds, i)
  <2>1. \A i \in 1 .. Len(ids) : Acceptable(ids, fds, i)
    BY AllAcceptable
  <2> HIDE DEF ids, fds
  <2> QED BY <1>1, <2>1
<1>4. files \in [Fd -> File \cup {NoFile}]
  BY DEF KernelTypeOK
<1> HIDE DEF ids, fds
<1>5. /\ \A k \in 1 .. 3 * n : fds[k] \in Free /\ files'[fds[k]] = ReceivedFile(ids, k)
      /\ \A j, k \in 1 .. 3 * n : fds[j] = fds[k] => j = k
      /\ \A fd \in Fd : (\A k \in 1 .. 3 * n : fds[k] # fd) => files'[fd] = files[fd]
      /\ DOMAIN files' = Fd
  BY <1>1, <1>3, <1>4, Installation DEF ids, fds
<1>6. /\ DOMAIN fdOf' = DOMAIN fdOf \cup new
      /\ \A id \in DOMAIN fdOf : fdOf'[id] = fdOf[id]
      /\ \A i \in 1 .. n : fdOf'[ids[i]] = fds[3 * i]
      /\ DOMAIN attachmentAt' = DOMAIN attachmentAt \cup {fds[3 * i] : i \in 1 .. n}
      /\ \A fd \in DOMAIN attachmentAt : attachmentAt'[fd] = attachmentAt[fd]
      /\ \A i \in 1 .. n : attachmentAt'[fds[3 * i]] = Received(ids, fds, i)
  BY <1>1, <1>3, <1>4, Installation DEF ids, fds
<1>7. /\ mapped' = mapped \cup new
      /\ registered' = registered \cup {[file |-> <<"data", id>>, id |-> id] : id \in new}
      /\ ready' = ready \cup new
  BY <1>1, <1>3, <1>4, Installation DEF ids, fds
<1>8. \A i \in 1 .. n : /\ 3 * i \in 1 .. 3 * n /\ 3 * i - 1 \in 1 .. 3 * n /\ 3 * i - 2 \in 1 .. 3 * n
                        /\ i \in Nat \ {0}
  BY <1>1
<1>9. ASSUME NEW i \in 1 .. n
      PROVE  /\ fds[3 * i - 2] \in Free /\ files'[fds[3 * i - 2]] = <<"shm", ids[i]>>
             /\ fds[3 * i - 1] \in Free /\ files'[fds[3 * i - 1]] = <<"space", ids[i]>>
             /\ fds[3 * i] \in Free /\ files'[fds[3 * i]] = <<"data", ids[i]>>
  <2>1. /\ 3 * i \in 1 .. 3 * n /\ 3 * i - 1 \in 1 .. 3 * n /\ 3 * i - 2 \in 1 .. 3 * n
        /\ i \in Nat \ {0}
    BY <1>8
  <2>2. /\ ReceivedFile(ids, 3 * i - 2) = <<"shm", ids[i]>>
        /\ ReceivedFile(ids, 3 * i - 1) = <<"space", ids[i]>>
        /\ ReceivedFile(ids, 3 * i) = <<"data", ids[i]>>
    BY <2>1, Triple
  <2>3. \A k \in 1 .. 3 * n : fds[k] \in Free /\ files'[fds[k]] = ReceivedFile(ids, k)
    BY <1>5
  <2> QED BY <2>1, <2>2, <2>3
<1>10. ASSUME NEW i \in 1 .. n
       PROVE  LET r == attachmentAt'[fds[3 * i]] IN
              /\ r.shm = fds[3 * i - 2] /\ r.space = fds[3 * i - 1] /\ r.data = fds[3 * i]
              /\ r.segment = ids[i] /\ r.read = 0 /\ r \in Attachment
  <2>1. attachmentAt'[fds[3 * i]] = Received(ids, fds, i)
    BY <1>6
  <2>2. fds[3 * i - 2] \in Fd /\ fds[3 * i - 1] \in Fd /\ fds[3 * i] \in Fd /\ ids[i] \in Id
    BY <1>2, <1>9 DEF Free
  <2>3. 0 \in 0 .. MaxMessages
    BY Bounds
  <2> QED BY <2>1, <2>2, <2>3 DEF Received, Attachment
<1>11. \A id \in Installed : At(id)' = At(id) /\ fdOf[id] \in DOMAIN attachmentAt
  BY <1>6, Tables DEF Installed, At
<1>12. \A i \in 1 .. n : attachmentAt'[fdOf'[ids[i]]] = attachmentAt'[fds[3 * i]]
  BY <1>6
<1>13. Installed' = Installed \cup new
  BY <1>6 DEF Installed
<1>14. \A fd \in Free : /\ fd \in Fd /\ fd \notin FdsOf(Records) /\ fd \notin DOMAIN attachmentAt
                        /\ fd \notin OwnFds
  <2>1. \A r \in Records : r \in Attachment /\ r.shm \notin Free /\ r.space \notin Free /\ r.data \notin Free
    BY DEF DescriptorsAreOwned, Free, NoFile, TablesTypeOK, Attachment
  <2>2. \A fd \in DOMAIN attachmentAt : attachmentAt[fd] \in Records /\ attachmentAt[fd].data = fd
    BY Tables
  <2> QED BY <2>1, <2>2 DEF Free, FdsOf, OwnFds, Own, NoFile
<1>15. Records' = Records \cup {attachmentAt'[fds[3 * i]] : i \in 1 .. n}
  <2>1. Records = {attachmentAt[fd] : fd \in DOMAIN attachmentAt}
    BY DEF Records
  <2>2. Records' = {attachmentAt'[fd] : fd \in DOMAIN attachmentAt'}
    BY DEF Records
  <2> QED BY <1>6, <2>1, <2>2, SMTT(60)
<1>16. TablesTypeOK'
  <2>1. \A r \in Records' : r \in Attachment
    BY <1>10, <1>15 DEF TablesTypeOK, Attachment
  <2>2. \A id \in Installed' : id \in Id /\ fdOf'[id] \in Fd
    <3>1. ASSUME NEW i \in 1 .. n PROVE fdOf'[ids[i]] \in Fd
      BY <1>6, <1>9 DEF Free
    <3>2. ASSUME NEW id \in Installed PROVE id \in Id /\ fdOf'[id] \in Fd
      BY <1>6, Tables DEF Installed
    <3> QED BY <1>2, <1>13, <3>1, <3>2
  <2>3. DOMAIN attachmentAt' \subseteq Fd
    BY <1>6, <1>9 DEF TablesTypeOK, Free
  <2> QED BY <2>1, <2>2, <2>3 DEF TablesTypeOK, Attachment
<1>17. TablesInv'
  <2>1. ASSUME NEW id \in Installed'
        PROVE  fdOf'[id] \in DOMAIN attachmentAt' /\ At(id)'.segment = id /\ At(id)'.data = fdOf'[id]
    <3>1. CASE id \in Installed
      BY <1>6, <1>11, <3>1, Tables DEF Installed
    <3>2. CASE id \notin Installed
      <4>1. PICK i \in 1 .. n : id = ids[i]
        BY <1>13, <3>2
      <4>2. fdOf'[id] = fds[3 * i] /\ fds[3 * i] \in DOMAIN attachmentAt'
        BY <1>6, <4>1
      <4>3. At(id)' = attachmentAt'[fds[3 * i]]
        BY <4>2 DEF At
      <4> QED BY <1>10, <4>1, <4>2, <4>3
    <3> QED BY <3>1, <3>2
  <2>2. ASSUME NEW fd \in DOMAIN attachmentAt'
        PROVE  attachmentAt'[fd].segment \in Installed' /\ fdOf'[attachmentAt'[fd].segment] = fd
    <3>1. CASE fd \in DOMAIN attachmentAt
      BY <1>6, <1>13, <3>1, Tables DEF Installed
    <3>2. CASE fd \notin DOMAIN attachmentAt
      <4>1. PICK i \in 1 .. n : fd = fds[3 * i]
        BY <1>6, <3>2
      <4>2. attachmentAt'[fd].segment = ids[i]
        BY <1>10, <4>1
      <4>3. ids[i] \in Installed' /\ fdOf'[ids[i]] = fd
        BY <1>6, <1>13, <4>1
      <4> QED BY <4>2, <4>3
    <3> QED BY <3>1, <3>2
  <2>3. /\ registered' \subseteq
             {[file |-> <<"data", id>>, id |-> id] : id \in Installed'} \cup
             {[file |-> Own("broker"), id |-> BrokerEventId],
              [file |-> Own("shutdown"), id |-> ShutdownEventId]}
        /\ \A id \in Installed' : [file |-> <<"data", id>>, id |-> id] \in registered'
        /\ phase' \in {"shutdown", "exit", "start", "alive"} =>
             [file |-> Own("broker"), id |-> BrokerEventId] \in registered'
    <3>1. Installed \subseteq Installed' /\ new \subseteq Installed' /\ Installed' \subseteq Installed \cup new
      BY <1>13
    <3> DEFINE Of(id) == [file |-> <<"data", id>>, id |-> id]
               others == {[file |-> Own("broker"), id |-> BrokerEventId],
                          [file |-> Own("shutdown"), id |-> ShutdownEventId]}
    <3>2. /\ registered \subseteq {Of(id) : id \in Installed} \cup others
          /\ \A id \in Installed : Of(id) \in registered
          /\ phase \in {"shutdown", "exit", "start", "alive"} =>
               [file |-> Own("broker"), id |-> BrokerEventId] \in registered
      BY DEF TablesInv
    <3>3. registered' = registered \cup {Of(id) : id \in new}
      BY <1>7
    <3> HIDE DEF new, Of, others
    <3>4. registered' \subseteq {Of(id) : id \in Installed'} \cup others
      BY <3>1, <3>2, <3>3
    <3>5. \A id \in Installed' : Of(id) \in registered'
      BY <3>1, <3>2, <3>3
    <3>6. phase' \in {"shutdown", "exit", "start", "alive"} =>
            [file |-> Own("broker"), id |-> BrokerEventId] \in registered'
      BY <3>2, <3>3
    <3> QED BY <3>4, <3>5, <3>6 DEF Of, others
  <2> QED BY <2>1, <2>2, <2>3 DEF TablesInv
<1>18. files' \in [Fd -> File \cup {NoFile}]
  <2>1. ASSUME NEW fd \in Fd PROVE files'[fd] \in File \cup {NoFile}
    <3>1. CASE \E k \in 1 .. 3 * n : fds[k] = fd
      <4>1. PICK k \in 1 .. 3 * n : fds[k] = fd
        BY <3>1
      <4>2. PICK i \in 1 .. n : k \in {3 * i - 2, 3 * i - 1, 3 * i}
        BY <1>1, OfThree
      <4>3. ids[i] \in Id
        BY <1>2
      <4>4. files'[fd] \in {<<"shm", ids[i]>>, <<"space", ids[i]>>, <<"data", ids[i]>>}
        BY <1>9, <4>1, <4>2
      <4> QED BY <4>3, <4>4 DEF File
    <3>2. CASE \A k \in 1 .. 3 * n : fds[k] # fd
      BY <1>4, <1>5, <3>2
    <3> QED BY <3>1, <3>2
  <2>2. files' = [fd \in Fd |-> files'[fd]]
    <3>1. files' = [fd \in Fd |-> IF \E k \in Kept(ids, n) : fds[k] = fd
                                   THEN ReceivedFile(ids, CHOOSE k \in Kept(ids, n) : fds[k] = fd)
                                   ELSE files[fd]]
      BY DEF Install, ids, fds
    <3> QED BY <3>1
  <2> QED BY <2>1, <2>2
<1>19. DescriptorsAreOwned'
  <2>1. ASSUME NEW r \in Records'
        PROVE  /\ files'[r.shm] = <<"shm", r.segment>> /\ files'[r.space] = <<"space", r.segment>>
               /\ files'[r.data] = <<"data", r.segment>>
    <3>1. CASE r \in Records
      <4>1. /\ r.shm \in Fd /\ r.space \in Fd /\ r.data \in Fd
            /\ r.shm \notin Free /\ r.space \notin Free /\ r.data \notin Free
        BY <3>1 DEF TablesTypeOK, DescriptorsAreOwned, Free, NoFile
      <4>2. \A fd \in Fd : fd \notin Free => files'[fd] = files[fd]
        BY <1>5
      <4> QED BY <3>1, <4>1, <4>2 DEF DescriptorsAreOwned
    <3>2. CASE r \notin Records
      <4>1. PICK i \in 1 .. n : r = attachmentAt'[fds[3 * i]]
        BY <1>15, <3>2
      <4> QED BY <1>9, <1>10, <4>1
    <3> QED BY <3>1, <3>2
  <2>2. ASSUME NEW fd \in Fd, files'[fd] # NoFile
        PROVE  fd \in FdsOf(Records') \/ files'[fd] \in {Own("epoll"), Own("broker"), Own("shutdown"), Own("exit")}
    <3>1. CASE \E k \in 1 .. 3 * n : fds[k] = fd
      <4>1. PICK k \in 1 .. 3 * n : fds[k] = fd
        BY <3>1
      <4>2. PICK i \in 1 .. n : k \in {3 * i - 2, 3 * i - 1, 3 * i}
        BY <1>1, OfThree
      <4>3. attachmentAt'[fds[3 * i]] \in Records'
        BY <1>15
      <4>4. fd \in {attachmentAt'[fds[3 * i]].shm, attachmentAt'[fds[3 * i]].space,
                    attachmentAt'[fds[3 * i]].data}
        BY <1>10, <4>1, <4>2
      <4> QED BY <4>3, <4>4 DEF FdsOf
    <3>2. CASE \A k \in 1 .. 3 * n : fds[k] # fd
      <4>1. files'[fd] = files[fd]
        BY <1>5, <3>2
      <4>2. fd \in FdsOf(Records) \cup OwnFds
        BY <2>2, <4>1 DEF DescriptorsAreOwned
      <4>3. FdsOf(Records) \subseteq FdsOf(Records')
        BY <1>15 DEF FdsOf
      <4> QED BY <4>1, <4>2, <4>3 DEF OwnFds
    <3> QED BY <3>1, <3>2
  <2>3. {r.segment : r \in Records'} = mapped'
    <3>1. {r.segment : r \in {attachmentAt'[fds[3 * i]] : i \in 1 .. n}} = new
      <4>1. {r.segment : r \in {attachmentAt'[fds[3 * i]] : i \in 1 .. n}}
              = {attachmentAt'[fds[3 * i]].segment : i \in 1 .. n}
        OBVIOUS
      <4>2. \A i \in 1 .. n : attachmentAt'[fds[3 * i]].segment = ids[i]
        BY <1>10
      <4> QED BY <4>1, <4>2
    <3>2. mapped = {r.segment : r \in Records}
      BY DEF DescriptorsAreOwned
    <3> QED BY <1>7, <1>15, <3>1, <3>2
  <2> QED BY <2>1, <2>2, <2>3 DEF DescriptorsAreOwned, OwnFds, FdsOf
<1>20. mapped' \subseteq Id /\ registered' \subseteq [file : File, id : 0 .. ShutdownEventId]
  <2>1. \A id \in new : <<"data", id>> \in File /\ id \in 0 .. ShutdownEventId
    BY <1>2, Bounds DEF File, Id, ShutdownEventId
  <2> QED BY <1>2, <1>7, <2>1 DEF KernelTypeOK
<1>21. ASSUME NEW id \in new PROVE At(id)'.read = 0 /\ fdOf'[id] \in Free
  <2>1. PICK i \in 1 .. n : id = ids[i]
    OBVIOUS
  <2>2. fdOf'[id] = fds[3 * i]
    BY <1>6, <2>1
  <2>3. At(id)' = attachmentAt'[fds[3 * i]]
    BY <2>2 DEF At
  <2> QED BY <1>9, <1>10, <2>2, <2>3
<1> QED BY <1>2, <1>6, <1>7, <1>11, <1>13, <1>16, <1>17, <1>18, <1>19, <1>20, <1>21 DEF ids, Installed

\* Two attachments have two descriptors.
LEMMA TablesInjective ==
  ASSUME TablesTypeOK, TablesInv, NEW i \in Installed, NEW j \in Installed, i # j
  PROVE  fdOf[i] # fdOf[j]
<1>1. At(i).segment = i /\ At(j).segment = j
  BY Tables
<1> QED BY <1>1 DEF At

\* The events of an attachment, of the broker and of the owner's shutdown.
LEMMA EventIds ==
  ASSUME TablesTypeOK, TablesInv
  PROVE  /\ \A id \in Id : IdsOf(<<"data", id>>) \subseteq {id}
         /\ \A id \in Installed : IdsOf(<<"data", id>>) = {id}
         /\ IdsOf(Own("broker")) \subseteq {BrokerEventId}
         /\ IdsOf(Own("shutdown")) \subseteq {ShutdownEventId}
         /\ \A r \in registered : /\ r.id \in Id => r.file = <<"data", r.id>> /\ r.id \in Installed
                                  /\ r.id = ShutdownEventId => r.file = Own("shutdown")
                                  /\ r.id = BrokerEventId => r.file = Own("broker")
<1>1. BrokerEventId \notin Id /\ ShutdownEventId \notin Id /\ BrokerEventId # ShutdownEventId
  BY Bounds DEF BrokerEventId, ShutdownEventId, Id
<1>2. ASSUME NEW r \in registered
      PROVE  \/ r.id \in Installed /\ r.id \in Id /\ r.file = <<"data", r.id>>
             \/ r.id = BrokerEventId /\ r.file = Own("broker")
             \/ r.id = ShutdownEventId /\ r.file = Own("shutdown")
  BY Tables DEF TablesInv
<1>3. \A r \in registered : /\ r.id \in Id => r.file = <<"data", r.id>> /\ r.id \in Installed
                            /\ r.id = ShutdownEventId => r.file = Own("shutdown")
                            /\ r.id = BrokerEventId => r.file = Own("broker")
  BY <1>1, <1>2
<1>4. \A id : <<"data", id>> # Own("broker") /\ <<"data", id>> # Own("shutdown")
  BY DEF Own
<1>5. Own("broker") # Own("shutdown")
  BY DEF Own
<1>6. ASSUME NEW id \in Id, NEW x \in IdsOf(<<"data", id>>) PROVE x = id
  <2>1. PICK r \in registered : r.file = <<"data", id>> /\ x = r.id
    BY DEF IdsOf
  <2> QED BY <1>2, <1>4, <2>1
<1>7. \A id \in Installed : id \in IdsOf(<<"data", id>>)
  <2>1. ASSUME NEW id \in Installed PROVE id \in IdsOf(<<"data", id>>)
    <3>1. [file |-> <<"data", id>>, id |-> id] \in registered
      BY DEF TablesInv
    <3> QED BY <3>1 DEF IdsOf
  <2> QED BY <2>1
<1>8. IdsOf(Own("broker")) \subseteq {BrokerEventId} /\ IdsOf(Own("shutdown")) \subseteq {ShutdownEventId}
  BY <1>2, <1>4, <1>5 DEF IdsOf
<1> QED BY <1>3, <1>6, <1>7, <1>8, Tables

\* An attachment is given back, and nothing else has changed.
LEMMA UninstallTables ==
  ASSUME KernelTypeOK, TablesTypeOK, TablesInv, DescriptorsAreOwned, phase' = phase, phase # "gone",
         NEW id \in Installed, HandleDisconnected(id)
  PROVE  /\ TablesTypeOK' /\ TablesInv' /\ DescriptorsAreOwned'
         /\ files' \in [Fd -> File \cup {NoFile}] /\ mapped' \subseteq Id
         /\ registered' \subseteq registered
         /\ Installed' = Installed \ {id}
         /\ \A i \in Installed' : fdOf'[i] = fdOf[i] /\ At(i)' = At(i)
         /\ ready' = ready \ {id}
<1> DEFINE r == At(id)
<1>1. /\ id \in Id /\ r \in Attachment /\ r \in Records /\ r.segment = id /\ r.data = fdOf[id]
      /\ files[r.shm] = <<"shm", id>> /\ files[r.space] = <<"space", id>> /\ files[r.data] = <<"data", id>>
  BY Tables DEF DescriptorsAreOwned
<1>2. {files[x.data] : x \in {r}} = {<<"data", id>>} /\ {x.segment : x \in {r}} = {id}
      /\ FdsOf({r}) = {r.shm, r.space, r.data}
  BY <1>1 DEF FdsOf
<1>3. IdsOf(<<"data", id>>) = {id}
  BY <1>1, EventIds
<1>4. /\ files' = [fd \in Fd |-> IF fd \in {r.shm, r.space, r.data} THEN NoFile ELSE files[fd]]
      /\ mapped' = mapped \ {id}
      /\ registered' = {x \in registered : x.file # <<"data", id>>}
      /\ ready' = ready \ {id}
      /\ fdOf' = [i \in DOMAIN fdOf \ {id} |-> fdOf[i]]
      /\ attachmentAt' = [fd \in DOMAIN attachmentAt \ {fdOf[id]} |-> attachmentAt[fd]]
  <2>1. Release({r})
    BY DEF HandleDisconnected, At
  <2>2. /\ files' = [fd \in Fd |-> IF fd \in FdsOf({r}) THEN NoFile ELSE files[fd]]
        /\ mapped' = mapped \ {x.segment : x \in {r}}
        /\ registered' = {x \in registered : x.file \notin {files[x1.data] : x1 \in {r}}}
        /\ ready' = ready \ UNION {IdsOf(file) : file \in {files[x.data] : x \in {r}}}
    BY <2>1 DEF Release
  <2> HIDE DEF r
  <2>3. UNION {IdsOf(file) : file \in {<<"data", id>>}} = {id}
    BY <1>3
  <2>4. ready' = ready \ {id}
    BY <1>2, <2>2, <2>3
  <2>5. registered' = {x \in registered : x.file # <<"data", id>>}
    BY <1>2, <2>2
  <2>6. /\ fdOf' = [i \in DOMAIN fdOf \ {id} |-> fdOf[i]]
        /\ attachmentAt' = [fd \in DOMAIN attachmentAt \ {fdOf[id]} |-> attachmentAt[fd]]
    BY DEF HandleDisconnected
  <2> QED BY <1>2, <2>2, <2>4, <2>5, <2>6
<1>5. /\ Installed' = Installed \ {id}
      /\ \A i \in Installed' : i \in Installed /\ i # id /\ fdOf'[i] = fdOf[i]
  BY <1>4 DEF Installed
<1>6. \A i \in Installed' : fdOf[i] # fdOf[id]
  BY <1>5, TablesInjective
<1>7. /\ DOMAIN attachmentAt' = DOMAIN attachmentAt \ {fdOf[id]}
      /\ \A fd \in DOMAIN attachmentAt' : attachmentAt'[fd] = attachmentAt[fd] /\ fd \in DOMAIN attachmentAt
                                          /\ fd # fdOf[id]
  BY <1>4
<1>8. ASSUME NEW i \in Installed' PROVE At(i)' = At(i) /\ fdOf'[i] \in DOMAIN attachmentAt'
  <2>1. fdOf[i] \in DOMAIN attachmentAt'
    BY <1>5, <1>6, <1>7, Tables
  <2> QED BY <1>5, <1>7, <2>1 DEF At
<1>9. Records' \subseteq Records /\ \A x \in Records' : x.segment # id
  <2>1. ASSUME NEW x \in Records' PROVE x \in Records /\ x.segment # id
    <3>1. PICK fd \in DOMAIN attachmentAt' : x = attachmentAt'[fd]
      BY DEF Records
    <3>2. fd \in DOMAIN attachmentAt /\ x = attachmentAt[fd] /\ fd # fdOf[id]
      BY <1>7, <3>1
    <3>3. fdOf[x.segment] = fd
      BY <3>2, Tables
    <3> QED BY <3>2, <3>3 DEF Records
  <2> QED BY <2>1
<1>10. \A x \in Records : x.segment # id => x \in Records'
  <2>1. ASSUME NEW x \in Records, x.segment # id PROVE x \in Records'
    <3>1. PICK fd \in DOMAIN attachmentAt : x = attachmentAt[fd]
      BY DEF Records
    <3>2. fd # fdOf[id]
      BY <1>1, <2>1, <3>1 DEF At
    <3>3. fd \in DOMAIN attachmentAt' /\ attachmentAt'[fd] = x
      BY <1>7, <3>1, <3>2
    <3> QED BY <3>3 DEF Records
  <2> QED BY <2>1
<1>11. TablesTypeOK'
  BY <1>5, <1>7, <1>9 DEF TablesTypeOK
<1>12. TablesInv'
  <2>1. \A i \in Installed' : /\ fdOf'[i] \in DOMAIN attachmentAt'
                              /\ At(i)'.segment = i /\ At(i)'.data = fdOf'[i]
    BY <1>5, <1>8, Tables
  <2>2. ASSUME NEW fd \in DOMAIN attachmentAt'
        PROVE  attachmentAt'[fd].segment \in Installed' /\ fdOf'[attachmentAt'[fd].segment] = fd
    <3>1. /\ attachmentAt'[fd] = attachmentAt[fd] /\ fd # fdOf[id]
          /\ attachmentAt[fd].segment \in Installed /\ fdOf[attachmentAt[fd].segment] = fd
      BY <1>7, Tables
    <3>2. attachmentAt[fd].segment # id
      BY <3>1
    <3> QED BY <1>5, <3>1, <3>2
  <2>3. /\ registered' \subseteq
             {[file |-> <<"data", i>>, id |-> i] : i \in Installed'} \cup
             {[file |-> Own("broker"), id |-> BrokerEventId],
              [file |-> Own("shutdown"), id |-> ShutdownEventId]}
        /\ \A i \in Installed' : [file |-> <<"data", i>>, id |-> i] \in registered'
    BY <1>4, <1>5 DEF TablesInv
  <2>4. phase' \in {"shutdown", "exit", "start", "alive"} =>
             [file |-> Own("broker"), id |-> BrokerEventId] \in registered'
    BY <1>4 DEF TablesInv, Own
  <2> QED BY <2>1, <2>2, <2>3, <2>4 DEF TablesInv
<1>13. files' \in [Fd -> File \cup {NoFile}]
  BY <1>4 DEF KernelTypeOK
<1>14. DescriptorsAreOwned'
  <2>1. ASSUME NEW x \in Records'
        PROVE  /\ files'[x.shm] = <<"shm", x.segment>> /\ files'[x.space] = <<"space", x.segment>>
               /\ files'[x.data] = <<"data", x.segment>>
    <3>1. /\ x \in Records /\ x.segment # id /\ x \in Attachment
          /\ files[x.shm] = <<"shm", x.segment>> /\ files[x.space] = <<"space", x.segment>>
          /\ files[x.data] = <<"data", x.segment>>
      BY <1>9 DEF TablesTypeOK, DescriptorsAreOwned, Attachment
    <3>2. \A fd \in {x.shm, x.space, x.data} : fd \in Fd /\ fd \notin {r.shm, r.space, r.data}
      BY <1>1, <3>1 DEF Attachment
    <3> HIDE DEF r
    <3> QED BY <1>4, <3>1, <3>2
  <2>2. ASSUME NEW fd \in Fd, files'[fd] # NoFile PROVE fd \in FdsOf(Records') \/ fd \in OwnFds'
    <3>1. fd \notin {r.shm, r.space, r.data} /\ files'[fd] = files[fd]
      BY <1>4, <2>2
    <3>2. fd \in FdsOf(Records) \/ fd \in OwnFds
      BY <2>2, <3>1 DEF DescriptorsAreOwned
    <3>3. ASSUME fd \in FdsOf(Records) PROVE fd \in FdsOf(Records')
      <4>1. PICK x \in Records : fd \in {x.shm, x.space, x.data}
        BY <3>3 DEF FdsOf
      <4>2. x # r
        BY <3>1, <4>1
      <4>3. x.segment # id
        <5>1. x \in {At(i) : i \in Installed}
          BY Tables
        <5>2. PICK i \in Installed : x = At(i)
          BY <5>1
        <5>3. x.segment = i
          BY <5>2, Tables
        <5> QED BY <4>2, <5>2, <5>3
      <4> QED BY <1>10, <4>1, <4>3 DEF FdsOf
    <3> QED BY <3>1, <3>2, <3>3 DEF OwnFds
  <2>3. mapped' = {x.segment : x \in Records'}
    <3>1. mapped = {x.segment : x \in Records}
      BY DEF DescriptorsAreOwned
    <3> QED BY <1>4, <1>9, <1>10, <3>1
  <2> QED BY <2>1, <2>2, <2>3 DEF DescriptorsAreOwned
<1>15. mapped' \subseteq Id /\ registered' \subseteq registered /\ ready' = ready \ {id}
  BY <1>4 DEF KernelTypeOK
<1>16. \A i \in Installed' : fdOf'[i] = fdOf[i] /\ At(i)' = At(i)
  BY <1>5, <1>8
<1> QED BY <1>5, <1>11, <1>12, <1>13, <1>14, <1>15, <1>16

\* A message is read: at most the read index of one attachment moves on.
LEMMA ReadTables ==
  ASSUME EnvTypeOK, TablesTypeOK, TablesInv, DescriptorsAreOwned, ThreadTypeOK, ReadMessage
  PROVE  \E a \in Installed :
         /\ a = attachmentAt[cur].segment /\ a \in Id /\ fdOf[a] = cur /\ At(a) = attachmentAt[cur]
         /\ TablesTypeOK' /\ TablesInv' /\ DescriptorsAreOwned'
         /\ At(a).read \in Nat /\ At(a).read < published[a] /\ published[a] \in Nat
         /\ UNCHANGED fdOf /\ Installed' = Installed
         /\ \A i \in Installed : i # a => fdOf[i] # cur /\ At(i)' = At(i)
         /\ attachmentAt' = attachmentAt => At(a)' = At(a)
         /\ attachmentAt' = [attachmentAt EXCEPT ![cur].read = @ + 1] => At(a)'.read = At(a).read + 1
<1>1. PICK a : a = attachmentAt[cur].segment
  OBVIOUS
<1>2. /\ pc = "data" /\ attachmentAt[cur].read < published[a]
      /\ \/ attachmentAt' = [attachmentAt EXCEPT ![cur].read = @ + 1]
         \/ attachmentAt' = attachmentAt
      /\ UNCHANGED <<fdOf, files, registered, mapped, phase>>
  BY <1>1 DEF ReadMessage, kernel
<1>3. /\ cur \in DOMAIN attachmentAt /\ cur \in Fd /\ attachmentAt[cur] \in Attachment
      /\ a \in Installed /\ a \in Id /\ fdOf[a] = cur /\ At(a) = attachmentAt[cur]
  BY <1>1, <1>2, Tables DEF ThreadTypeOK, At
<1>4. /\ At(a).read \in 0 .. MaxMessages /\ published[a] \in 0 .. MaxMessages
      /\ At(a).read + 1 \in 0 .. MaxMessages /\ At(a).read \in Nat /\ published[a] \in Nat
  BY <1>2, <1>3, Bounds DEF Attachment, EnvTypeOK
<1>5. \A i \in Installed : i # a => fdOf[i] # cur
  BY <1>3, TablesInjective
<1>6. Installed' = Installed
  BY <1>2 DEF Installed
<1>7. CASE attachmentAt' = attachmentAt
  <2>1. TablesTypeOK' /\ TablesInv' /\ DescriptorsAreOwned'
    BY <1>2, <1>7, QuietTables
  <2>2. \A i : At(i)' = At(i)
    BY <1>2, <1>7 DEF At
  <2>3. attachmentAt' # [attachmentAt EXCEPT ![cur].read = @ + 1]
    <3>1. [attachmentAt EXCEPT ![cur].read = @ + 1][cur].read = attachmentAt[cur].read + 1
      BY <1>3 DEF Attachment
    <3>2. attachmentAt[cur].read + 1 # attachmentAt[cur].read
      BY <1>3, <1>4
    <3> QED BY <1>7, <3>1, <3>2
  <2> QED BY <1>1, <1>2, <1>3, <1>4, <1>5, <1>6, <2>1, <2>2, <2>3
<1>8. CASE attachmentAt' = [attachmentAt EXCEPT ![cur].read = @ + 1]
  <2>1. PICK new : new = [attachmentAt[cur] EXCEPT !.read = @ + 1]
    OBVIOUS
  <2>2. /\ new \in Attachment /\ new.shm = At(a).shm /\ new.space = At(a).space
        /\ new.data = At(a).data /\ new.segment = At(a).segment /\ new.read = At(a).read + 1
    BY <1>3, <1>4, <2>1 DEF Attachment
  <2>3. /\ DOMAIN attachmentAt' = DOMAIN attachmentAt /\ attachmentAt'[cur] = new
        /\ \A fd \in DOMAIN attachmentAt : fd # cur => attachmentAt'[fd] = attachmentAt[fd]
    BY <1>3, <1>8, <2>1
  <2>4. At(a)' = new
    BY <1>2, <1>3, <2>3 DEF At
  <2>5. \A i \in Installed : i # a => At(i)' = At(i)
    BY <1>2, <1>5, <2>3, Tables DEF At
  <2>6. \A fd \in DOMAIN attachmentAt :
          LET old == attachmentAt[fd]
              now == attachmentAt'[fd] IN
          /\ now \in Attachment /\ now.shm = old.shm /\ now.space = old.space
          /\ now.data = old.data /\ now.segment = old.segment
    BY <1>3, <2>2, <2>3, Tables
  <2>7. TablesTypeOK'
    BY <1>2, <1>6, <2>3, <2>6 DEF TablesTypeOK, Records, Attachment
  <2>8. TablesInv'
    <3>1. \A i \in Installed' : /\ fdOf'[i] \in DOMAIN attachmentAt'
                                /\ At(i)'.segment = i /\ At(i)'.data = fdOf'[i]
      BY <1>2, <1>6, <2>3, <2>6, Tables DEF At
    <3>2. \A fd \in DOMAIN attachmentAt' : /\ attachmentAt'[fd].segment \in Installed'
                                           /\ fdOf'[attachmentAt'[fd].segment] = fd
      BY <1>2, <1>6, <2>3, <2>6, Tables
    <3> QED BY <1>2, <1>6, <3>1, <3>2 DEF TablesInv
  <2>9. DescriptorsAreOwned'
    <3>1. \A x \in Records' : \E r \in Records :
            r.shm = x.shm /\ r.space = x.space /\ r.data = x.data /\ r.segment = x.segment
      BY <2>3, <2>6 DEF Records
    <3>2. \A r \in Records : \E x \in Records' :
            r.shm = x.shm /\ r.space = x.space /\ r.data = x.data /\ r.segment = x.segment
      BY <2>3, <2>6 DEF Records
    <3>3. FdsOf(Records)' = FdsOf(Records)
      <4>1. FdsOf(Records') \subseteq FdsOf(Records)
        BY <3>1 DEF FdsOf
      <4>2. FdsOf(Records) \subseteq FdsOf(Records')
        BY <3>2 DEF FdsOf
      <4> QED BY <4>1, <4>2 DEF FdsOf
    <3>4. {x.segment : x \in Records'} = {r.segment : r \in Records}
      BY <3>1, <3>2
    <3>5. OwnFds' = OwnFds /\ Free' = Free
      BY <1>2 DEF OwnFds, Free
    <3>6. \A x \in Records' : /\ files'[x.shm] = <<"shm", x.segment>>
                              /\ files'[x.space] = <<"space", x.segment>>
                              /\ files'[x.data] = <<"data", x.segment>>
      BY <1>2, <3>1 DEF DescriptorsAreOwned
    <3> QED BY <1>2, <3>3, <3>4, <3>5, <3>6 DEF DescriptorsAreOwned
  <2>10. attachmentAt' # attachmentAt
    <3>1. attachmentAt[cur].read + 1 # attachmentAt[cur].read
      BY <1>3, <1>4
    <3> QED BY <1>3, <2>2, <2>3, <3>1
  <2> QED BY <1>1, <1>2, <1>3, <1>4, <1>5, <1>6, <2>2, <2>4, <2>5, <2>7, <2>8, <2>9, <2>10
<1> QED BY <1>2, <1>7, <1>8

\* A packet leaves the descriptors and the tables in order.
LEMMA PacketTables ==
  ASSUME ControlInv, KernelTypeOK, TablesTypeOK, TablesInv, DescriptorsAreOwned, QueueInv, ReadPacket
  PROVE  KernelTypeOK' /\ TablesTypeOK' /\ TablesInv' /\ DescriptorsAreOwned'
<1>1. /\ pc = "control" /\ UNCHANGED <<counter, phase, batch>>
      /\ \/ Idles \/ FailsToRead \/ DropsBatch \/ Installs \/ Uninstalls \/ MissesAttachment
  BY PacketCases
<1>2. phase = "alive"
  BY <1>1 DEF ControlInv
<1>3. CASE Idles \/ FailsToRead \/ DropsBatch \/ MissesAttachment
  <2>1. UNCHANGED <<files, registered, ready, mapped, fdOf, attachmentAt>>
    BY <1>3 DEF Idles, FailsToRead, DropsBatch, MissesAttachment, tables
  <2>2. KernelTypeOK'
    BY <1>1, <2>1 DEF KernelTypeOK
  <2> QED BY <1>1, <2>1, <2>2, QuietTables
<1>4. CASE Installs
  <2>1. PICK n \in 0 .. Len(Head(queue).ids) : Install(Head(queue).ids, ReceivedFds(Head(queue).ids), n)
    BY <1>4 DEF Installs
  <2>2. PICK new : /\ TablesTypeOK' /\ TablesInv' /\ DescriptorsAreOwned'
                   /\ files' \in [Fd -> File \cup {NoFile}] /\ mapped' \subseteq Id
                   /\ registered' \subseteq [file : File, id : 0 .. ShutdownEventId]
                   /\ new \subseteq Id /\ ready' = ready \cup new
    BY <1>1, <1>2, <1>4, <2>1, InstallTables DEF Installs
  <2>3. Id \subseteq 0 .. ShutdownEventId
    BY Bounds DEF Id, ShutdownEventId
  <2>4. KernelTypeOK'
    BY <1>1, <2>2, <2>3 DEF KernelTypeOK
  <2> QED BY <2>2, <2>4
<1>5. CASE Uninstalls
  <2>1. PICK id \in Installed : HandleDisconnected(id)
    BY <1>5 DEF Uninstalls
  <2>2. /\ TablesTypeOK' /\ TablesInv' /\ DescriptorsAreOwned'
        /\ files' \in [Fd -> File \cup {NoFile}] /\ mapped' \subseteq Id
        /\ registered' \subseteq registered /\ ready' = ready \ {id}
    BY <1>1, <1>2, <2>1, UninstallTables
  <2>3. KernelTypeOK'
    BY <1>1, <2>2 DEF KernelTypeOK
  <2> QED BY <2>2, <2>3
<1> QED BY <1>1, <1>3, <1>4, <1>5

\* The descriptors, tables and mappings, over any step.
LEMMA TablesStep ==
  ASSUME ControlInv, EnvTypeOK, ThreadTypeOK, KernelTypeOK, TablesTypeOK, TablesInv,
         DescriptorsAreOwned, QueueInv, [Next]_vars
  PROVE  TablesTypeOK' /\ TablesInv' /\ DescriptorsAreOwned'
<1>1. CASE CreateStep
  BY <1>1, CreateTables
<1>2. CASE ReadMessage
  BY <1>2, ReadTables
<1>3. CASE ReadPacket
  BY <1>3, PacketTables
<1>4. CASE ReleaseAll
  BY <1>4, CloseStep
<1>5. CASE UNCHANGED <<files, registered, mapped, phase, fdOf, attachmentAt>>
  BY <1>5, QuietTables
<1> QED BY <1>1, <1>2, <1>3, <1>4, <1>5, WhatChanges

\* What the kernel keeps has its type after every step.
LEMMA KernelStep ==
  ASSUME ControlInv, EnvTypeOK, KernelTypeOK, TablesTypeOK, TablesInv,
         DescriptorsAreOwned, QueueInv, [Next]_vars
  PROVE  KernelTypeOK'
<1>1. /\ \A file : IdsOf(file) \subseteq 0 .. ShutdownEventId
      /\ \A id \in Id : <<"data", id>> \in File
      /\ Own("shutdown") \in File /\ Own("exit") \in File
  BY DEF KernelTypeOK, IdsOf, File, Own
<1>2. CASE CreateStep
  BY <1>2, CreateTables
<1>3. CASE ReadPacket
  BY <1>3, PacketTables
<1>4. CASE ReleaseAll
  BY <1>4, CloseStep
<1>5. ASSUME UNCHANGED <<files, mapped, registered>>, counter' \subseteq File,
             ready' \subseteq 0 .. ShutdownEventId, batch' \subseteq 0 .. ShutdownEventId
      PROVE  KernelTypeOK'
  BY <1>5 DEF KernelTypeOK
<1>6. CASE BrokerAttaches \/ \E id \in Id : PublisherEnds(id)
  <2>1. ready' = ready \cup IdsOf(Own("broker")) /\ UNCHANGED <<files, mapped, registered, counter, batch>>
    BY <1>6 DEF BrokerAttaches, PublisherEnds, Post, object
  <2> QED BY <1>1, <1>5, <2>1 DEF KernelTypeOK
<1>7. CASE BrokerEnds
  <2>1. ready' = ready \cup IdsOf(Own("broker")) /\ UNCHANGED <<files, mapped, registered, counter, batch>>
    BY <1>7 DEF BrokerEnds, object
  <2> QED BY <1>1, <1>5, <2>1 DEF KernelTypeOK
<1>8. CASE \E id \in Id : PublisherSignals(id)
  <2>1. PICK id \in Id : PublisherSignals(id)
    BY <1>8
  <2>2. /\ ready' = ready \cup IdsOf(<<"data", id>>) /\ counter' = counter \cup {<<"data", id>>}
        /\ UNCHANGED <<files, mapped, registered, batch>>
    BY <2>1 DEF PublisherSignals, object
  <2> QED BY <1>1, <1>5, <2>2 DEF KernelTypeOK
<1>9. CASE Fetch
  <2>1. /\ UNCHANGED <<files, mapped, registered, counter>>
        /\ \/ UNCHANGED <<batch, ready>>
           \/ batch' \subseteq ready /\ ready' \subseteq ready
    BY <1>9 DEF Fetch, Pending
  <2> QED BY <1>5, <2>1 DEF KernelTypeOK
<1>10. CASE SignalShutdown
  <2>1. /\ UNCHANGED <<files, mapped, registered, batch>>
        /\ counter' \subseteq counter \cup {Own("shutdown")}
        /\ ready' \subseteq ready \cup IdsOf(Own("shutdown"))
    BY <1>10 DEF SignalShutdown, object
  <2> QED BY <1>1, <1>5, <2>1 DEF KernelTypeOK
<1>11. CASE WorkerExits
  <2>1. /\ UNCHANGED <<files, mapped, registered, batch, ready>>
        /\ counter' \subseteq counter \cup {Own("exit")}
    BY <1>11 DEF WorkerExits
  <2> QED BY <1>1, <1>5, <2>1 DEF KernelTypeOK
<1>12. CASE HandleEvent
  <2>1. /\ UNCHANGED <<files, mapped, registered, ready>> /\ counter' \subseteq counter /\ batch' \subseteq batch
    BY <1>12 DEF HandleEvent, Consume
  <2> QED BY <1>5, <2>1 DEF KernelTypeOK
<1>13. CASE Move
  <2>1. \/ ReleaseAll
        \/ UNCHANGED <<files, mapped, registered, ready, batch>> /\ counter' \subseteq counter
    BY <1>13 DEF Move, Carried, kernel, object
  <2> QED BY <1>4, <1>5, <2>1 DEF KernelTypeOK
<1>14. CASE \/ UNCHANGED vars \/ \E id \in Id : PublisherCommits(id)
            \/ Subscribe \/ Timeout \/ ReadMessage \/ ReadAll \/ BeginStop \/ Join
  <2>1. UNCHANGED <<files, mapped, registered, counter, ready, batch>>
    BY <1>14 DEF vars, PublisherCommits, Subscribe, Timeout, ReadMessage, ReadAll, BeginStop, Join,
                 kernel, object
  <2> QED BY <1>5, <2>1 DEF KernelTypeOK
<1>15. CASE CreateFails \/ Destroy
  BY <1>4, <1>15 DEF CreateFails, Destroy
<1> QED BY <1>2, <1>3, <1>6, <1>7, <1>8, <1>9, <1>10, <1>11, <1>12, <1>13, <1>14, <1>15 DEF Next

-----------------------------------------------------------------------------
(* The publishers and the threads. *)

\* What reading a packet does to the thread.
LEMMA PacketIsRead ==
  ASSUME TablesTypeOK, TablesInv, DescriptorsAreOwned, KernelTypeOK, QueueInv, ReadPacket
  PROVE  /\ pc = "control"
         /\ UNCHANGED <<greeted, introduced, ended, brokerGone, published, unsignalled, counter, phase,
                        batch, active, promise, cur, assembled, owner, purpose, wasActive, moves,
                        asynchronous, delivered>>
         /\ \/ pc' \in {"control", "loop"} /\ UNCHANGED <<outcome, faults>>
            \/ /\ pc' = IF asynchronous THEN "promise" ELSE "out"
               /\ outcome' = IF asynchronous THEN "BrokerControlMessageProcessingFailed"
                                             ELSE "BrokerUnavailable"
               /\ \/ faults' = faults + 1
                  \/ faults' = faults /\ (brokerGone \/ MissesAttachment)
<1>1. /\ pc = "control"
      /\ UNCHANGED <<greeted, introduced, ended, brokerGone, published, unsignalled, counter, phase,
                     batch, active, promise, cur, assembled, owner, purpose, wasActive, moves,
                     asynchronous, delivered>>
      /\ \/ Idles \/ FailsToRead \/ DropsBatch \/ Installs \/ Uninstalls \/ MissesAttachment
  BY PacketCases DEF owning
<1>2. ControlFails => /\ pc' = IF asynchronous THEN "promise" ELSE "out"
                      /\ outcome' = IF asynchronous THEN "BrokerControlMessageProcessingFailed"
                                                    ELSE "BrokerUnavailable"
  BY DEF ControlFails, Ends
<1>3. CASE Idles
  BY <1>1, <1>3 DEF Idles
<1>4. CASE FailsToRead \/ DropsBatch
  BY <1>1, <1>2, <1>4 DEF FailsToRead, DropsBatch
<1>5. CASE Installs
  BY <1>1, <1>2, <1>5 DEF Installs, ReadOn
<1>6. CASE Uninstalls
  BY <1>1, <1>6 DEF Uninstalls, ReadOn
<1>7. CASE MissesAttachment
  BY <1>1, <1>2, <1>7 DEF MissesAttachment
<1> QED BY <1>1, <1>3, <1>4, <1>5, <1>6, <1>7

\* What the broker and the publishers keep has its type after every step.
LEMMA EnvStep ==
  ASSUME EnvTypeOK, TablesTypeOK, TablesInv, DescriptorsAreOwned, KernelTypeOK, QueueInv, [Next]_vars
  PROVE  EnvTypeOK'
<1>1. CASE BrokerAttaches
  BY <1>1, Bounds DEF BrokerAttaches, EnvTypeOK
<1>2. CASE \E id \in Id : PublisherEnds(id) \/ PublisherCommits(id) \/ PublisherSignals(id)
  <2>1. PICK id \in Id : PublisherEnds(id) \/ PublisherCommits(id) \/ PublisherSignals(id)
    BY <1>2
  <2> QED BY <2>1, Bounds DEF PublisherEnds, PublisherCommits, PublisherSignals, EnvTypeOK
<1>3. CASE BrokerEnds
  BY <1>3 DEF BrokerEnds, EnvTypeOK
<1>4. CASE ReadPacket
  BY <1>4, PacketIsRead DEF EnvTypeOK
<1>5. CASE \/ CreateStep \/ CreateFails \/ Subscribe \/ Timeout \/ Fetch \/ HandleEvent \/ ReadMessage
           \/ ReadAll \/ WorkerExits \/ BeginStop \/ SignalShutdown \/ Join \/ Destroy \/ Move
           \/ UNCHANGED vars
  <2>1. UNCHANGED env
    BY <1>5 DEF CreateStep, CreateFails, Subscribe, Timeout, Fetch, HandleEvent, ReadMessage, ReadAll,
                WorkerExits, BeginStop, SignalShutdown, Join, Destroy, Move, vars
  <2> QED BY <2>1 DEF EnvTypeOK, env
<1> QED BY <1>1, <1>2, <1>3, <1>4, <1>5 DEF Next

\* The broker and the publishers touch nothing that the threads of the process do.
LEMMA OutsideStep ==
  ASSUME \/ BrokerAttaches \/ BrokerEnds
         \/ \E id \in Id : PublisherEnds(id) \/ PublisherCommits(id) \/ PublisherSignals(id)
         \/ UNCHANGED vars
  PROVE  /\ UNCHANGED <<files, registered, mapped, object, thread, owning, delivered, faults>>
         /\ UNCHANGED counter \/ \E id \in Id : counter' = counter \cup {<<"data", id>>}
         /\ brokerGone' # brokerGone => brokerGone'
<1>1. CASE BrokerAttaches \/ BrokerEnds
  BY <1>1 DEF BrokerAttaches, BrokerEnds
<1>2. CASE \E id \in Id : PublisherEnds(id) \/ PublisherCommits(id) \/ PublisherSignals(id)
  BY <1>2 DEF PublisherEnds, PublisherCommits, PublisherSignals, kernel
<1>3. CASE UNCHANGED vars
  BY <1>3 DEF vars, env, kernel
<1> QED BY <1>1, <1>2, <1>3

\* Every step keeps the object and its thread where they may be.
LEMMA ControlStep ==
  ASSUME ControlInv, ThreadTypeOK, TablesTypeOK, TablesInv, DescriptorsAreOwned, KernelTypeOK, QueueInv,
         [Next]_vars
  PROVE  ControlInv'
<1>1. CASE CreateStep
  BY <1>1 DEF CreateStep, ControlInv, ThreadTypeOK, Installed, owning, Running, Ending
<1>2. CASE CreateFails
  BY <1>2, Closing DEF CreateFails, Fault, ControlInv, ThreadTypeOK, thread, owning, Running, Ending
<1>3. CASE \/ BrokerAttaches \/ BrokerEnds \/ UNCHANGED vars
           \/ \E id \in Id : PublisherEnds(id) \/ PublisherCommits(id) \/ PublisherSignals(id)
  BY <1>3, OutsideStep DEF ControlInv, object, thread, owning, Installed
<1>4. CASE Subscribe \/ Timeout
  BY <1>4 DEF Subscribe, Timeout, Ends, ControlInv, object, owning, Installed, Running, Ending
<1>5. CASE Fetch
  BY <1>5 DEF Fetch, Ends, Fault, ControlInv, owning, Installed, Running, Ending
<1>6. CASE HandleEvent
  BY <1>6, Bounds DEF HandleEvent, Ends, Fault, DataFails, SkipStale, ControlInv, TablesTypeOK, ThreadTypeOK,
              owning, Installed, Running, Ending, Fd
<1>7. CASE ReadMessage
  BY <1>7, Bounds DEF ReadMessage, Ends, Fault, DataFails, ControlInv, ThreadTypeOK, owning, Installed,
              Running, Ending
<1>8. CASE ReadAll
  BY <1>8, Bounds DEF ReadAll, Ends, ControlInv, ThreadTypeOK, object, owning, Installed, Running, Ending
<1>9. CASE ReadPacket
  <2>1. phase = "alive"
    BY <1>9, PacketIsRead DEF ControlInv
  <2> QED BY <1>9, <2>1, PacketIsRead DEF ControlInv, Running, Ending
<1>10. CASE WorkerExits
  BY <1>10 DEF WorkerExits, ControlInv, ThreadTypeOK, owning, Installed, Running, Ending
<1>11. CASE BeginStop
  BY <1>11 DEF BeginStop, ControlInv, ThreadTypeOK, object, thread, Installed, Running, Ending
<1>12. CASE SignalShutdown
  BY <1>12 DEF SignalShutdown, ControlInv, object, thread, Installed, Running, Ending
<1>13. CASE Join
  BY <1>13 DEF Join, ControlInv, object, Installed, Running, Ending
<1>14. CASE Destroy
  BY <1>14, Closing DEF Destroy, Leaves, ControlInv, thread, Running, Ending
<1>15. CASE Move
  <2>1. CASE ReleaseAll /\ UNCHANGED <<active, pc>>
    <3>1. /\ pc = "out" /\ owner = "stopped" /\ owner' = "none" /\ wasActive' \in BOOLEAN
          /\ faults' \in {faults, faults + 1}
          /\ UNCHANGED <<cur, assembled, asynchronous>>
      BY <1>15 DEF Move, Leaves, ControlInv, Fault
    <3>2. /\ Installed' = {} /\ DOMAIN attachmentAt' = {} /\ batch' = {} /\ phase' = "gone"
          /\ pc' = "out" /\ active' = active
      BY <2>1, <3>1, Closing
    <3>3. pc' \notin Ending /\ 0 \in 0 .. FdLimit
      BY <3>2, Bounds DEF Ending
    <3>4. /\ cur = 0 /\ ~(assembled > 0) /\ asynchronous \in BOOLEAN /\ active \in BOOLEAN /\ faults \in Nat
      BY <3>1 DEF ControlInv
    <3> QED BY <3>1, <3>2, <3>3, <3>4 DEF ControlInv
  <2>2. CASE UNCHANGED <<phase, fdOf, attachmentAt, batch>>
    <3>1. /\ pc = "out" /\ owner = "stopped" /\ owner' = "none" /\ wasActive' \in BOOLEAN
          /\ faults' \in {faults, faults + 1}
          /\ UNCHANGED <<cur, assembled, asynchronous, outcome>>
          /\ active' \in BOOLEAN /\ pc' \in {"out", "loop"}
      BY <1>15 DEF Move, Leaves, ControlInv, Fault, object, StartWorker, ReleaseAll
    <3>2. phase = "alive" /\ pc' \notin Ending /\ pc' # "data" /\ cur = 0 /\ ~(assembled > 0)
      BY <3>1 DEF ControlInv, Ending
    <3> QED BY <2>2, <3>1, <3>2 DEF ControlInv, Installed
  <2> QED BY <1>15, <2>1, <2>2 DEF Move, Carried, object
<1> QED BY <1>1, <1>2, <1>3, <1>4, <1>5, <1>6, <1>7, <1>8, <1>9, <1>10, <1>11, <1>12, <1>13, <1>14,
           <1>15 DEF Next

\* The promise of the worker.
LEMMA WorkerStep ==
  ASSUME IInv, [Next]_vars
  PROVE  WorkerInv'
<1> USE DEF IInv, TypeOK
<1>1. CASE ReadPacket
  <2>1. /\ UNCHANGED <<promise, owner, wasActive, asynchronous>> /\ pc = "control"
        /\ \/ pc' \in {"control", "loop"} /\ UNCHANGED outcome
           \/ pc' = "out" /\ ~asynchronous
           \/ pc' = "promise" /\ asynchronous /\ outcome' = "BrokerControlMessageProcessingFailed"
    BY <1>1, PacketIsRead DEF ControlInv
  <2>2. owner # "stopped" /\ promise = "unset" /\ pc' \notin Ending \ {"promise"}
    BY <2>1 DEF ControlInv, WorkerInv, Running, Ending
  <2> QED BY <2>1, <2>2 DEF WorkerInv, Running, Ending, WorkerResults
<1>2. CASE \/ BrokerAttaches \/ BrokerEnds \/ UNCHANGED vars
           \/ \E id \in Id : PublisherEnds(id) \/ PublisherCommits(id) \/ PublisherSignals(id)
  <2>1. UNCHANGED <<object, thread, owning>>
    BY <1>2, OutsideStep
  <2> QED BY <2>1 DEF WorkerInv, object, thread, owning
<1>3. CASE CreateStep \/ CreateFails
  BY <1>3 DEF CreateStep, CreateFails, ControlInv, WorkerInv, thread, owning, Running, Ending
<1>4. CASE Subscribe \/ Timeout \/ Fetch
  BY <1>4 DEF Subscribe, Timeout, Fetch, Ends, ControlInv, WorkerInv, object, owning, Running, Ending,
              WorkerResults
<1>5. CASE HandleEvent
  <2>1. /\ UNCHANGED <<promise, owner, wasActive, asynchronous>> /\ pc = "loop"
        /\ \/ pc' \in Running /\ UNCHANGED outcome
           \/ pc' = "out" /\ ~asynchronous
           \/ pc' = "promise" /\ asynchronous /\ outcome' \in WorkerResults
    BY <1>5 DEF HandleEvent, Ends, SkipStale, DataFails, ControlInv, TablesInv, Installed, owning,
                Running, WorkerResults
  <2> QED BY <2>1 DEF WorkerInv, ControlInv, Running, Ending
<1>6. CASE ReadMessage \/ ReadAll
  BY <1>6 DEF ReadMessage, ReadAll, Ends, DataFails, ControlInv, WorkerInv, object, owning, Running,
              Ending, WorkerResults
<1>7. CASE WorkerExits \/ BeginStop \/ SignalShutdown \/ Join
  BY <1>7 DEF WorkerExits, BeginStop, SignalShutdown, Join, ControlInv, WorkerInv, object, thread, owning,
              Running, Ending, WorkerResults
<1>8. CASE Destroy \/ Move
  BY <1>8 DEF Destroy, Move, Leaves, StartWorker, ControlInv, WorkerInv, object, thread, Running, Ending
<1> QED BY <1>1, <1>2, <1>3, <1>4, <1>5, <1>6, <1>7, <1>8 DEF Next

\* The shutdown event of the worker.
LEMMA ShutdownStep ==
  ASSUME IInv, [Next]_vars
  PROVE  ShutdownInv'
<1> USE DEF IInv, TypeOK
<1>1. CASE ReadPacket
  <2>1. /\ UNCHANGED <<counter, phase, batch, owner, asynchronous>> /\ pc = "control"
        /\ \/ pc' \in {"control", "loop"}
           \/ pc' = "out" /\ ~asynchronous
           \/ pc' = "promise" /\ asynchronous /\ outcome' = "BrokerControlMessageProcessingFailed"
    BY <1>1, PacketIsRead DEF ControlInv
  <2> QED BY <2>1 DEF ShutdownInv, Running, Ending
<1>2. CASE \/ BrokerAttaches \/ BrokerEnds \/ UNCHANGED vars
           \/ \E id \in Id : PublisherEnds(id) \/ PublisherCommits(id) \/ PublisherSignals(id)
  <2>1. /\ UNCHANGED <<object, thread, owning>>
        /\ UNCHANGED counter \/ \E id \in Id : counter' = counter \cup {<<"data", id>>}
    BY <1>2, OutsideStep
  <2>2. Own("shutdown") \in counter' <=> Own("shutdown") \in counter
    BY <2>1 DEF Own
  <2> QED BY <2>1, <2>2 DEF ShutdownInv, object, thread, owning
<1>3. CASE CreateStep \/ CreateFails
  BY <1>3, Closing DEF CreateStep, CreateFails, ControlInv, ShutdownInv, thread, owning, Running, Ending
<1>4. CASE Subscribe \/ Timeout
  BY <1>4 DEF Subscribe, Timeout, Ends, ControlInv, ShutdownInv, object, kernel, owning, Running, Ending
<1>5. CASE Fetch
  <2>1. ShutdownEventId \in batch' => Own("shutdown") \in counter
    <3>1. SUFFICES ASSUME ShutdownEventId \in batch' PROVE Own("shutdown") \in counter
      OBVIOUS
    <3>2. ShutdownEventId \in Pending
      BY <1>5, <3>1 DEF Fetch, ShutdownInv, ControlInv
    <3>3. PICK r \in registered : /\ r.id = ShutdownEventId
                                  /\ r.file \in counter \/ r.file = Own("broker")
      BY <3>2 DEF Pending, Readable
    <3>4. r.file = Own("shutdown")
      BY <3>3, EventIds
    <3> QED BY <3>3, <3>4 DEF Own
  <2>2. /\ UNCHANGED <<counter, phase, owner, asynchronous>> /\ pc = "loop"
        /\ \/ pc' = "loop" /\ UNCHANGED outcome
           \/ pc' = "out" /\ ~asynchronous /\ batch' = {}
           \/ pc' = "promise" /\ asynchronous /\ outcome' = "EpollWaitFailed" /\ batch' = {}
    BY <1>5 DEF Fetch, Ends, owning, ControlInv
  <2> QED BY <2>1, <2>2 DEF ShutdownInv, Running, Ending
<1>6. CASE HandleEvent \/ ReadMessage \/ ReadAll
  BY <1>6, Bounds DEF HandleEvent, Consume, ReadMessage, ReadAll, Ends, DataFails, SkipStale, ControlInv,
              TablesInv, Installed, ShutdownInv, object, kernel, owning, Running, Ending,
              Id, BrokerEventId, ShutdownEventId
<1>7. CASE WorkerExits \/ BeginStop \/ SignalShutdown \/ Join
  BY <1>7 DEF WorkerExits, BeginStop, SignalShutdown, Join, ControlInv, WorkerInv, ShutdownInv, object,
              kernel, thread, owning, Running, Ending, Own
<1>8. CASE Destroy
  BY <1>8, Closing DEF Destroy, Leaves, ControlInv, ShutdownInv, thread, Running, Ending
<1>9. CASE Move
  <2>1. CASE ReleaseAll
    BY <1>9, <2>1, Closing DEF Move, Leaves, ControlInv, ShutdownInv, thread, Running, Ending
  <2>2. CASE ~ReleaseAll
    BY <1>9, <2>2 DEF Move, Leaves, Carried, Restarts, StartWorker, ControlInv, WorkerInv, ShutdownInv,
              object, kernel, thread, Running, Ending
  <2> QED BY <2>1, <2>2
<1> QED BY <1>1, <1>2, <1>3, <1>4, <1>5, <1>6, <1>7, <1>8, <1>9 DEF Next

\* The thread inside subscribe() or run().
LEMMA ThreadStep ==
  ASSUME IInv, [Next]_vars
  PROVE  /\ promise' \in {"unset"} \cup WorkerResults
         /\ pc' \in {"out"} \cup Running \cup Ending
         /\ pc' = "data" => cur' \in DOMAIN attachmentAt'
<1> USE DEF IInv, TypeOK
<1>1. CASE ReadPacket
  BY <1>1, PacketIsRead DEF ControlInv, ThreadTypeOK, Running, Ending, WorkerResults
<1>2. CASE \/ BrokerAttaches \/ BrokerEnds \/ UNCHANGED vars
           \/ \E id \in Id : PublisherEnds(id) \/ PublisherCommits(id) \/ PublisherSignals(id)
  <2>1. UNCHANGED <<object, thread>>
    BY <1>2, OutsideStep
  <2> QED BY <2>1 DEF ThreadTypeOK, object, thread, Running, Ending, WorkerResults
<1>3. CASE CreateStep \/ CreateFails
  BY <1>3 DEF CreateStep, CreateFails, ControlInv, ThreadTypeOK, thread, Running, Ending, WorkerResults
<1>4. CASE Subscribe \/ Timeout \/ Fetch
  BY <1>4 DEF Subscribe, Timeout, Fetch, Ends, ThreadTypeOK, object, Running, Ending, WorkerResults
<1>5. CASE HandleEvent
  BY <1>5 DEF HandleEvent, Ends, SkipStale, DataFails, ThreadTypeOK, TablesInv, Installed, Running, Ending,
              WorkerResults
<1>6. CASE ReadMessage \/ ReadAll
  <2>1. pc' = "data" => DOMAIN attachmentAt' = DOMAIN attachmentAt /\ cur' = cur
    BY <1>6 DEF ReadMessage, ReadAll, Ends, DataFails, object
  <2>2. promise' = promise /\ pc = "data" /\ pc' \in {"data", "loop", "promise", "out"}
    BY <1>6 DEF ReadMessage, ReadAll, Ends, DataFails, object
  <2> QED BY <2>1, <2>2 DEF ThreadTypeOK, Running, Ending, WorkerResults
<1>7. CASE WorkerExits \/ BeginStop \/ SignalShutdown \/ Join
  BY <1>7 DEF WorkerExits, BeginStop, SignalShutdown, Join, WorkerInv, ThreadTypeOK, object, thread,
              Running, Ending, WorkerResults
<1>8. CASE Destroy \/ Move
  BY <1>8 DEF Destroy, Move, StartWorker, ControlInv, ThreadTypeOK, object, thread, Running, Ending,
              WorkerResults
<1> QED BY <1>1, <1>2, <1>3, <1>4, <1>5, <1>6, <1>7, <1>8 DEF Next

\* Nothing ends by itself: a publisher's end finds its attachment.
LEMMA EndsStep ==
  ASSUME IInv, [Next]_vars
  PROVE  NothingEndsByItself'
<1> USE DEF IInv, TypeOK
<1>1. CASE ReadPacket
  <2>1. /\ UNCHANGED <<brokerGone, owner, asynchronous>> /\ pc = "control"
        /\ \/ pc' \in {"control", "loop"} /\ UNCHANGED <<outcome, faults>>
           \/ pc' = "out" /\ (faults' > 0 \/ brokerGone)
           \/ pc' = "promise" /\ outcome' = "BrokerControlMessageProcessingFailed"
              /\ (faults' > 0 \/ brokerGone)
    <3>1. faults = 0 => ~MissesAttachment
      <4>1. SUFFICES ASSUME faults = 0, MissesAttachment PROVE FALSE
        OBVIOUS
      <4>2. queue # <<>> /\ phase # "gone"
        BY <1>1, <4>1, PacketIsRead DEF MissesAttachment, ControlInv
      <4>3. IsEnd(1) /\ queue[1].ids[1] \notin Installed
        BY <4>1, <4>2, Packets DEF MissesAttachment, IsEnd
      <4> QED BY <4>1, <4>2, <4>3, Packets DEF QueueInv
    <3>2. faults \in Nat
      BY DEF ControlInv
    <3> QED BY <1>1, <3>1, <3>2, PacketIsRead DEF ControlInv
  <2> QED BY <2>1 DEF NothingEndsByItself, ControlInv, WorkerInv, Running, Ending
<1>2. CASE \/ BrokerAttaches \/ BrokerEnds \/ UNCHANGED vars
           \/ \E id \in Id : PublisherEnds(id) \/ PublisherCommits(id) \/ PublisherSignals(id)
  <2>1. UNCHANGED <<thread, owning, faults>> /\ (brokerGone' \/ UNCHANGED brokerGone)
    BY <1>2, OutsideStep
  <2> QED BY <2>1 DEF NothingEndsByItself, thread, owning
<1>3. CASE CreateStep \/ CreateFails
  BY <1>3 DEF CreateStep, CreateFails, Fault, ControlInv, NothingEndsByItself, thread, owning, env
<1>4. CASE Subscribe \/ Timeout \/ Fetch
  BY <1>4 DEF Subscribe, Timeout, Fetch, Fault, Ends, ControlInv, NothingEndsByItself, owning, env
<1>5. CASE HandleEvent
  BY <1>5 DEF HandleEvent, Ends, SkipStale, DataFails, Fault, ControlInv, ShutdownInv, TablesInv, Installed,
              NothingEndsByItself, owning, env, Running
<1>6. CASE ReadMessage \/ ReadAll
  BY <1>6 DEF ReadMessage, ReadAll, Ends, DataFails, Fault, ControlInv, NothingEndsByItself, owning, env
<1>7. CASE WorkerExits \/ BeginStop \/ SignalShutdown \/ Join
  BY <1>7 DEF WorkerExits, BeginStop, SignalShutdown, Join, ControlInv, NothingEndsByItself, thread, owning,
              env, object
<1>8. CASE Destroy \/ Move
  BY <1>8 DEF Destroy, Move, Leaves, Fault, StartWorker, ControlInv, NothingEndsByItself, thread, env
<1> QED BY <1>1, <1>2, <1>3, <1>4, <1>5, <1>6, <1>7, <1>8 DEF Next

\* Steps that neither post a packet nor read one.
LEMMA QueueStays ==
  ASSUME QueueInv, UNCHANGED <<queue, ended, introduced, published>>,
         Installed' \subseteq Installed, phase' # "gone" => Installed' = Installed /\ phase # "gone",
         \A id \in Id : id \notin Installed => delivered'[id] = delivered[id],
         faults' = 0 => faults = 0
  PROVE  QueueInv' /\ Waiting' = Waiting
<1>1. /\ \A k : IsEnd(k)' <=> IsEnd(k)
      /\ \A k : IsBatch(k)' <=> IsBatch(k)
      /\ \A k, id : Announces(k, id)' <=> Announces(k, id)
  BY DEF IsEnd, IsBatch, Announces
<1>2. Waiting' = Waiting
  BY <1>1 DEF Waiting
<1>3. /\ queue' \in Seq(Packet)
      /\ \A k \in DOMAIN queue' :
           /\ IsEnd(k)' => Len(queue'[k].ids) = 1 /\ queue'[k].ids[1] \in ended'
           /\ IsBatch(k)' => IsInjective(queue'[k].ids) /\ Range(queue'[k].ids) \subseteq 1 .. introduced'
      /\ \A j, k \in DOMAIN queue', id \in Id : Announces(j, id)' /\ Announces(k, id)' => j = k
      /\ \A j, k \in DOMAIN queue' : IsEnd(j)' /\ IsEnd(k)' /\ queue'[j].ids = queue'[k].ids => j = k
  BY <1>1 DEF QueueInv
<1>4. ((faults = 0 /\ phase # "gone") => \A k \in DOMAIN queue : IsEnd(k) =>
         queue[k].ids[1] \in Installed \/ \E j \in 1 .. k - 1 : Announces(j, queue[k].ids[1]))'
  <2>1. ASSUME faults' = 0, phase' # "gone", NEW k \in DOMAIN queue, IsEnd(k), NEW x, x = queue[k].ids[1]
        PROVE  x \in Installed' \/ \E j \in 1 .. k - 1 : Announces(j, x)'
    <3>1. x \in Installed \/ \E j \in 1 .. k - 1 : Announces(j, x)
      BY <2>1 DEF QueueInv
    <3> QED BY <1>1, <2>1, <3>1
  <2> QED BY <1>1, <2>1
<1>5. /\ ended' \subseteq 1 .. introduced'
      /\ \A id \in Id : id > introduced' => published'[id] = 0
      /\ \A id \in Id : id > introduced' \/ id \in Waiting' => id \notin Installed' /\ delivered'[id] = 0
      /\ (faults' = 0 /\ phase' # "gone") =>
           \A id \in (1 .. introduced') \ ended' : id \in Installed' \cup Waiting'
  BY <1>2 DEF QueueInv
<1> QED BY <1>2, <1>3, <1>4, <1>5 DEF QueueInv

\* A packet is posted.
LEMMA Posted ==
  ASSUME QueueInv, NEW p \in Packet, queue' = Append(queue, p)
  PROVE  LET n == Len(queue) IN
         /\ n \in Nat /\ DOMAIN queue = 1 .. n /\ DOMAIN queue' = 1 .. n + 1 /\ queue' \in Seq(Packet)
         /\ queue'[n + 1] = p /\ queue' # <<>>
         /\ \A k \in 1 .. n : queue'[k] = queue[k]
         /\ \A k : IsEnd(k)' <=> IsEnd(k) \/ (k = n + 1 /\ p.type = "PublisherDisconnected")
         /\ \A k : IsBatch(k)' <=> IsBatch(k) \/ (k = n + 1 /\ p.type = "SubscriberAttachmentBatch")
         /\ \A k, id : Announces(k, id)' <=> \/ Announces(k, id)
                                             \/ /\ k = n + 1 /\ p.type = "SubscriberAttachmentBatch"
                                                /\ id \in Range(p.ids)
<1>1. /\ Len(queue) \in Nat /\ DOMAIN queue = 1 .. Len(queue) /\ DOMAIN queue' = 1 .. Len(queue) + 1
      /\ queue' \in Seq(Packet) /\ queue'[Len(queue) + 1] = p
      /\ \A k \in 1 .. Len(queue) : queue'[k] = queue[k]
  BY AppendProperties, LenProperties DEF QueueInv
<1>2. queue' # <<>>
  BY <1>1
<1>3. /\ \A k : IsEnd(k)' <=> IsEnd(k) \/ (k = Len(queue) + 1 /\ p.type = "PublisherDisconnected")
      /\ \A k : IsBatch(k)' <=> IsBatch(k) \/ (k = Len(queue) + 1 /\ p.type = "SubscriberAttachmentBatch")
  BY <1>1 DEF IsEnd, IsBatch
<1>4. \A k, id : Announces(k, id)' <=> \/ Announces(k, id)
                                       \/ /\ k = Len(queue) + 1 /\ p.type = "SubscriberAttachmentBatch"
                                          /\ id \in Range(p.ids)
  <2>1. \A k : IsBatch(k) => queue'[k] = queue[k] /\ k # Len(queue) + 1
    BY <1>1 DEF IsBatch
  <2>2. ASSUME NEW k, NEW id
        PROVE  Announces(k, id)' <=> IsBatch(k)' /\ id \in Range(queue'[k].ids)
    BY DEF Announces
  <2> QED BY <1>1, <1>3, <2>1, <2>2 DEF Announces
<1> QED BY <1>1, <1>2, <1>3, <1>4

\* The broker announces publishers it has not announced before.
LEMMA QueueAttaches ==
  ASSUME IInv, BrokerAttaches
  PROVE  /\ QueueInv' /\ Waiting \subseteq Waiting'
         /\ \A id \in Waiting' \ Waiting : id > introduced
<1> USE DEF IInv, TypeOK
<1>1. introduced \in Nat /\ introduced <= Attachments /\ Attachments \in Nat
  BY Bounds DEF EnvTypeOK
<1>2. PICK n \in 0 .. MaxBatch :
        /\ n + introduced <= Attachments /\ introduced' = introduced + n
        /\ Post([type |-> "SubscriberAttachmentBatch", ids |-> [i \in 1 .. n |-> introduced + i]])
  BY DEF BrokerAttaches
<1>3. n \in Nat
  BY <1>2, Bounds
<1>4. PICK ids : ids = [i \in 1 .. n |-> introduced + i]
  OBVIOUS
<1>5. PICK p : p = [type |-> "SubscriberAttachmentBatch", ids |-> ids]
  OBVIOUS
<1>6. /\ ids \in Seq(Id) /\ DOMAIN ids = 1 .. n /\ \A i \in 1 .. n : ids[i] = introduced + i
      /\ IsInjective(ids)
      /\ \A x : x \in Range(ids) <=> x \in introduced + 1 .. introduced + n
  <2>1. /\ DOMAIN ids = 1 .. n /\ \A i \in 1 .. n : ids[i] = introduced + i /\ ids[i] \in Id
    BY <1>1, <1>2, <1>3, <1>4 DEF Id
  <2>2. ids \in Seq(Id)
    BY <1>3, <1>4, <2>1
  <2>3. IsInjective(ids)
    BY <1>1, <1>3, <2>1 DEF IsInjective
  <2>4. ASSUME NEW x PROVE x \in Range(ids) <=> x \in introduced + 1 .. introduced + n
    <3>1. x \in introduced + 1 .. introduced + n => x - introduced \in 1 .. n /\ x = introduced + (x - introduced)
      BY <1>1, <1>3
    <3> QED BY <1>1, <1>3, <2>1, <3>1 DEF Range
  <2> QED BY <2>1, <2>2, <2>3, <2>4
<1>7. p \in Packet /\ queue' = Append(queue, p) /\ p.type = "SubscriberAttachmentBatch" /\ p.ids = ids
  BY <1>2, <1>4, <1>5, <1>6 DEF Post, Packet
<1>8. /\ Len(queue) \in Nat /\ DOMAIN queue = 1 .. Len(queue)
      /\ DOMAIN queue' = 1 .. Len(queue) + 1 /\ queue' \in Seq(Packet)
      /\ queue'[Len(queue) + 1] = p
      /\ \A k \in 1 .. Len(queue) : queue'[k] = queue[k]
      /\ \A k : IsEnd(k)' <=> IsEnd(k)
      /\ \A k : IsBatch(k)' <=> IsBatch(k) \/ k = Len(queue) + 1
      /\ \A k, id : Announces(k, id)' <=> Announces(k, id) \/ (k = Len(queue) + 1 /\ id \in Range(ids))
  BY <1>7, Posted
<1>9. /\ UNCHANGED <<ended, published, fdOf, delivered, phase, faults>> /\ phase # "gone"
      /\ Installed' = Installed
  BY DEF BrokerAttaches, object, Connected, Installed
<1>10. \A id \in Waiting : id \in 1 .. introduced
  BY <1>1 DEF Waiting, Announces, QueueInv
<1>11. \A id \in Id : id \in Waiting' <=> id \in Waiting \/ id \in Range(ids)
  <2>1. /\ \A id \in Id : id \in Waiting' <=> \E k \in 1 .. Len(queue) + 1 : Announces(k, id)'
        /\ \A id \in Id : id \in Waiting <=> \E k \in 1 .. Len(queue) : Announces(k, id)
    BY <1>8 DEF Waiting
  <2>2. \A k, id : Announces(k, id) => k \in 1 .. Len(queue)
    BY <1>8 DEF Announces, IsBatch
  <2> QED BY <1>8, <2>1, <2>2
<1>12. \A k, id : Announces(k, id) => k \in 1 .. Len(queue) /\ id \in 1 .. introduced
  BY <1>8 DEF Announces, IsBatch, QueueInv
<1>13. /\ queue' \in Seq(Packet)
       /\ \A k \in DOMAIN queue' :
            /\ IsEnd(k)' => Len(queue'[k].ids) = 1 /\ queue'[k].ids[1] \in ended'
            /\ IsBatch(k)' => IsInjective(queue'[k].ids) /\ Range(queue'[k].ids) \subseteq 1 .. introduced'
  <2>1. \A k \in 1 .. Len(queue) :
          /\ IsEnd(k) => Len(queue[k].ids) = 1 /\ queue[k].ids[1] \in ended
          /\ IsBatch(k) => IsInjective(queue[k].ids) /\ Range(queue[k].ids) \subseteq 1 .. introduced
    BY <1>8 DEF QueueInv
  <2>2. 1 .. introduced \subseteq 1 .. introduced' /\ Range(ids) \subseteq 1 .. introduced'
    BY <1>1, <1>2, <1>3, <1>6
  <2>3. ~IsEnd(Len(queue) + 1)
    BY <1>8 DEF IsEnd
  <2> QED BY <1>6, <1>7, <1>8, <1>9, <2>1, <2>2, <2>3
<1>14. /\ \A j, k \in DOMAIN queue', id \in Id : Announces(j, id)' /\ Announces(k, id)' => j = k
       /\ \A j, k \in DOMAIN queue' : IsEnd(j)' /\ IsEnd(k)' /\ queue'[j].ids = queue'[k].ids => j = k
  <2>1. /\ \A j, k \in 1 .. Len(queue), id \in Id : Announces(j, id) /\ Announces(k, id) => j = k
        /\ \A j, k \in 1 .. Len(queue) : IsEnd(j) /\ IsEnd(k) /\ queue[j].ids = queue[k].ids => j = k
    BY <1>8 DEF QueueInv
  <2>2. \A k, id : Announces(k, id) => id \notin Range(ids)
    BY <1>1, <1>3, <1>6, <1>12
  <2>3. \A k : IsEnd(k) => k \in 1 .. Len(queue)
    BY <1>8 DEF IsEnd
  <2>4. \A j, k \in DOMAIN queue', id \in Id : Announces(j, id)' /\ Announces(k, id)' => j = k
    BY <1>8, <1>12, <2>1, <2>2
  <2> QED BY <1>8, <2>1, <2>3, <2>4
<1>15. ((faults = 0 /\ phase # "gone") => \A k \in DOMAIN queue : IsEnd(k) =>
          queue[k].ids[1] \in Installed \/ \E j \in 1 .. k - 1 : Announces(j, queue[k].ids[1]))'
  <2>1. \A k : IsEnd(k) => k \in 1 .. Len(queue)
    BY <1>8 DEF IsEnd
  <2>2. ASSUME faults = 0, NEW k \in 1 .. Len(queue), IsEnd(k), NEW x, x = queue[k].ids[1]
        PROVE  x \in Installed' \/ \E j \in 1 .. k - 1 : Announces(j, x)'
    <3>1. x \in Installed \/ \E j \in 1 .. k - 1 : Announces(j, x)
      BY <1>8, <1>9, <2>2 DEF QueueInv
    <3> QED BY <1>8, <1>9, <3>1
  <2> QED BY <1>8, <1>9, <2>1, <2>2
<1>16. /\ ended' \subseteq 1 .. introduced'
       /\ \A id \in Id : id > introduced' => published'[id] = 0
       /\ \A id \in Id : id > introduced' \/ id \in Waiting' => id \notin Installed' /\ delivered'[id] = 0
       /\ (faults' = 0 /\ phase' # "gone") =>
            \A id \in (1 .. introduced') \ ended' : id \in Installed' \cup Waiting'
  <2>1. /\ \A id \in Id : id \in Nat /\ id <= Attachments
        /\ 1 .. introduced' \subseteq Id
    BY <1>1, <1>2, <1>3 DEF Id
  <2>2. \A id \in 1 .. introduced' : id \in 1 .. introduced \/ id \in Range(ids)
    BY <1>1, <1>2, <1>3, <1>6
  <2>3. \A id \in Id : id > introduced' \/ id \in Range(ids) => id > introduced
    BY <1>1, <1>2, <1>3, <1>6, <2>1
  <2>4. ended' \subseteq 1 .. introduced' /\ \A id \in Id : id > introduced' => published'[id] = 0
    BY <1>1, <1>2, <1>3, <1>9, <2>3 DEF QueueInv
  <2>5. \A id \in Id : id > introduced' \/ id \in Waiting' => id \notin Installed' /\ delivered'[id] = 0
    BY <1>9, <1>11, <2>3 DEF QueueInv
  <2>6. (faults' = 0 /\ phase' # "gone") =>
            \A id \in (1 .. introduced') \ ended' : id \in Installed' \cup Waiting'
    BY <1>9, <1>11, <2>1, <2>2 DEF QueueInv
  <2> QED BY <2>4, <2>5, <2>6
<1>17. Waiting \subseteq Waiting' /\ \A id \in Waiting' \ Waiting : id > introduced
  <2>1. \A id : id \in Waiting \/ id \in Waiting' => id \in Id
    BY DEF Waiting
  <2> QED BY <1>1, <1>3, <1>6, <1>11, <2>1
<1> QED BY <1>13, <1>14, <1>15, <1>16, <1>17 DEF QueueInv

\* The end of a publisher follows its announcement.
LEMMA QueueEnds ==
  ASSUME IInv, NEW id \in Id, PublisherEnds(id)
  PROVE  QueueInv' /\ Waiting' = Waiting
<1> USE DEF IInv, TypeOK
<1>1. /\ UNCHANGED <<introduced, published, fdOf, delivered, phase, faults>> /\ phase # "gone"
      /\ Installed' = Installed /\ id \in 1 .. introduced /\ id \notin ended /\ ended' = ended \cup {id}
      /\ Post([type |-> "PublisherDisconnected", ids |-> <<id>>])
  BY DEF PublisherEnds, object, Connected, Installed
<1>2. PICK p : p = [type |-> "PublisherDisconnected", ids |-> <<id>>]
  OBVIOUS
<1>3. /\ p \in Packet /\ queue' = Append(queue, p) /\ p.type = "PublisherDisconnected"
      /\ p.ids = <<id>> /\ Len(p.ids) = 1 /\ p.ids[1] = id
  BY <1>1, <1>2 DEF Post, Packet
<1>4. /\ Len(queue) \in Nat /\ DOMAIN queue = 1 .. Len(queue)
      /\ DOMAIN queue' = 1 .. Len(queue) + 1 /\ queue' \in Seq(Packet)
      /\ queue'[Len(queue) + 1] = p
      /\ \A k \in 1 .. Len(queue) : queue'[k] = queue[k]
      /\ \A k : IsEnd(k)' <=> IsEnd(k) \/ k = Len(queue) + 1
      /\ \A k : IsBatch(k)' <=> IsBatch(k)
      /\ \A k, i : Announces(k, i)' <=> Announces(k, i)
  BY <1>3, Posted
<1>5. /\ \A k : IsEnd(k) \/ IsBatch(k) => k \in 1 .. Len(queue)
      /\ \A k, i : Announces(k, i) => k \in 1 .. Len(queue)
  BY <1>4 DEF IsEnd, IsBatch, Announces
<1>6. Waiting' = Waiting
  <2>1. \A i : (\E k \in DOMAIN queue' : Announces(k, i)') <=> \E k \in DOMAIN queue : Announces(k, i)
    BY <1>4, <1>5
  <2> QED BY <2>1 DEF Waiting
<1>7. /\ queue' \in Seq(Packet)
      /\ \A k \in DOMAIN queue' :
           /\ IsEnd(k)' => Len(queue'[k].ids) = 1 /\ queue'[k].ids[1] \in ended'
           /\ IsBatch(k)' => IsInjective(queue'[k].ids) /\ Range(queue'[k].ids) \subseteq 1 .. introduced'
  <2>1. \A k \in 1 .. Len(queue) :
          /\ IsEnd(k) => Len(queue[k].ids) = 1 /\ queue[k].ids[1] \in ended
          /\ IsBatch(k) => IsInjective(queue[k].ids) /\ Range(queue[k].ids) \subseteq 1 .. introduced
    BY <1>4 DEF QueueInv
  <2> QED BY <1>1, <1>3, <1>4, <1>5, <2>1
<1>8. \A j, k \in DOMAIN queue', i \in Id : Announces(j, i)' /\ Announces(k, i)' => j = k
  BY <1>4, <1>5 DEF QueueInv
<1>9. \A j, k \in DOMAIN queue' : IsEnd(j)' /\ IsEnd(k)' /\ queue'[j].ids = queue'[k].ids => j = k
  <2>1. \A j, k \in 1 .. Len(queue) : IsEnd(j) /\ IsEnd(k) /\ queue[j].ids = queue[k].ids => j = k
    BY <1>4 DEF QueueInv
  <2>2. \A k \in 1 .. Len(queue) : IsEnd(k) => queue[k].ids # <<id>>
    BY <1>1, <1>4 DEF QueueInv
  <2> QED BY <1>3, <1>4, <1>5, <2>1, <2>2
<1>10. ((faults = 0 /\ phase # "gone") => \A k \in DOMAIN queue : IsEnd(k) =>
          queue[k].ids[1] \in Installed \/ \E j \in 1 .. k - 1 : Announces(j, queue[k].ids[1]))'
  <2>1. ASSUME faults = 0, NEW k \in 1 .. Len(queue), IsEnd(k), NEW x, x = queue[k].ids[1]
        PROVE  x \in Installed' \/ \E j \in 1 .. k - 1 : Announces(j, x)'
    <3>1. x \in Installed \/ \E j \in 1 .. k - 1 : Announces(j, x)
      BY <1>1, <1>4, <2>1 DEF QueueInv
    <3> QED BY <1>1, <1>4, <3>1
  <2>2. faults = 0 => id \in Installed' \/ \E j \in 1 .. Len(queue) + 1 - 1 : Announces(j, id)'
    <3>1. faults = 0 => id \in Installed \cup Waiting
      BY <1>1 DEF QueueInv
    <3> QED BY <1>1, <1>4, <3>1 DEF Waiting
  <2> QED BY <1>1, <1>3, <1>4, <1>5, <2>1, <2>2
<1>11. /\ ended' \subseteq 1 .. introduced'
       /\ \A i \in Id : i > introduced' => published'[i] = 0
       /\ \A i \in Id : i > introduced' \/ i \in Waiting' => i \notin Installed' /\ delivered'[i] = 0
       /\ (faults' = 0 /\ phase' # "gone") =>
            \A i \in (1 .. introduced') \ ended' : i \in Installed' \cup Waiting'
  BY <1>1, <1>6 DEF QueueInv
<1> QED BY <1>6, <1>7, <1>8, <1>9, <1>10, <1>11 DEF QueueInv

\* Only a publisher that has been announced commits.
LEMMA QueueCommits ==
  ASSUME IInv, NEW id \in Id, PublisherCommits(id)
  PROVE  QueueInv' /\ Waiting' = Waiting
<1> USE DEF IInv, TypeOK
<1>1. /\ UNCHANGED <<introduced, queue, ended, fdOf, delivered, phase, faults>>
      /\ Installed' = Installed /\ id \in 1 .. introduced /\ published' = [published EXCEPT ![id] = @ + 1]
  BY DEF PublisherCommits, object, Installed
<1>2. /\ \A k : IsEnd(k)' <=> IsEnd(k)
      /\ \A k : IsBatch(k)' <=> IsBatch(k)
      /\ \A k, i : Announces(k, i)' <=> Announces(k, i)
  BY <1>1 DEF IsEnd, IsBatch, Announces
<1>3. Waiting' = Waiting
  BY <1>1, <1>2 DEF Waiting
<1>4. \A i \in Id : i > introduced' => published'[i] = 0
  <2>1. introduced \in Nat /\ published \in [Id -> 0 .. MaxMessages] /\ ~(id > introduced)
    BY <1>1 DEF EnvTypeOK
  <2> QED BY <1>1, <2>1 DEF QueueInv
<1>5. ((faults = 0 /\ phase # "gone") => \A k \in DOMAIN queue : IsEnd(k) =>
         queue[k].ids[1] \in Installed \/ \E j \in 1 .. k - 1 : Announces(j, queue[k].ids[1]))'
  <2>1. ASSUME faults' = 0, phase' # "gone", NEW k \in DOMAIN queue, IsEnd(k), NEW x, x = queue[k].ids[1]
        PROVE  x \in Installed' \/ \E j \in 1 .. k - 1 : Announces(j, x)'
    <3>1. x \in Installed \/ \E j \in 1 .. k - 1 : Announces(j, x)
      BY <1>1, <2>1 DEF QueueInv
    <3> QED BY <1>1, <1>2, <2>1, <3>1
  <2> QED BY <1>1, <1>2, <2>1
<1> QED BY <1>1, <1>2, <1>3, <1>4, <1>5 DEF QueueInv

\* The first packet leaves the queue, and what it says of the attachments is
\* done, unless something fails.
LEMMA QueueLeaves ==
  ASSUME QueueInv, queue # <<>>, queue' = Tail(queue), phase # "gone",
         introduced \in Nat, Installed \subseteq Id,
         UNCHANGED <<introduced, ended, published, delivered, phase>>,
         \A id \in Id : id \in Installed' => id \in Installed \/ Announces(1, id),
         faults' = 0 => /\ faults = 0
                        /\ \A id \in Id : Announces(1, id) => id \in Installed'
                        /\ \A id \in Id : id \in Installed =>
                             id \in Installed' \/ (IsEnd(1) /\ queue[1].ids[1] = id)
  PROVE  /\ QueueInv'
         /\ \A id \in Id : id \in Waiting <=> id \in Waiting' \/ Announces(1, id)
         /\ \A id \in Waiting' : ~Announces(1, id)
<1>1. /\ Len(queue) \in Nat \ {0} /\ DOMAIN queue = 1 .. Len(queue)
      /\ queue' \in Seq(Packet) /\ DOMAIN queue' = 1 .. Len(queue) - 1
      /\ \A k \in 1 .. Len(queue) - 1 : queue'[k] = queue[k + 1]
  BY Packets, LenProperties DEF QueueInv
<1>2. \A k \in 1 .. Len(queue) : queue[k] \in Packet /\ queue[k].ids \in Seq(Id)
  <2>1. \A k \in 1 .. Len(queue) : queue[k] \in Packet
    <3>1. queue \in Seq(Packet)
      BY DEF QueueInv
    <3> QED BY <3>1
  <2>2. \A p \in Packet : p.ids \in Seq(Id)
    BY DEF Packet
  <2> QED BY <2>1, <2>2
<1>3. \A k \in 1 .. Len(queue) - 1 : k + 1 \in 2 .. Len(queue) /\ k + 1 # 1
  BY <1>1
<1>4. /\ \A k \in 1 .. Len(queue) - 1 : IsEnd(k)' <=> IsEnd(k + 1)
      /\ \A k \in 1 .. Len(queue) - 1 : IsBatch(k)' <=> IsBatch(k + 1)
      /\ \A id : \A k \in 1 .. Len(queue) - 1 : Announces(k, id)' <=> Announces(k + 1, id)
  <2>1. \A k \in 1 .. Len(queue) - 1 : k \in DOMAIN queue' /\ k + 1 \in DOMAIN queue /\ queue'[k] = queue[k + 1]
    BY <1>1
  <2> QED BY <2>1 DEF IsEnd, IsBatch, Announces
<1>5. \A id \in Id : /\ id \in Waiting' <=> \E k \in 1 .. Len(queue) - 1 : Announces(k, id)'
                     /\ id \in Waiting <=> \E k \in 1 .. Len(queue) : Announces(k, id)
  BY <1>1 DEF Waiting
<1>6. \A id \in Id : id \in Waiting' <=> \E k \in 2 .. Len(queue) : Announces(k, id)
  <2>1. \A k \in 2 .. Len(queue) : k - 1 \in 1 .. Len(queue) - 1 /\ (k - 1) + 1 = k
    BY <1>1
  <2>2. ASSUME NEW id \in Id, NEW k \in 1 .. Len(queue) - 1, Announces(k, id)'
        PROVE  \E l \in 2 .. Len(queue) : Announces(l, id)
    BY <1>3, <1>4, <2>2
  <2>3. ASSUME NEW id \in Id, NEW l \in 2 .. Len(queue), Announces(l, id)
        PROVE  \E k \in 1 .. Len(queue) - 1 : Announces(k, id)'
    BY <1>4, <2>1, <2>3
  <2> QED BY <1>5, <2>2, <2>3
<1>7. \A id \in Id : id \in Waiting <=> id \in Waiting' \/ Announces(1, id)
  <2>1. \A k \in 1 .. Len(queue) : k = 1 \/ k \in 2 .. Len(queue)
    BY <1>1
  <2>2. 1 \in 1 .. Len(queue) /\ 2 .. Len(queue) \subseteq 1 .. Len(queue)
    BY <1>1
  <2> QED BY <1>5, <1>6, <2>1, <2>2
<1>8. \A id \in Waiting' : id \in Id /\ ~Announces(1, id)
  <2>1. \A id \in Waiting' : id \in Id
    BY DEF Waiting
  <2>2. \A k \in 2 .. Len(queue), id \in Id : Announces(1, id) /\ Announces(k, id) => FALSE
    <3>1. \A k \in 2 .. Len(queue) : k \in DOMAIN queue /\ 1 \in DOMAIN queue /\ k # 1
      BY <1>1
    <3> QED BY <3>1 DEF QueueInv
  <2> QED BY <1>6, <2>1, <2>2
<1>9. /\ queue' \in Seq(Packet)
      /\ \A k \in DOMAIN queue' :
           /\ IsEnd(k)' => Len(queue'[k].ids) = 1 /\ queue'[k].ids[1] \in ended'
           /\ IsBatch(k)' => IsInjective(queue'[k].ids) /\ Range(queue'[k].ids) \subseteq 1 .. introduced'
  <2>1. \A k \in 1 .. Len(queue) - 1 :
          /\ IsEnd(k + 1) => Len(queue[k + 1].ids) = 1 /\ queue[k + 1].ids[1] \in ended
          /\ IsBatch(k + 1) => IsInjective(queue[k + 1].ids) /\ Range(queue[k + 1].ids) \subseteq 1 .. introduced
    <3>1. \A k \in 1 .. Len(queue) - 1 : k + 1 \in DOMAIN queue
      BY <1>1
    <3> QED BY <3>1 DEF QueueInv
  <2> QED BY <1>1, <1>4, <2>1
<1>10. \A j, k \in DOMAIN queue', id \in Id : Announces(j, id)' /\ Announces(k, id)' => j = k
  <2>1. ASSUME NEW j \in 1 .. Len(queue) - 1, NEW k \in 1 .. Len(queue) - 1, NEW id \in Id,
               Announces(j + 1, id), Announces(k + 1, id)
        PROVE  j = k
    <3>1. j + 1 \in DOMAIN queue /\ k + 1 \in DOMAIN queue
      BY <1>1
    <3>2. j + 1 = k + 1
      BY <2>1, <3>1 DEF QueueInv
    <3> QED BY <1>1, <3>2
  <2> QED BY <1>1, <1>4, <2>1
<1>11. \A j, k \in DOMAIN queue' : IsEnd(j)' /\ IsEnd(k)' /\ queue'[j].ids = queue'[k].ids => j = k
  <2>1. ASSUME NEW j \in 1 .. Len(queue) - 1, NEW k \in 1 .. Len(queue) - 1,
               IsEnd(j + 1), IsEnd(k + 1), queue[j + 1].ids = queue[k + 1].ids
        PROVE  j = k
    <3>1. j + 1 \in DOMAIN queue /\ k + 1 \in DOMAIN queue
      BY <1>1
    <3>2. j + 1 = k + 1
      BY <2>1, <3>1 DEF QueueInv
    <3> QED BY <1>1, <3>2
  <2> QED BY <1>1, <1>4, <2>1, ZenonT(40)
<1>12. ((faults = 0 /\ phase # "gone") => \A k \in DOMAIN queue : IsEnd(k) =>
          queue[k].ids[1] \in Installed \/ \E j \in 1 .. k - 1 : Announces(j, queue[k].ids[1]))'
  <2>1. ASSUME faults' = 0, NEW k \in 1 .. Len(queue) - 1, IsEnd(k + 1), NEW x, x = queue[k + 1].ids[1]
        PROVE  x \in Installed' \/ \E j \in 1 .. k - 1 : Announces(j, x)'
    <3>1. k + 1 \in DOMAIN queue /\ 1 \in DOMAIN queue /\ 1 # k + 1
      BY <1>1
    <3>2. x \in Id /\ Len(queue[k + 1].ids) = 1
      <4>1. Len(queue[k + 1].ids) = 1 /\ queue[k + 1].ids \in Seq(Id)
        BY <1>1, <1>2, <2>1, <3>1 DEF QueueInv
      <4> QED BY <2>1, <4>1
    <3>3. x \in Installed \/ \E j \in 1 .. k + 1 - 1 : Announces(j, x)
      BY <2>1, <3>1 DEF QueueInv
    <3>4. CASE x \in Installed
      <4>1. SUFFICES ASSUME IsEnd(1), queue[1].ids[1] = x PROVE FALSE
        BY <2>1, <3>2, <3>4
      <4>2. Len(queue[1].ids) = 1 /\ queue[1].ids \in Seq(Id)
        BY <1>1, <1>2, <3>1, <4>1 DEF QueueInv
      <4>3. queue[1].ids = queue[k + 1].ids
        <5>1. queue[k + 1].ids \in Seq(Id)
          BY <1>1, <1>2, <3>1
        <5> QED BY <2>1, <3>2, <4>1, <4>2, <5>1
      <4> QED BY <2>1, <3>1, <4>1, <4>3 DEF QueueInv
    <3>5. CASE \E j \in 1 .. k + 1 - 1 : Announces(j, x)
      <4>1. PICK j \in 1 .. k + 1 - 1 : Announces(j, x)
        BY <3>5
      <4>2. CASE j = 1
        BY <2>1, <3>2, <4>1, <4>2
      <4>3. CASE j # 1
        <5>1. j - 1 \in 1 .. k - 1 /\ j - 1 \in 1 .. Len(queue) - 1 /\ (j - 1) + 1 = j
          BY <1>1, <4>3
        <5> QED BY <1>4, <4>1, <5>1
      <4> QED BY <4>2, <4>3
    <3> QED BY <3>3, <3>4, <3>5
  <2> QED BY <1>1, <1>4, <2>1
<1>13. /\ ended' \subseteq 1 .. introduced'
       /\ \A id \in Id : id > introduced' => published'[id] = 0
  BY DEF QueueInv
<1>14. \A id \in Id : id > introduced' \/ id \in Waiting' => id \notin Installed' /\ delivered'[id] = 0
  <2>1. \A id \in Id : Announces(1, id) => ~(id > introduced)
    <3>1. 1 \in DOMAIN queue
      BY <1>1
    <3>2. \A id \in Id : Announces(1, id) => id \in 1 .. introduced
      BY <3>1 DEF QueueInv, Announces
    <3> QED BY <3>2
  <2> QED BY <1>7, <1>8, <2>1 DEF QueueInv
<1>15. (faults' = 0 /\ phase' # "gone") =>
         \A id \in (1 .. introduced') \ ended' : id \in Installed' \cup Waiting'
  <2>1. ASSUME faults' = 0, NEW id \in (1 .. introduced) \ ended PROVE id \in Installed' \cup Waiting'
    <3>1. id \in Installed \cup Waiting
      BY <2>1 DEF QueueInv
    <3>2. CASE id \in Waiting
      <4>1. id \in Id
        BY <3>2 DEF Waiting
      <4> QED BY <1>7, <2>1, <3>2, <4>1
    <3>3. CASE id \in Installed /\ id \in Id
      <4>1. IsEnd(1) => queue[1].ids[1] # id
        <5>1. 1 \in DOMAIN queue
          BY <1>1
        <5> QED BY <5>1 DEF QueueInv
      <4> QED BY <2>1, <3>3, <4>1
    <3> QED BY <3>1, <3>2, <3>3
  <2> QED BY <2>1
<1> QED BY <1>7, <1>8, <1>9, <1>10, <1>11, <1>12, <1>13, <1>14, <1>15 DEF QueueInv

\* What a packet does to the queue and to the attachments.
LEMMA PacketEffect ==
  ASSUME IInv, ReadPacket
  PROVE  /\ QueueInv' /\ Waiting' \subseteq Waiting
         /\ \A id \in Installed' :
              \/ /\ id \in Installed /\ fdOf'[id] = fdOf[id] /\ At(id)' = At(id)
                 /\ id \in ready => id \in ready'
              \/ id \in Waiting /\ At(id)'.read = 0 /\ id \in ready'
         /\ pc' = "control" \/ queue' = <<>> \/ faults' > 0 \/ brokerGone'
<1> USE DEF IInv, TypeOK
<1>1. /\ pc = "control" /\ phase = "alive" /\ faults \in Nat /\ introduced \in Nat
      /\ Installed \subseteq Id
      /\ UNCHANGED <<greeted, introduced, ended, brokerGone, published, unsignalled, counter,
                     phase, batch, active, promise, cur, assembled, owning, delivered>>
      /\ Idles \/ FailsToRead \/ DropsBatch \/ Installs \/ Uninstalls \/ MissesAttachment
  BY PacketCases DEF ControlInv, EnvTypeOK, TablesTypeOK
<1>2. CASE UNCHANGED <<queue, tables>> /\ faults' \in {faults, faults + 1}
  <2>1. QueueInv' /\ Waiting' = Waiting
    BY <1>1, <1>2, QueueStays DEF tables, Installed
  <2>2. \A id \in Installed' : /\ id \in Installed /\ fdOf'[id] = fdOf[id] /\ At(id)' = At(id)
                               /\ id \in ready => id \in ready'
    BY <1>2 DEF tables, At, Installed
  <2>3. pc' = "control" \/ queue' = <<>> \/ faults' > 0 \/ brokerGone'
    BY <1>1, <1>2, Packets DEF Idles, FailsToRead, DropsBatch, Installs, Uninstalls, MissesAttachment, ReadOn,
       NothingEndsByItself, QueueInv, IsEnd
  <2> QED BY <2>1, <2>2, <2>3
<1>3. CASE DropsBatch
  <2>1. UNCHANGED tables /\ faults' > 0 /\ faults' # 0 /\ queue # <<>> /\ queue' = Tail(queue)
    BY <1>1, <1>3 DEF DropsBatch
  <2>2. \A id \in Installed' : /\ id \in Installed /\ fdOf'[id] = fdOf[id] /\ At(id)' = At(id)
                               /\ id \in ready => id \in ready'
    BY <2>1 DEF tables, At, Installed
  <2>3. QueueInv' /\ \A id \in Id : id \in Waiting <=> id \in Waiting' \/ Announces(1, id)
    <3>1. Installed' \subseteq Installed /\ "alive" # "gone"
      BY <2>2
    <3> QED BY <1>1, <2>1, <3>1, QueueLeaves
  <2> QED BY <2>1, <2>2, <2>3 DEF Waiting
<1>4. CASE MissesAttachment
  <2>1. UNCHANGED tables /\ queue # <<>> /\ queue' = Tail(queue) /\ UNCHANGED faults
        /\ Head(queue).type = "PublisherDisconnected" /\ Head(queue).ids[1] \notin Installed
    BY <1>4 DEF MissesAttachment
  <2>2. \A id \in Installed' : /\ id \in Installed /\ fdOf'[id] = fdOf[id] /\ At(id)' = At(id)
                               /\ id \in ready => id \in ready'
    BY <2>1 DEF tables, At, Installed
  <2>3. faults > 0
    <3>1. IsEnd(1) /\ queue[1].ids[1] \notin Installed /\ 1 \in DOMAIN queue
      BY <2>1, Packets DEF IsEnd
    <3>2. faults # 0
      BY <1>1, <3>1 DEF QueueInv
    <3> QED BY <1>1, <3>2
  <2>4. QueueInv' /\ \A id \in Id : id \in Waiting <=> id \in Waiting' \/ Announces(1, id)
    <3>1. Installed' \subseteq Installed /\ "alive" # "gone" /\ faults' # 0
      BY <1>1, <2>1, <2>2, <2>3
    <3> QED BY <1>1, <2>1, <3>1, QueueLeaves
  <2> QED BY <2>1, <2>2, <2>3, <2>4 DEF Waiting
<1>5. CASE Installs
  <2>1. PICK n \in 0 .. Len(Head(queue).ids) :
          /\ queue # <<>> /\ queue' = Tail(queue) /\ Head(queue).type = "SubscriberAttachmentBatch"
          /\ 3 * Len(Head(queue).ids) <= Cardinality(Free)
          /\ Install(Head(queue).ids, ReceivedFds(Head(queue).ids), n)
          /\ \/ n = Len(Head(queue).ids) /\ ReadOn /\ UNCHANGED faults
             \/ n < Len(Head(queue).ids) /\ ControlFails /\ faults' = faults + 1
    BY <1>5 DEF Installs
  <2>2. PICK ids : ids = Head(queue).ids
    OBVIOUS
  <2>3. PICK new : new = {ids[i] : i \in 1 .. n}
    OBVIOUS
  <2>4. /\ ids \in Seq(Id) /\ Len(ids) \in Nat /\ DOMAIN ids = 1 .. Len(ids)
        /\ \A i \in 1 .. Len(ids) : ids[i] \in Id
    BY <2>1, <2>2, BatchIds
  <2>5. /\ Installed' = Installed \cup new /\ new \subseteq Id /\ new \cap Installed = {}
        /\ \A id \in Installed : fdOf'[id] = fdOf[id] /\ At(id)' = At(id)
        /\ \A id \in new : At(id)'.read = 0
        /\ ready' = ready \cup new
    BY <1>1, <2>1, <2>2, <2>3, InstallTables, SMTT(30)
  <2>6. /\ \A id : Announces(1, id) <=> id \in Range(ids)
        /\ ~IsEnd(1)
    BY <2>1, <2>2, Packets DEF Announces, IsBatch, IsEnd
  <2>7. new \subseteq Range(ids) /\ (n = Len(ids) => new = Range(ids))
    <3>1. n \in Nat /\ n <= Len(ids) /\ Range(ids) = {ids[i] : i \in 1 .. Len(ids)}
      BY <2>2, <2>4 DEF Range
    <3>2. \A i \in 1 .. n : i \in 1 .. Len(ids)
      BY <2>4, <3>1
    <3> QED BY <2>3, <3>1, <3>2
  <2>8. /\ QueueInv'
        /\ \A id \in Id : id \in Waiting <=> id \in Waiting' \/ Announces(1, id)
    <3>1. faults' = 0 => faults = 0 /\ n = Len(ids)
      BY <1>1, <2>1, <2>2
    <3>2. /\ \A id \in Id : id \in Installed' => id \in Installed \/ Announces(1, id)
          /\ faults' = 0 => /\ faults = 0
                            /\ \A id \in Id : Announces(1, id) => id \in Installed'
                            /\ \A id \in Id : id \in Installed =>
                                 id \in Installed' \/ (IsEnd(1) /\ queue[1].ids[1] = id)
      BY <2>5, <2>6, <2>7, <3>1
    <3> QED BY <1>1, <2>1, <3>2, QueueLeaves
  <2>9. pc' = "control" \/ faults' > 0
    BY <1>1, <2>1 DEF ReadOn
  <2>10. \A id \in new : id \in Waiting
    BY <2>5, <2>6, <2>7, <2>8
  <2> QED BY <2>5, <2>8, <2>9, <2>10 DEF Waiting
<1>6. CASE Uninstalls
  <2>1. PICK id : id = Head(queue).ids[1]
    OBVIOUS
  <2>2. /\ queue # <<>> /\ queue' = Tail(queue) /\ Head(queue).type = "PublisherDisconnected"
        /\ id \in Installed /\ HandleDisconnected(id) /\ pc' = pc /\ UNCHANGED faults
    BY <1>6, <2>1 DEF Uninstalls, ReadOn
  <2>3. /\ Installed' = Installed \ {id}
        /\ \A i \in Installed' : fdOf'[i] = fdOf[i] /\ At(i)' = At(i)
        /\ ready' = ready \ {id}
    BY <1>1, <2>2, UninstallTables
  <2>4. IsEnd(1) /\ queue[1].ids[1] = id /\ \A i : ~Announces(1, i)
    BY <2>1, <2>2, Packets DEF Announces, IsBatch, IsEnd
  <2>5. QueueInv' /\ \A i \in Id : i \in Waiting <=> i \in Waiting' \/ Announces(1, i)
    <3>1. /\ \A i \in Id : i \in Installed' => i \in Installed \/ Announces(1, i)
          /\ faults' = 0 => /\ faults = 0
                            /\ \A i \in Id : Announces(1, i) => i \in Installed'
                            /\ \A i \in Id : i \in Installed =>
                                 i \in Installed' \/ (IsEnd(1) /\ queue[1].ids[1] = i)
      BY <2>2, <2>3, <2>4
    <3> QED BY <1>1, <2>2, <3>1, QueueLeaves
  <2> QED BY <1>1, <2>2, <2>3, <2>5 DEF Waiting
<1> QED BY <1>1, <1>2, <1>3, <1>4, <1>5, <1>6 DEF Idles, FailsToRead

\* Nothing that has failed is forgotten.
LEMMA FaultsStay ==
  ASSUME IInv, [Next]_vars
  PROVE  faults \in Nat /\ faults' \in {faults, faults + 1}
<1> USE DEF IInv, TypeOK
<1>1. CASE ReadPacket
  BY <1>1, PacketIsRead DEF ControlInv
<1>2. CASE ~ReadPacket
  BY <1>2 DEF Next, CreateStep, CreateFails, BrokerAttaches, BrokerEnds, PublisherEnds, PublisherCommits,
     PublisherSignals, Subscribe, Timeout, Fetch, HandleEvent, ReadMessage, ReadAll, WorkerExits, BeginStop,
     SignalShutdown, Join, Destroy, Move, Fault, vars, ControlInv
<1> QED BY <1>1, <1>2

\* Only messages of attachments that are there are given away.
LEMMA DeliveredStays ==
  ASSUME IInv, [Next]_vars
  PROVE  \A id \in Id : id \notin Installed => delivered'[id] = delivered[id]
<1> USE DEF IInv, TypeOK
<1>1. CASE ReadMessage
  <2>1. PICK a \in Installed : a = attachmentAt[cur].segment
    BY <1>1, ReadTables
  <2>2. delivered' = delivered \/ delivered' = [delivered EXCEPT ![a] = @ + 1]
    BY <1>1, <2>1 DEF ReadMessage
  <2> QED BY <2>1, <2>2 DEF ThreadTypeOK
<1>2. CASE ReadAll
  <2>1. PICK a \in Installed : a = attachmentAt[cur].segment
    BY <1>2, Tables DEF ReadAll, ThreadTypeOK
  <2>2. delivered' = delivered \/ delivered' = [delivered EXCEPT ![a] = @ + assembled]
    BY <1>2, <2>1 DEF ReadAll
  <2> QED BY <2>1, <2>2 DEF ThreadTypeOK
<1>3. CASE ~ReadMessage /\ ~ReadAll
  BY <1>3 DEF Next, CreateStep, CreateFails, BrokerAttaches, BrokerEnds, PublisherEnds, PublisherCommits,
     PublisherSignals, Subscribe, Timeout, Fetch, HandleEvent, ReadPacket, WorkerExits, BeginStop,
     SignalShutdown, Join, Destroy, Move, vars
<1> QED BY <1>1, <1>2, <1>3

\* The queue, over any step.
LEMMA QueueStep ==
  ASSUME IInv, [Next]_vars
  PROVE  QueueInv' /\ \A id \in Waiting' : id \in Waiting \/ (BrokerAttaches /\ id > introduced)
<1> USE DEF IInv, TypeOK
<1>1. CASE BrokerAttaches
  BY <1>1, QueueAttaches
<1>2. CASE ReadPacket
  BY <1>2, PacketEffect
<1>3. ASSUME NEW id \in Id, PublisherEnds(id) PROVE QueueInv' /\ Waiting' = Waiting
  BY <1>3, QueueEnds
<1>4. ASSUME NEW id \in Id, PublisherCommits(id) PROVE QueueInv' /\ Waiting' = Waiting
  BY <1>4, QueueCommits
<1>5. ASSUME ~BrokerAttaches, ~ReadPacket,
             ~\E id \in Id : PublisherEnds(id) \/ PublisherCommits(id)
      PROVE  QueueInv' /\ Waiting' = Waiting
  <2>1. UNCHANGED <<queue, ended, introduced, published>>
    BY <1>5 DEF Next, CreateStep, CreateFails, BrokerEnds, PublisherSignals, Subscribe, Timeout, Fetch,
       HandleEvent, ReadMessage, ReadAll, WorkerExits, BeginStop, SignalShutdown, Join, Destroy, Move,
       env, vars
  <2>2. Installed' \subseteq Installed /\ (phase' # "gone" => Installed' = Installed /\ phase # "gone")
    <3>1. CASE CreateStep
      BY <3>1, CreateTables DEF CreateStep, Installed
    <3>2. CASE ReadMessage
      BY <3>2, ReadTables DEF ReadMessage, ControlInv
    <3>3. CASE ReleaseAll
      BY <3>3, Closing
    <3>4. CASE UNCHANGED <<files, registered, mapped, phase, fdOf, attachmentAt>>
      <4>1. phase = "gone" => phase' = "gone"
        BY <3>4
      <4> QED BY <3>4, <4>1 DEF Installed
    <3> QED BY <1>5, <3>1, <3>2, <3>3, <3>4, WhatChanges
  <2>3. \A id \in Id : id \notin Installed => delivered'[id] = delivered[id]
    BY DeliveredStays
  <2>4. faults' = 0 => faults = 0
    BY FaultsStay
  <2> QED BY <2>1, <2>2, <2>3, <2>4, QueueStays
<1> QED BY <1>1, <1>2, <1>3, <1>4, <1>5

\* Steps that read neither a message nor a packet.
LEMMA MessagesStay ==
  ASSUME IInv, [Next]_vars, ~ReadMessage, ~ReadAll, ~ReadPacket
  PROVE  /\ UNCHANGED <<delivered, assembled, asynchronous>> /\ (cur' = cur \/ assembled = 0)
         /\ Installed' = {} \/ UNCHANGED <<fdOf, attachmentAt>>
         /\ \A id \in Id : published[id] \in Nat /\ published'[id] \in Nat /\ published[id] <= published'[id]
         /\ phase = "alive" /\ outcome = "WorkerException" /\ pc \notin Running /\ asynchronous =>
              outcome' = "WorkerException" /\ pc' \notin Running
<1> USE DEF IInv, TypeOK
<1>1. UNCHANGED <<delivered, assembled, asynchronous>>
  BY DEF Next, CreateStep, CreateFails, BrokerAttaches, BrokerEnds, PublisherEnds, PublisherCommits,
     PublisherSignals, Subscribe, Timeout, Fetch, HandleEvent, WorkerExits, BeginStop,
     SignalShutdown, Join, Destroy, Move, vars, owning, thread
<1>2. cur' = cur \/ assembled = 0
  <2>1. pc # "data" => assembled = 0
    BY DEF ControlInv, ThreadTypeOK
  <2>2. CASE HandleEvent
    BY <2>1, <2>2 DEF HandleEvent
  <2>3. CASE ~HandleEvent
    BY <2>3 DEF Next, CreateStep, CreateFails, BrokerAttaches, BrokerEnds, PublisherEnds, PublisherCommits,
       PublisherSignals, Subscribe, Timeout, Fetch, WorkerExits, BeginStop, SignalShutdown, Join, Destroy,
       Move, vars, thread
  <2> QED BY <2>2, <2>3
<1>3. Installed' = {} \/ UNCHANGED <<fdOf, attachmentAt>>
  <2>1. CreateStep => UNCHANGED <<fdOf, attachmentAt>>
    BY CreateTables
  <2>2. ReleaseAll => Installed' = {}
    BY Closing
  <2> QED BY <2>1, <2>2, WhatChanges
<1>4. \A id \in Id : published[id] \in Nat /\ published'[id] \in Nat /\ published[id] <= published'[id]
  <2>1. published \in [Id -> 0 .. MaxMessages]
    BY DEF EnvTypeOK
  <2>2. published' = published \/ \E id \in Id : published' = [published EXCEPT ![id] = @ + 1]
    BY DEF Next, CreateStep, CreateFails, BrokerAttaches, BrokerEnds, PublisherEnds, PublisherCommits,
       PublisherSignals, Subscribe, Timeout, Fetch, HandleEvent, WorkerExits, BeginStop, SignalShutdown, Join,
       Destroy, Move, vars, env
  <2> QED BY <2>1, <2>2, Bounds
<1>5. ASSUME phase = "alive", outcome = "WorkerException", pc \notin Running, asynchronous
      PROVE  outcome' = "WorkerException" /\ pc' \notin Running
  <2>1. CASE Move
    <3>1. ~Restarts
      BY <1>5, <2>1 DEF Move, Restarts, WorkerInv
    <3> QED BY <1>5, <2>1, <3>1 DEF Move
  <2>2. CASE ~Move
    <3>1. ~CreateStep /\ ~CreateFails /\ ~Subscribe /\ ~Timeout /\ ~Fetch /\ ~HandleEvent
      BY <1>5 DEF CreateStep, CreateFails, Subscribe, Timeout, Fetch, HandleEvent, Running
    <3> QED BY <1>5, <2>2, <3>1 DEF Next, BrokerAttaches, BrokerEnds, PublisherEnds, PublisherCommits,
       PublisherSignals, WorkerExits, BeginStop, SignalShutdown, Join, Destroy, vars, thread, Running
  <2> QED BY <2>1, <2>2
<1> QED BY <1>1, <1>2, <1>3, <1>4, <1>5

\* The messages, over any step.
LEMMA MessagesStep ==
  ASSUME IInv, EnvTypeOK', [Next]_vars
  PROVE  MessagesInv' /\ delivered' \in [Id -> 0 .. MaxMessages] /\ assembled' \in 0 .. MaxMessages
<1> USE DEF IInv, TypeOK
<1>1. /\ delivered \in [Id -> 0 .. MaxMessages] /\ published \in [Id -> 0 .. MaxMessages]
      /\ assembled \in 0 .. MaxMessages /\ assembled \in Nat /\ MaxMessages \in Nat
      /\ \A id \in Id : delivered[id] \in Nat /\ published[id] \in Nat
      /\ \A id \in Id : delivered[id] <= published[id] /\ published[id] <= MaxMessages
      /\ pc # "data" => assembled = 0
      /\ asynchronous => assembled = 0
  BY Bounds DEF EnvTypeOK, ThreadTypeOK, ControlInv, MessagesInv
<1>2. \A id \in Installed :
        /\ id \in Id /\ At(id).read \in Nat /\ At(id).read <= published[id]
        /\ \/ delivered[id] + (IF cur = fdOf[id] THEN assembled ELSE 0) <= At(id).read
           \/ /\ delivered[id] = At(id).read + 1 /\ outcome = "WorkerException"
              /\ pc \notin Running /\ asynchronous
  BY Tables, Bounds DEF MessagesInv, Attachment
<1>3. CASE ReadMessage
  <2>1. PICK a \in Installed :
         /\ a = attachmentAt[cur].segment /\ a \in Id /\ fdOf[a] = cur /\ At(a) = attachmentAt[cur]
         /\ At(a).read \in Nat /\ At(a).read < published[a] /\ published[a] \in Nat
         /\ UNCHANGED fdOf /\ Installed' = Installed
         /\ \A i \in Installed : i # a => fdOf[i] # cur /\ At(i)' = At(i)
         /\ attachmentAt' = attachmentAt => At(a)' = At(a)
         /\ attachmentAt' = [attachmentAt EXCEPT ![cur].read = @ + 1] => At(a)'.read = At(a).read + 1
    BY <1>3, ReadTables
  <2>2. /\ pc = "data" /\ UNCHANGED <<published, asynchronous>> /\ pc' \in {"data", "promise", "out"}
        /\ \/ /\ At(a)'.read = At(a).read + 1 /\ cur' = cur
              /\ \/ asynchronous /\ delivered' = [delivered EXCEPT ![a] = @ + 1] /\ UNCHANGED assembled
                 \/ assembled' = assembled + 1 /\ UNCHANGED delivered
           \/ /\ At(a)'.read = At(a).read + 1 /\ cur' = 0 /\ assembled' = 0
              /\ \/ delivered' = [delivered EXCEPT ![a] = @ + 1]
                 \/ UNCHANGED delivered
           \/ /\ asynchronous /\ cur' = 0 /\ pc' = "promise" /\ outcome' = "WorkerException"
              /\ At(a)' = At(a)
              /\ delivered' = [delivered EXCEPT ![a] = @ + 1] /\ UNCHANGED assembled
    BY <1>3, <2>1 DEF ReadMessage, Ends, DataFails, env, owning
  <2>3. \A i \in Installed : delivered[i] + (IF cur = fdOf[i] THEN assembled ELSE 0) <= At(i).read
    BY <1>2, <2>2 DEF Running
  <2>4. \A i \in Installed : fdOf[i] # 0
    BY Tables DEF Fd
  <2>5. /\ delivered[a] + assembled <= At(a).read
        /\ \A i \in Installed : i # a => delivered[i] + 0 <= At(i).read
    BY <2>1, <2>3
  <2>6. assembled' \in 0 .. MaxMessages
    BY <1>1, <2>1, <2>2, <2>5
  <2>7. /\ \A i \in Id : i # a => delivered'[i] = delivered[i]
        /\ delivered'[a] \in {delivered[a], delivered[a] + 1} /\ DOMAIN delivered' = Id
    BY <1>1, <2>1, <2>2
  <2>8. delivered'[a] <= published[a]
    BY <1>1, <2>1, <2>5, <2>7
  <2>9. delivered' \in [Id -> 0 .. MaxMessages]
    <3>1. delivered' = delivered \/ delivered' = [delivered EXCEPT ![a] = @ + 1]
      BY <2>2
    <3>2. delivered[a] + 1 = delivered'[a] => delivered[a] + 1 \in 0 .. MaxMessages
      BY <1>1, <2>1, <2>8
    <3> QED BY <1>1, <2>1, <2>7, <3>1, <3>2
  <2>10. \A id \in Id : delivered'[id] <= published'[id]
    BY <1>1, <2>2, <2>7, <2>8
  <2>11. ASSUME NEW id \in Installed', id # a
         PROVE  /\ At(id)'.read <= published'[id]
                /\ delivered'[id] + (IF cur' = fdOf'[id] THEN assembled' ELSE 0) <= At(id)'.read
    <3>1. id \in Installed /\ At(id)' = At(id) /\ fdOf'[id] = fdOf[id] /\ fdOf[id] # cur /\ fdOf[id] # 0
      BY <2>1, <2>4, <2>11
    <3>2. cur' # fdOf'[id] /\ delivered'[id] = delivered[id]
      BY <1>2, <2>2, <2>7, <2>11, <3>1
    <3> QED BY <1>2, <2>2, <2>5, <2>11, <3>1, <3>2
  <2>12. /\ At(a)'.read <= published'[a]
         /\ \/ delivered'[a] + (IF cur' = fdOf'[a] THEN assembled' ELSE 0) <= At(a)'.read
            \/ /\ delivered'[a] = At(a)'.read + 1 /\ outcome' = "WorkerException"
               /\ pc' \notin Running /\ asynchronous'
    <3>1. At(a).read + 1 <= published[a] /\ delivered[a] \in Nat /\ fdOf'[a] = cur /\ cur # 0
      BY <1>1, <2>1, <2>4
    <3>2. CASE /\ At(a)'.read = At(a).read + 1 /\ cur' = cur
               /\ \/ asynchronous /\ delivered' = [delivered EXCEPT ![a] = @ + 1] /\ UNCHANGED assembled
                  \/ assembled' = assembled + 1 /\ UNCHANGED delivered
      <4>1. delivered'[a] + assembled' = delivered[a] + assembled + 1
        BY <1>1, <2>1, <3>1, <3>2
      <4> QED BY <1>1, <2>1, <2>2, <2>5, <3>1, <3>2, <4>1
    <3>3. CASE At(a)'.read = At(a).read + 1 /\ cur' = 0
      BY <1>1, <2>1, <2>2, <2>5, <2>7, <3>1, <3>3
    <3>4. CASE /\ asynchronous /\ cur' = 0 /\ pc' = "promise" /\ outcome' = "WorkerException"
               /\ At(a)' = At(a)
      <4>1. delivered[a] <= At(a).read /\ pc' \notin Running /\ asynchronous'
        BY <1>1, <2>1, <2>2, <2>5, <3>4 DEF Running
      <4> QED BY <1>1, <2>1, <2>2, <2>7, <3>1, <3>4, <4>1
    <3> QED BY <2>2, <3>2, <3>3, <3>4
  <2> QED BY <2>1, <2>6, <2>9, <2>10, <2>11, <2>12 DEF MessagesInv

<1>4. CASE ReadAll
  <2>1. PICK a \in Installed : a = attachmentAt[cur].segment /\ fdOf[a] = cur
    BY <1>4, Tables DEF ReadAll, ThreadTypeOK
  <2>2. /\ pc = "data" /\ UNCHANGED <<published, asynchronous, fdOf, attachmentAt>> /\ cur' = 0
        /\ \/ delivered' = [delivered EXCEPT ![a] = @ + assembled] /\ assembled' = 0
           \/ delivered' = delivered /\ assembled = 0 /\ assembled' = 0
    BY <1>1, <1>4, <2>1 DEF ReadAll, env, owning, object
  <2>3. \A i \in Installed : delivered[i] + (IF cur = fdOf[i] THEN assembled ELSE 0) <= At(i).read
    BY <1>2, <2>2 DEF Running
  <2>4. \A i \in Installed : i # a => fdOf[i] # cur
    BY <2>1, TablesInjective
  <2>5. /\ \A i \in Id : i # a => delivered'[i] = delivered[i]
        /\ delivered'[a] = delivered[a] + assembled /\ a \in Id
    BY <1>1, <1>2, <2>1, <2>2
  <2>6. \A i \in Installed : delivered'[i] <= At(i).read /\ delivered'[i] \in Nat
    BY <1>1, <1>2, <2>1, <2>3, <2>4, <2>5
  <2>7. \A i \in Id : delivered'[i] <= published[i]
    BY <1>1, <1>2, <2>1, <2>5, <2>6
  <2>8. delivered' \in [Id -> 0 .. MaxMessages]
    <3>1. delivered[a] + assembled \in 0 .. MaxMessages
      BY <1>1, <2>1, <2>5, <2>6, <2>7
    <3> QED BY <1>1, <2>2, <3>1
  <2>9. \A i \in Installed' : i \in Installed /\ At(i)' = At(i)
    BY <2>2 DEF Installed, At
  <2> QED BY <1>1, <1>2, <2>2, <2>6, <2>7, <2>8, <2>9 DEF MessagesInv
<1>5. CASE ReadPacket
  <2>1. /\ pc = "control" /\ UNCHANGED <<published, delivered, assembled, cur>>
    BY <1>5, PacketIsRead
  <2>2. \A id \in Installed' :
          \/ id \in Installed /\ fdOf'[id] = fdOf[id] /\ At(id)' = At(id)
          \/ id \in Waiting /\ At(id)'.read = 0
    BY <1>5, PacketEffect
  <2>3. \A id \in Waiting : id \in Id /\ delivered[id] = 0
    BY DEF Waiting, QueueInv
  <2>4. assembled = 0 /\ (IF TRUE THEN assembled ELSE 0) = 0 /\ pc \in Running
    BY <1>1, <2>1 DEF Running
  <2>5. ASSUME NEW id \in Installed'
        PROVE  /\ At(id)'.read <= published'[id]
               /\ delivered'[id] + (IF cur' = fdOf'[id] THEN assembled' ELSE 0) <= At(id)'.read
    <3>1. (IF cur' = fdOf'[id] THEN assembled' ELSE 0) = 0
      BY <2>1, <2>4
    <3>2. CASE id \in Installed /\ fdOf'[id] = fdOf[id] /\ At(id)' = At(id)
      BY <1>1, <1>2, <2>1, <2>4, <3>1, <3>2
    <3>3. CASE id \in Waiting /\ At(id)'.read = 0
      BY <1>1, <2>1, <2>3, <3>1, <3>3
    <3> QED BY <2>2, <2>5, <3>2, <3>3
  <2> QED BY <1>1, <2>1, <2>5 DEF MessagesInv
<1>6. CASE ~ReadMessage /\ ~ReadAll /\ ~ReadPacket
  <2>1. /\ UNCHANGED <<delivered, assembled, asynchronous>> /\ (cur' = cur \/ assembled = 0)
        /\ Installed' = {} \/ UNCHANGED <<fdOf, attachmentAt>>
        /\ \A id \in Id : published[id] \in Nat /\ published'[id] \in Nat /\ published[id] <= published'[id]
        /\ phase = "alive" /\ outcome = "WorkerException" /\ pc \notin Running /\ asynchronous =>
              outcome' = "WorkerException" /\ pc' \notin Running
    BY <1>6, MessagesStay
  <2>2. \A id \in Id : delivered'[id] <= published'[id]
    BY <1>1, <2>1
  <2>3. CASE Installed' = {}
    BY <1>1, <2>1, <2>2, <2>3 DEF MessagesInv
  <2>4. CASE UNCHANGED <<fdOf, attachmentAt>>
    <3>1. Installed' = Installed /\ \A id \in Installed : At(id)' = At(id) /\ fdOf'[id] = fdOf[id]
      BY <2>4 DEF Installed, At
    <3>2. ASSUME NEW id \in Installed
          PROVE  /\ At(id)'.read <= published'[id]
                 /\ \/ delivered'[id] + (IF cur' = fdOf'[id] THEN assembled' ELSE 0) <= At(id)'.read
                    \/ /\ delivered'[id] = At(id)'.read + 1 /\ outcome' = "WorkerException"
                       /\ pc' \notin Running /\ asynchronous'
      <4>1. phase = "alive"
        BY <3>2 DEF ControlInv
      <4>2. (IF cur' = fdOf'[id] THEN assembled' ELSE 0) = (IF cur = fdOf[id] THEN assembled ELSE 0)
        BY <2>1, <3>1
      <4>3. At(id)'.read <= published'[id]
        BY <1>2, <2>1, <3>1
      <4>4. CASE delivered[id] + (IF cur = fdOf[id] THEN assembled ELSE 0) <= At(id).read
        BY <2>1, <3>1, <4>2, <4>3, <4>4
      <4>5. CASE /\ delivered[id] = At(id).read + 1 /\ outcome = "WorkerException"
                 /\ pc \notin Running /\ asynchronous
        BY <2>1, <3>1, <4>1, <4>3, <4>5
      <4> QED BY <1>2, <4>4, <4>5
    <3> QED BY <1>1, <2>1, <2>2, <3>1, <3>2 DEF MessagesInv
  <2> QED BY <2>1, <2>3, <2>4
<1> QED BY <1>3, <1>4, <1>5, <1>6

\* A message that has been committed is signalled, or its publisher ends.
LEMMA SignalsStay ==
  ASSUME IInv, [Next]_vars, NEW id \in Id
  PROVE  /\ published'[id] = published[id] \/ id \in unsignalled'
         /\ id \in ended => id \in ended'
         /\ id \in unsignalled =>
              id \in unsignalled' \cup ended' \/ (<<"data", id>> \in counter' /\ (id \in Installed => id \in ready'))
         /\ <<"data", id>> \in counter =>
              <<"data", id>> \in counter' \/ (id \in Installed /\ HandleEvent /\ pc' = "data" /\ cur' = fdOf[id])
<1> USE DEF IInv, TypeOK
<1>1. CASE \E i \in Id : PublisherCommits(i) \/ PublisherEnds(i)
  BY <1>1 DEF PublisherCommits, PublisherEnds, kernel, EnvTypeOK
<1>2. CASE \E i \in Id : PublisherSignals(i)
  <2>1. PICK i \in Id : PublisherSignals(i)
    BY <1>2
  <2>2. i \in Installed => i \in IdsOf(<<"data", i>>)
    BY EventIds
  <2> QED BY <2>1, <2>2 DEF PublisherSignals
<1>3. CASE HandleEvent
  <2>1. UNCHANGED <<ended, published, unsignalled>>
    BY <1>3 DEF HandleEvent, env
  <2>2. \A i \in Installed : /\ i \in Id /\ fdOf[i] \in DOMAIN attachmentAt
                             /\ files[fdOf[i]] = <<"data", i>>
    <3>1. \A r \in Records : files[r.data] = <<"data", r.segment>>
      BY DEF DescriptorsAreOwned
    <3> QED BY <3>1, Tables
  <2>3. \/ counter' = counter
        \/ counter' = counter \ {Own("shutdown")}
        \/ \E i \in Id \cap Installed : /\ counter' = counter \ {files[fdOf[i]]}
                                        /\ pc' = "data" /\ cur' = fdOf[i]
    BY <1>3, <2>2 DEF HandleEvent, Installed
  <2>4. <<"data", id>> # Own("shutdown")
    BY DEF Own
  <2> QED BY <1>3, <2>1, <2>2, <2>3, <2>4
<1>4. CASE ReadPacket
  BY <1>4, PacketIsRead
<1>5. CASE /\ ~(\E i \in Id : PublisherCommits(i) \/ PublisherEnds(i) \/ PublisherSignals(i))
           /\ ~HandleEvent /\ ~ReadPacket
  <2>1. UNCHANGED <<ended, published, unsignalled>>
    BY <1>5 DEF Next, CreateStep, CreateFails, BrokerAttaches, BrokerEnds, Subscribe, Timeout, Fetch,
       ReadMessage, ReadAll, WorkerExits, BeginStop, SignalShutdown, Join, Destroy, Move, vars, env
  <2>2. \/ counter' = counter \/ counter' = counter \ {Own("shutdown"), Own("exit")}
        \/ counter' = counter \cup {Own("exit")} \/ counter' = counter \cup {Own("shutdown")}
    BY <1>5 DEF Next, CreateStep, CreateFails, BrokerAttaches, BrokerEnds, Subscribe, Timeout, Fetch,
       ReadMessage, ReadAll, WorkerExits, BeginStop, SignalShutdown, Join, Destroy, Move, ReleaseAll, vars,
       kernel
  <2>3. <<"data", id>> # Own("shutdown") /\ <<"data", id>> # Own("exit")
    BY DEF Own
  <2> QED BY <2>1, <2>2, <2>3
<1> QED BY <1>1, <1>2, <1>3, <1>4, <1>5

\* An event is fetched, and handled after that.
LEMMA EventsStay ==
  ASSUME IInv, [Next]_vars, ~ReadPacket, faults' = 0, NEW id \in Installed, Installed' # {}
  PROVE  /\ id \in Installed' /\ fdOf'[id] = fdOf[id] /\ At(id).read <= At(id)'.read
         /\ id \in batch => id \in batch' \/ (pc' = "data" /\ cur' = fdOf[id])
         /\ id \in ready /\ <<"data", id>> \in counter => id \in ready' \cup batch'
         /\ pc = "data" /\ cur = fdOf[id] => \/ pc' = "data" /\ cur' = fdOf[id]
                                             \/ At(id).read = published[id] /\ UNCHANGED <<attachmentAt, published>>
<1> USE DEF IInv, TypeOK
<1>1. /\ id \in Id /\ At(id).read \in Nat /\ fdOf[id] \in DOMAIN attachmentAt /\ phase = "alive"
      /\ faults \in Nat /\ id # BrokerEventId /\ id # ShutdownEventId
      /\ [file |-> <<"data", id>>, id |-> id] \in registered
  BY Tables, Bounds, SMTT(30) DEF Attachment, ControlInv, TablesInv, Id, BrokerEventId, ShutdownEventId
<1>2. CASE ReadMessage
  <2>1. UNCHANGED <<batch, ready, counter, pc, cur, fdOf>>
    BY <1>1, <1>2, FaultsStay DEF ReadMessage, Fault, kernel
  <2>2. PICK a \in Installed :
         /\ a = attachmentAt[cur].segment /\ At(a) = attachmentAt[cur]
         /\ At(a).read \in Nat /\ Installed' = Installed
         /\ \A i \in Installed : i # a => fdOf[i] # cur /\ At(i)' = At(i)
         /\ attachmentAt' = attachmentAt => At(a)' = At(a)
         /\ attachmentAt' = [attachmentAt EXCEPT ![cur].read = @ + 1] => At(a)'.read = At(a).read + 1
    BY <1>2, ReadTables
  <2>3. attachmentAt' = attachmentAt \/ attachmentAt' = [attachmentAt EXCEPT ![cur].read = @ + 1]
    BY <1>2 DEF ReadMessage
  <2>4. At(id).read <= At(id)'.read
    BY <1>1, <2>2, <2>3
  <2> QED BY <2>1, <2>2, <2>4
<1>3. CASE ReadAll
  <2>1. UNCHANGED <<batch, ready, fdOf, attachmentAt, published>> /\ pc = "data"
        /\ attachmentAt[cur].read = published[attachmentAt[cur].segment]
    BY <1>3 DEF ReadAll, object, kernel, env
  <2>2. cur = fdOf[id] => At(id).read = published[id]
    BY <2>1, Tables DEF At
  <2> QED BY <1>1, <2>1, <2>2 DEF Installed, At
<1>4. CASE ~ReadMessage /\ ~ReadAll
  <2>1. UNCHANGED <<fdOf, attachmentAt>>
    BY <1>4, MessagesStay
  <2>2. ~ReleaseAll
    BY Closing
  <2>3. id \in Installed' /\ fdOf'[id] = fdOf[id] /\ At(id).read <= At(id)'.read
    BY <1>1, <2>1 DEF Installed, At
  <2>4. CASE Fetch
    <3>1. /\ batch = {} /\ pc = "loop" /\ \E b \in SUBSET Pending : batch' = b /\ ready' = Pending \ b
      BY <1>1, <2>4, FaultsStay DEF Fetch, Fault
    <3>2. id \in ready /\ <<"data", id>> \in counter => id \in Pending
      BY <1>1 DEF Pending, Readable
    <3> QED BY <2>3, <3>1, <3>2
  <2>5. CASE HandleEvent
    <3>1. UNCHANGED ready /\ pc = "loop"
      BY <2>5 DEF HandleEvent
    <3>2. id \in batch => id \in batch' \/ (pc' = "data" /\ cur' = fdOf[id])
      BY <1>1, <2>5, FaultsStay DEF HandleEvent, Consume, Fault, Installed
    <3> QED BY <2>3, <3>1, <3>2
  <2>6. CASE ~Fetch /\ ~HandleEvent
    <3>1. ~CreateStep /\ ~CreateFails /\ ~Destroy
      BY <1>1, <2>2 DEF CreateStep, CreateFails, Destroy
    <3>2. batch' = batch /\ ready \subseteq ready'
      BY <1>4, <2>2, <2>6, <3>1 DEF Next, BrokerAttaches, BrokerEnds, PublisherEnds, PublisherCommits,
         PublisherSignals, Post, Subscribe, Timeout, WorkerExits, BeginStop, SignalShutdown, Join, Move, Carried,
         vars, object, kernel
    <3>3. pc = "data" => pc' = "data" /\ cur' = cur
      BY <1>4, <2>6, <3>1 DEF Next, BrokerAttaches, BrokerEnds, PublisherEnds, PublisherCommits,
         PublisherSignals, Subscribe, Timeout, WorkerExits, BeginStop, SignalShutdown, Join, Move,
         vars, thread, ControlInv
    <3> QED BY <2>3, <3>2, <3>3
  <2> QED BY <2>4, <2>5, <2>6
<1> QED BY <1>2, <1>3, <1>4

\* A packet that waits is announced.
LEMMA PacketsStay ==
  ASSUME IInv, [Next]_vars, ~ReadPacket, faults' = 0, ~brokerGone', faults = 0, ~brokerGone,
         phase' \in {"shutdown", "exit", "start", "alive"}, queue' # <<>>
  PROVE  BrokerEventId \in ready' \cup batch' \/ pc' = "control"
<1> USE DEF IInv, TypeOK
<1>1. phase \in {"shutdown", "exit", "start", "alive"} =>
        /\ [file |-> Own("broker"), id |-> BrokerEventId] \in registered
        /\ BrokerEventId \in IdsOf(Own("broker"))
        /\ queue # <<>> => BrokerEventId \in ready \cup batch \/ pc = "control"
  BY DEF TablesInv, IdsOf, ProgressInv
<1>2. CASE BrokerAttaches \/ \E id \in Id : PublisherEnds(id)
  <2>1. phase' = phase /\ ready' = ready \cup IdsOf(Own("broker"))
    BY <1>2 DEF BrokerAttaches, PublisherEnds, Post, object
  <2> QED BY <1>1, <2>1
<1>3. CASE Fetch
  <2>1. /\ batch = {} /\ pc = "loop" /\ UNCHANGED <<queue, phase>>
        /\ \E b \in SUBSET Pending : batch' = b /\ ready' = Pending \ b
    BY <1>3 DEF Fetch, Fault, env
  <2>2. BrokerEventId \in ready => BrokerEventId \in Pending
    BY <1>1, <2>1 DEF Pending, Readable
  <2> QED BY <1>1, <2>1, <2>2
<1>4. CASE HandleEvent
  BY <1>1, <1>4, Bounds DEF HandleEvent, Consume, env, BrokerEventId, ShutdownEventId, Id
<1>5. CASE CreateStep
  BY <1>1, <1>5 DEF CreateStep, env, ControlInv
<1>6. CASE ReleaseAll
  BY <1>6 DEF ReleaseAll
<1>7. CASE ReadMessage \/ ReadAll
  BY <1>1, <1>7 DEF ReadMessage, ReadAll, env, object, kernel
<1>8. CASE /\ ~(BrokerAttaches \/ \E id \in Id : PublisherEnds(id)) /\ ~Fetch /\ ~HandleEvent
           /\ ~CreateStep /\ ~ReleaseAll /\ ~ReadMessage /\ ~ReadAll
  <2>1. batch' = batch /\ ready \subseteq ready' /\ UNCHANGED <<queue, phase>>
    BY <1>8 DEF Next, CreateFails, BrokerEnds, PublisherCommits, PublisherSignals, Subscribe, Timeout,
       WorkerExits, BeginStop, SignalShutdown, Join, Destroy, Move, Carried, vars, env, object, kernel
  <2>2. pc = "control" => pc' = "control"
    BY <1>8 DEF Next, CreateFails, BrokerEnds, PublisherCommits, PublisherSignals, Subscribe, Timeout,
       WorkerExits, BeginStop, SignalShutdown, Join, Destroy, Move, vars, thread, ControlInv
  <2> QED BY <1>1, <2>1, <2>2
<1> QED BY <1>2, <1>3, <1>4, <1>5, <1>6, <1>7, <1>8

\* What has been announced stays announced until it is done, over any step.
LEMMA ProgressStep ==
  ASSUME IInv, EnvTypeOK', TablesInv', TablesTypeOK', MessagesInv', [Next]_vars
  PROVE  ProgressInv'
<1> USE DEF IInv, TypeOK
<1> SUFFICES ASSUME faults' = 0, ~brokerGone'
             PROVE  /\ \A id \in Installed' : At(id)'.read < published'[id] => Announced(id)'
                    /\ \A id \in Waiting' : published'[id] > 0 =>
                         id \in ended' \cup unsignalled' \/ <<"data", id>> \in counter'
                    /\ phase' \in {"shutdown", "exit", "start", "alive"} /\ queue' # <<>> =>
                         BrokerEventId \in ready' \cup batch' \/ pc' = "control"
  BY DEF ProgressInv
<1>1. faults = 0 /\ ~brokerGone
  <2>1. brokerGone => brokerGone'
    BY PacketIsRead DEF Next, CreateStep, CreateFails, BrokerAttaches, BrokerEnds, PublisherEnds,
       PublisherCommits, PublisherSignals, Subscribe, Timeout, Fetch, HandleEvent, ReadMessage, ReadAll,
       WorkerExits, BeginStop, SignalShutdown, Join, Destroy, Move, vars, env
  <2> QED BY <2>1, FaultsStay
<1>2. /\ \A id \in Installed : At(id).read < published[id] => Announced(id)
      /\ \A id \in Waiting : published[id] > 0 => id \in ended \cup unsignalled \/ <<"data", id>> \in counter
  BY <1>1 DEF ProgressInv
<1>3. \A id \in Id : id \in Waiting \/ id > introduced => id \notin Installed
  BY DEF QueueInv
<1>4. ASSUME NEW id \in Waiting', published'[id] > 0
      PROVE  id \in ended' \cup unsignalled' \/ <<"data", id>> \in counter'
  <2>1. id \in Id /\ (id \in Waiting \/ (BrokerAttaches /\ id > introduced))
    BY QueueStep DEF Waiting
  <2>2. CASE published'[id] # published[id]
    BY <2>1, <2>2, SignalsStay
  <2>3. CASE published'[id] = published[id]
    <3>1. id \in Waiting
      BY <1>4, <2>1, <2>3 DEF QueueInv
    <3>2. id \in ended \cup unsignalled \/ <<"data", id>> \in counter
      BY <1>2, <1>4, <2>3, <3>1
    <3> QED BY <1>3, <2>1, <3>1, <3>2, SignalsStay
  <2> QED BY <2>2, <2>3
<1>5. ASSUME NEW id \in Installed', At(id)'.read < published'[id] PROVE Announced(id)'
  <2>1. CASE ReadPacket
    <3>1. /\ UNCHANGED <<ended, published, unsignalled, counter, batch, cur>> /\ pc = "control"
      BY <2>1, PacketIsRead
    <3>2. CASE /\ id \in Installed /\ fdOf'[id] = fdOf[id] /\ At(id)' = At(id)
               /\ id \in ready => id \in ready'
      BY <1>2, <1>5, <3>1, <3>2 DEF Announced
    <3>3. CASE id \in Waiting /\ At(id)'.read = 0 /\ id \in ready'
      BY <1>2, <1>5, <3>1, <3>3 DEF Announced
    <3> QED BY <2>1, <3>2, <3>3, PacketEffect
  <2>2. CASE ~ReadPacket
    <3>1. id \in Installed /\ id \in Id
      <4>1. CreateStep => Installed' = Installed
        BY CreateTables DEF Installed
      <4>2. ReadMessage => Installed' = Installed
        BY ReadTables
      <4>3. ReleaseAll => Installed' = {}
        BY Closing
      <4>4. UNCHANGED <<files, registered, mapped, phase, fdOf, attachmentAt>> => Installed' = Installed
        BY DEF Installed
      <4> QED BY <2>2, <4>1, <4>2, <4>3, <4>4, WhatChanges, Tables
    <3>2. /\ fdOf'[id] = fdOf[id] /\ At(id).read <= At(id)'.read
          /\ id \in batch => id \in batch' \/ (pc' = "data" /\ cur' = fdOf[id])
          /\ id \in ready /\ <<"data", id>> \in counter => id \in ready' \cup batch'
          /\ pc = "data" /\ cur = fdOf[id] => \/ pc' = "data" /\ cur' = fdOf[id]
                                              \/ At(id).read = published[id] /\ UNCHANGED <<attachmentAt, published>>
      BY <1>5, <2>2, <3>1, EventsStay
    <3>3. /\ published'[id] = published[id] \/ id \in unsignalled'
          /\ id \in ended => id \in ended'
          /\ id \in unsignalled =>
               id \in unsignalled' \cup ended' \/ (<<"data", id>> \in counter' /\ id \in ready')
          /\ <<"data", id>> \in counter => <<"data", id>> \in counter' \/ (pc' = "data" /\ cur' = fdOf[id])
      BY <3>1, SignalsStay
    <3>4. CASE id \in unsignalled'
      BY <3>4 DEF Announced
    <3>5. CASE published'[id] = published[id]
      <4>1. At(id).read \in Nat /\ At(id)'.read \in Nat /\ published[id] \in Nat
        <5>1. At(id).read \in Nat
          BY <3>1, Tables, Bounds DEF Attachment
        <5>2. published[id] \in Nat
          BY <3>1 DEF EnvTypeOK
        <5>3. At(id)' \in Records'
          BY <1>5 DEF TablesInv, Records, At
        <5>4. At(id)'.read \in 0 .. MaxMessages
          BY <5>3 DEF TablesTypeOK
        <5> QED BY <5>1, <5>2, <5>4, Bounds
      <4>2. Announced(id)
        BY <1>2, <1>5, <3>1, <3>2, <3>5, <4>1
      <4>3. ~(At(id).read = published[id] /\ UNCHANGED <<attachmentAt, published>>)
        BY <1>5, <3>1, <3>2, <3>5, <4>1
      <4> QED BY <3>1, <3>2, <3>3, <4>2, <4>3 DEF Announced
    <3> QED BY <3>3, <3>4, <3>5
  <2> QED BY <2>1, <2>2
<1>6. ASSUME phase' \in {"shutdown", "exit", "start", "alive"}, queue' # <<>>
      PROVE  BrokerEventId \in ready' \cup batch' \/ pc' = "control"
  <2>1. CASE ReadPacket
    BY <1>6, <2>1, PacketEffect, FaultsStay
  <2>2. CASE ~ReadPacket
    BY <1>1, <1>6, <2>2, PacketsStay
  <2> QED BY <2>1, <2>2
<1> QED BY <1>4, <1>5, <1>6

-----------------------------------------------------------------------------
(* The theorems *)

\* It holds before create().
LEMMA InitIInv == Init => IInv
<1> SUFFICES ASSUME Init PROVE IInv
  OBVIOUS
<1>1. /\ Installed = {} /\ DOMAIN attachmentAt = {} /\ Records = {} /\ FdsOf(Records) = {} /\ TablesTypeOK
  <2>1. Installed = {} /\ DOMAIN attachmentAt = {}
    BY DEF Init, Installed
  <2> QED BY <2>1, NoTables
<1>2. DOMAIN queue = {} /\ Waiting = {} /\ queue \in Seq(Packet)
  BY DEF Init, Waiting
<1>3. EnvTypeOK /\ KernelTypeOK
  <2>1. 0 \in 0 .. Attachments /\ 0 \in 0 .. MaxMessages
    BY Bounds
  <2>2. EnvTypeOK
    BY <2>1 DEF Init, EnvTypeOK
  <2>3. KernelTypeOK
    BY DEF Init, KernelTypeOK
  <2> QED BY <2>2, <2>3
<1>4. ThreadTypeOK /\ ControlInv /\ WorkerInv /\ ShutdownInv
  <2>1. 0 \in 0 .. FdLimit /\ 0 \in 0 .. MaxMessages /\ asynchronous \in BOOLEAN
    BY Bounds DEF Init
  <2>2. ThreadTypeOK
    BY <2>1 DEF Init, ThreadTypeOK
  <2>3. ControlInv
    <3>1. active \in BOOLEAN /\ wasActive \in BOOLEAN
      BY DEF Init
    <3>2. /\ phase = "epoll" /\ pc = "out" /\ owner = "none" /\ batch = {} /\ promise = "unset"
          /\ outcome = "nothing" /\ cur = 0 /\ assembled = 0 /\ faults = 0
      BY DEF Init
    <3> QED BY <1>1, <2>1, <3>1, <3>2 DEF ControlInv, Ending
  <2>4. WorkerInv /\ ShutdownInv
    BY DEF Init, WorkerInv, ShutdownInv, Running, Ending
  <2> QED BY <2>2, <2>3, <2>4
<1>5. TablesInv /\ DescriptorsAreOwned
  BY <1>1 DEF Init, TablesInv, DescriptorsAreOwned
<1>6. QueueInv /\ MessagesInv
  BY <1>1, <1>2, Bounds DEF Init, QueueInv, MessagesInv
<1>7. NothingEndsByItself /\ ProgressInv
  BY <1>1, <1>2 DEF Init, NothingEndsByItself, ProgressInv
<1> QED BY <1>1, <1>3, <1>4, <1>5, <1>6, <1>7 DEF IInv, TypeOK

\* Every step preserves it.
LEMMA StepIInv == IInv /\ [Next]_vars => IInv'
<1> SUFFICES ASSUME IInv, [Next]_vars PROVE IInv'
  OBVIOUS
<1>1. /\ EnvTypeOK /\ KernelTypeOK /\ TablesTypeOK /\ ThreadTypeOK /\ ControlInv /\ TablesInv
      /\ DescriptorsAreOwned /\ QueueInv
  BY DEF IInv, TypeOK
<1>2. EnvTypeOK' /\ KernelTypeOK' /\ TablesTypeOK' /\ TablesInv' /\ DescriptorsAreOwned' /\ ControlInv'
  BY <1>1, EnvStep, KernelStep, TablesStep, ControlStep
<1>3. MessagesInv' /\ delivered' \in [Id -> 0 .. MaxMessages] /\ assembled' \in 0 .. MaxMessages
  BY <1>2, MessagesStep
<1>4. ThreadTypeOK'
  BY <1>3, ThreadStep DEF ThreadTypeOK, Running, Ending, WorkerResults
<1>5. WorkerInv' /\ ShutdownInv' /\ NothingEndsByItself' /\ QueueInv'
  BY WorkerStep, ShutdownStep, EndsStep, QueueStep
<1>6. ProgressInv'
  BY <1>2, <1>3, ProgressStep
<1> QED BY <1>2, <1>3, <1>4, <1>5, <1>6 DEF IInv, TypeOK


(***************************************************************************)
(* IInv is inductive: whatever the broker, the publishers, the threads and *)
(* failing calls do, in any order, the object stays in order.              *)
(***************************************************************************)
THEOREM Invariance == Spec => []IInv
<1> QED BY InitIInv, StepIInv, PTL DEF Spec

(***************************************************************************)
(* Every variable stays in its type; in particular the thread inside       *)
(* read_data stands for an attachment that is there.                       *)
(***************************************************************************)
THEOREM TypeCorrect == Spec => []TypeOK
<1>1. IInv => TypeOK
  BY DEF IInv
<1> QED BY <1>1, Invariance, PTL

(***************************************************************************)
(* release_publisher_attachment, ReceivedFdsGuard and release_resources    *)
(* leak no descriptor and no mapping and close none twice, whichever call  *)
(* fails and whichever numbers the kernel gives out again.                 *)
(***************************************************************************)
THEOREM DescriptorsStayOwned == Spec => []DescriptorsAreOwned
<1>1. IInv => DescriptorsAreOwned
  BY DEF IInv
<1> QED BY <1>1, Invariance, PTL

(***************************************************************************)
(* The two tables of attachments are inverse to each other, and epoll      *)
(* knows the data events of exactly the attachments in them.               *)
(***************************************************************************)
THEOREM EventsAlwaysFindTheirSegment == Spec => []EventsFindTheirSegment
<1>1. ASSUME IInv PROVE EventsFindTheirSegment
  <2>1. TablesTypeOK /\ TablesInv
    BY <1>1 DEF IInv, TypeOK
  <2>2. {r \in registered : r.id \in Id} = {[file |-> <<"data", id>>, id |-> id] : id \in Installed}
    <3>1. \A id \in Installed : id \in Id /\ [file |-> <<"data", id>>, id |-> id] \in registered
      BY <2>1, Tables DEF TablesInv
    <3>2. ASSUME NEW r \in registered, r.id \in Id
          PROVE  \E id \in Installed : r = [file |-> <<"data", id>>, id |-> id]
      <4>1. BrokerEventId \notin Id /\ ShutdownEventId \notin Id
        BY Bounds DEF BrokerEventId, ShutdownEventId, Id
      <4> QED BY <2>1, <3>2, <4>1 DEF TablesInv
    <3> QED BY <3>1, <3>2
  <2>3. Cardinality(Records) = Cardinality(Installed)
    <3> DEFINE F == [id \in Installed |-> At(id)]
    <3>1. Records = {At(id) : id \in Installed} /\ \A id \in Installed : At(id).segment = id
      BY <2>1, Tables
    <3>2. F \in Surjection(Installed, Records) /\ F \in Injection(Installed, Records)
      <4>1. F \in [Installed -> Records] /\ \A id \in Installed : F[id] = At(id) /\ DOMAIN F = Installed
        BY <3>1
      <4> HIDE DEF F
      <4>2. \A i, j \in Installed : F[i] = F[j] => i = j
        BY <3>1, <4>1
      <4>3. \A r \in Records : \E id \in Installed : F[id] = r
        BY <3>1, <4>1
      <4> QED BY <4>1, <4>2, <4>3 DEF Surjection, Injection, IsInjective
    <3>3. IsFiniteSet(Installed)
      <4>1. Installed \in SUBSET (1 .. Attachments)
        BY <2>1 DEF TablesTypeOK, Id
      <4>2. 1 \in Int /\ Attachments \in Int
        BY Bounds
      <4> QED BY <4>1, <4>2, FS_Interval, FS_Subset
    <3> HIDE DEF F
    <3> QED BY <3>2, <3>3, FS_Surjection
  <2> QED BY <2>1, <2>2, <2>3 DEF EventsFindTheirSegment, TablesInv
<1> QED BY <1>1, Invariance, PTL

(***************************************************************************)
(* Edge triggering loses nothing: an unread message or packet is with      *)
(* epoll, in the fetched batch or being handled, as long as nothing has    *)
(* failed, through every move of the object.                               *)
(***************************************************************************)
THEOREM NothingIsEverForgotten == Spec => []NothingIsForgotten
<1>1. ASSUME IInv PROVE NothingIsForgotten
  <2> SUFFICES ASSUME phase = "alive", faults = 0, ~brokerGone
               PROVE  /\ \A id \in Installed : At(id).read < published[id] =>
                           \/ id \in ended \cup unsignalled \/ id \in Pending \/ id \in batch
                           \/ pc = "data" /\ cur = fdOf[id]
                      /\ queue # <<>> => BrokerEventId \in Pending \cup batch \/ pc = "control"
    BY DEF NothingIsForgotten
  <2>1. TablesInv /\ ProgressInv
    BY <1>1 DEF IInv
  <2>2. ASSUME NEW id \in Installed, At(id).read < published[id]
        PROVE  \/ id \in ended \cup unsignalled \/ id \in Pending \/ id \in batch
               \/ pc = "data" /\ cur = fdOf[id]
    <3>1. Announced(id)
      BY <2>1, <2>2 DEF ProgressInv
    <3>2. [file |-> <<"data", id>>, id |-> id] \in registered
      BY <2>1 DEF TablesInv
    <3>3. id \in ready /\ <<"data", id>> \in counter => id \in Pending
      BY <3>2 DEF Pending, Readable
    <3> QED BY <3>1, <3>3 DEF Announced
  <2>3. ASSUME queue # <<>> PROVE BrokerEventId \in Pending \cup batch \/ pc = "control"
    <3>1. BrokerEventId \in ready \cup batch \/ pc = "control"
      BY <2>1, <2>3 DEF ProgressInv
    <3>2. [file |-> Own("broker"), id |-> BrokerEventId] \in registered
      BY <2>1 DEF TablesInv
    <3>3. BrokerEventId \in ready => BrokerEventId \in Pending
      BY <2>3, <3>2 DEF Pending, Readable
    <3> QED BY <3>1, <3>3
  <2> QED BY <2>2, <2>3
<1> QED BY <1>1, Invariance, PTL

(***************************************************************************)
(* Without a fault no call and no worker fails: PublisherDisconnected      *)
(* always finds its attachment, and stale events are skipped.  A worker    *)
(* that ends without an error has been stopped by its owner.               *)
(***************************************************************************)
THEOREM NothingEverEndsByItself == Spec => []NothingEndsByItself
<1>1. IInv => NothingEndsByItself
  BY DEF IInv
<1> QED BY <1>1, Invariance, PTL

(***************************************************************************)
(* consume_contiguous_messages gives a message to the application once,    *)
(* also the one whose callback has thrown.                                 *)
(***************************************************************************)
THEOREM MessagesAreNeverRepeated == Spec => []MessagesAreDeliveredOnce
<1>1. ASSUME IInv PROVE MessagesAreDeliveredOnce
  <2>1. \A id \in Installed :
          /\ id \in Id /\ delivered[id] \in Nat /\ At(id).read \in Nat /\ assembled \in Nat
    <3>1. delivered \in [Id -> 0 .. MaxMessages] /\ assembled \in 0 .. MaxMessages
          /\ TablesTypeOK /\ TablesInv
      BY <1>1 DEF IInv, TypeOK, ThreadTypeOK
    <3>2. \A id \in Installed : id \in Id /\ At(id).read \in 0 .. MaxMessages
      BY <3>1, Tables DEF Attachment
    <3> QED BY <3>1, <3>2, Bounds
  <2>2. \A id \in Installed :
       /\ \/ delivered[id] + (IF cur = fdOf[id] THEN assembled ELSE 0) <= At(id).read
          \/ /\ delivered[id] = At(id).read + 1 /\ outcome = "WorkerException"
             /\ pc \notin Running /\ asynchronous
    BY <1>1 DEF IInv, MessagesInv
  <2> QED BY <2>1, <2>2 DEF MessagesAreDeliveredOnce, Running
<1> QED BY <1>1, Invariance, PTL

\* What the last step has made unreported, it has reported.
LEMMA LossStep ==
  ASSUME IInv, [Next]_vars, NEW id \in Installed \cap DOMAIN fdOf'
  PROVE  Unreported(id)' > Unreported(id) => outcome' \in {"DataPathFailed", "ConsumptionFailed"}
<1> USE DEF IInv, TypeOK
<1> DEFINE term == IF cur = fdOf[id] THEN assembled ELSE 0
<1>1. /\ id \in Id /\ At(id).read \in Nat /\ delivered[id] \in Nat /\ assembled \in Nat
      /\ delivered \in [Id -> 0 .. MaxMessages] /\ fdOf[id] # 0
      /\ pc # "data" => assembled = 0
      /\ asynchronous => assembled = 0
  <2>1. id \in Id /\ At(id).read \in 0 .. MaxMessages /\ fdOf[id] \in Fd
    BY Tables DEF Attachment
  <2>2. delivered \in [Id -> 0 .. MaxMessages] /\ assembled \in 0 .. MaxMessages
    BY DEF ThreadTypeOK
  <2>3. ~(assembled > 0) => assembled = 0
    BY <2>2, Bounds
  <2> QED BY <2>1, <2>2, <2>3, Bounds DEF ControlInv, Fd
<1>2. Installed' # {} /\ id \in Installed'
  BY DEF Installed
<1>3. CASE ReadMessage
  <2>1. PICK a \in Installed :
         /\ a = attachmentAt[cur].segment /\ a \in Id /\ fdOf[a] = cur
         /\ At(a).read \in Nat
         /\ UNCHANGED fdOf
         /\ \A i \in Installed : i # a => fdOf[i] # cur /\ At(i)' = At(i)
         /\ attachmentAt' = attachmentAt => At(a)' = At(a)
         /\ attachmentAt' = [attachmentAt EXCEPT ![cur].read = @ + 1] => At(a)'.read = At(a).read + 1
    BY <1>3, ReadTables
  <2>2. \/ /\ At(a)'.read = At(a).read + 1 /\ cur' = cur
           /\ \/ delivered' = [delivered EXCEPT ![a] = @ + 1] /\ UNCHANGED assembled
              \/ assembled' = assembled + 1 /\ UNCHANGED delivered
        \/ /\ outcome' \in {"DataPathFailed", "ConsumptionFailed"} /\ cur' = 0
           /\ delivered' = delivered \/ delivered' = [delivered EXCEPT ![a] = @ + 1]
        \/ /\ At(a)' = At(a) /\ cur' = 0 /\ assembled = 0 /\ assembled' = 0
           /\ delivered' = [delivered EXCEPT ![a] = @ + 1]
    BY <1>1, <1>3, <2>1 DEF ReadMessage, Ends, DataFails, map_run_error_to_subscribe_error
  <2>3. CASE id = a
    <3>1. delivered'[a] = delivered[a] \/ delivered'[a] = delivered[a] + 1
      BY <1>1, <2>1, <2>2
    <3>2. delivered' = [delivered EXCEPT ![a] = @ + 1] => delivered'[a] = delivered[a] + 1
      BY <1>1, <2>1
    <3> QED BY <1>1, <2>1, <2>2, <2>3, <3>2 DEF Unreported
  <2>4. CASE id # a
    <3>1. delivered'[id] = delivered[id]
      BY <1>1, <2>1, <2>2, <2>4
    <3>2. cur # fdOf[id] /\ cur' # fdOf'[id] /\ At(id)' = At(id)
      BY <1>1, <2>1, <2>2, <2>4
    <3> QED BY <1>1, <3>1, <3>2 DEF Unreported
  <2> QED BY <2>3, <2>4
<1>4. CASE ReadAll
  <2>1. PICK a \in Installed : a = attachmentAt[cur].segment /\ fdOf[a] = cur /\ a \in Id
    BY <1>4, Tables DEF ReadAll, ThreadTypeOK
  <2>2. /\ UNCHANGED <<fdOf, attachmentAt>> /\ cur' = 0
        /\ \/ delivered' = [delivered EXCEPT ![a] = @ + assembled]
           \/ delivered' = delivered /\ assembled = 0
    BY <1>1, <1>4, <2>1 DEF ReadAll, object
  <2>3. At(id)' = At(id) /\ cur' # fdOf'[id]
    BY <1>1, <2>2 DEF At
  <2>4. CASE id = a
    <3>1. delivered'[a] = delivered[a] + assembled
      BY <1>1, <2>1, <2>2, <2>4
    <3> QED BY <1>1, <2>1, <2>3, <2>4, <3>1 DEF Unreported
  <2>5. CASE id # a
    <3>1. delivered'[id] = delivered[id] /\ fdOf[id] # cur
      BY <1>1, <2>1, <2>2, <2>5, TablesInjective
    <3> QED BY <1>1, <2>3, <3>1 DEF Unreported
  <2> QED BY <2>4, <2>5
<1>5. CASE ReadPacket
  <2>1. pc = "control" /\ UNCHANGED <<delivered, assembled, cur>>
    BY <1>5, PacketIsRead
  <2>2. id \notin Waiting /\ fdOf'[id] = fdOf[id] /\ At(id)' = At(id)
    <3>1. id \notin Waiting
      BY <1>1 DEF QueueInv
    <3> QED BY <1>2, <1>5, <3>1, PacketEffect
  <2> QED BY <1>1, <2>1, <2>2 DEF Unreported
<1>6. CASE ~ReadMessage /\ ~ReadAll /\ ~ReadPacket
  <2>1. UNCHANGED <<delivered, assembled, fdOf, attachmentAt>> /\ (cur' = cur \/ assembled = 0)
    BY <1>2, <1>6, MessagesStay
  <2>2. At(id)' = At(id)
    BY <2>1 DEF At
  <2> QED BY <1>1, <2>1, <2>2 DEF Unreported
<1> QED BY <1>3, <1>4, <1>5, <1>6

(***************************************************************************)
(* A message that has been read and never reaches the application is       *)
(* reported by the very call that loses it (consume_contiguous_messages).  *)
(***************************************************************************)
THEOREM LossIsAlwaysReported == Spec => LossIsReported
<1>1. IInv /\ [Next]_vars =>
        [\A id \in Installed \cap DOMAIN fdOf' :
           Unreported(id)' > Unreported(id) => outcome' \in {"DataPathFailed", "ConsumptionFailed"}]_vars
  BY LossStep
<1> QED BY <1>1, Invariance, PTL DEF Spec, LossIsReported

-----------------------------------------------------------------------------
(* The object keeps the promise of Subscription *)

\* The read indexes, as Subscription sees them.
Consumed == [id \in Id |-> IF id \in Installed THEN At(id).read ELSE 0]
Promised == <<published, ended, Installed, Consumed, delivered, phase # "gone">>

\* Steps that Subscription does not see.
LEMMA Hidden ==
  ASSUME UNCHANGED <<published, ended, delivered, fdOf, attachmentAt>>, phase # "gone", phase' # "gone"
  PROVE  UNCHANGED Promised
<1>1. Installed' = Installed /\ \A id \in Installed : At(id)' = At(id)
  BY DEF Installed, At
<1>2. Consumed' = Consumed
  BY <1>1 DEF Consumed
<1> QED BY <1>1, <1>2 DEF Promised

\* Reading a message advances the abstract subscription or leaves it alone.
LEMMA MessageKeepsPromise ==
  ASSUME IInv, ReadMessage \/ ReadAll
  PROVE  [Promise!Next]_Promised
<1> USE DEF IInv, TypeOK
<1>1. phase = "alive" /\ phase' = phase /\ UNCHANGED <<published, ended>>
  BY DEF ReadMessage, ReadAll, ControlInv, object, env
<1>2. CASE ReadMessage
  <2>1. PICK a \in Installed :
         /\ a = attachmentAt[cur].segment /\ a \in Id
         /\ At(a).read \in Nat /\ At(a).read < published[a]
         /\ Installed' = Installed
         /\ \A i \in Installed : i # a => At(i)' = At(i)
         /\ attachmentAt' = attachmentAt => At(a)' = At(a)
         /\ attachmentAt' = [attachmentAt EXCEPT ![cur].read = @ + 1] => At(a)'.read = At(a).read + 1
    BY <1>2, ReadTables
  <2>2. \/ At(a)'.read = At(a).read + 1 /\ UNCHANGED delivered
        \/ At(a)'.read = At(a).read + 1 /\ delivered' = [delivered EXCEPT ![a] = @ + 1]
        \/ At(a)' = At(a) /\ delivered' = [delivered EXCEPT ![a] = @ + 1]
    BY <1>2, <2>1 DEF ReadMessage
  <2>3. Consumed[a] = At(a).read
    BY <2>1 DEF Consumed
  <2>4. At(a)'.read = At(a).read + 1 => Consumed' = [Consumed EXCEPT ![a] = @ + 1]
    BY <2>1 DEF Consumed
  <2>5. At(a)' = At(a) => Consumed' = Consumed
    BY <2>1 DEF Consumed
  <2>6. Promise!Read(a)
    <3>1. /\ a \in Installed /\ Consumed[a] < published[a]
          /\ \/ Consumed' = [Consumed EXCEPT ![a] = @ + 1] /\ UNCHANGED delivered
             \/ /\ Consumed' = [Consumed EXCEPT ![a] = @ + 1]
                /\ delivered' = [delivered EXCEPT ![a] = @ + 1]
             \/ delivered' = [delivered EXCEPT ![a] = @ + 1] /\ UNCHANGED Consumed
          /\ UNCHANGED <<published, ended, Installed, phase # "gone">>
      BY <1>1, <2>1, <2>2, <2>3, <2>4, <2>5
    <3> QED BY <3>1 DEF Promise!Read, Consumed
  <2> QED BY <2>1, <2>6 DEF Promise!Next
<1>3. CASE ReadAll
  <2>1. PICK a \in Installed : a = attachmentAt[cur].segment /\ fdOf[a] = cur /\ a \in Id
    BY <1>3, Tables DEF ReadAll, ThreadTypeOK
  <2>2. /\ UNCHANGED <<fdOf, attachmentAt>>
        /\ \/ delivered' = [delivered EXCEPT ![a] = @ + assembled] /\ assembled > 0
           \/ UNCHANGED delivered
    BY <1>3, <2>1 DEF ReadAll, object
  <2>3. UNCHANGED <<Installed, Consumed>>
    <3>1. Installed' = Installed /\ \A id \in Installed : At(id)' = At(id)
      BY <2>2 DEF Installed, At
    <3> QED BY <3>1 DEF Consumed
  <2>4. CASE UNCHANGED delivered
    BY <1>1, <2>2, <2>4, Hidden
  <2>5. CASE delivered' = [delivered EXCEPT ![a] = @ + assembled] /\ assembled > 0
    <3>1. /\ delivered[a] \in Nat /\ assembled \in Nat /\ At(a).read \in Nat /\ Consumed[a] = At(a).read
          /\ pc \in Running
      <4>1. delivered \in [Id -> 0 .. MaxMessages] /\ assembled \in 0 .. MaxMessages
        BY DEF ThreadTypeOK
      <4>2. At(a).read \in 0 .. MaxMessages
        BY <2>1, Tables DEF Attachment
      <4>3. pc = "data"
        BY <1>3 DEF ReadAll
      <4> QED BY <2>1, <4>1, <4>2, <4>3, Bounds DEF Consumed, Running
    <3>2. delivered[a] + assembled <= At(a).read
      BY <2>1, <3>1 DEF MessagesInv
    <3>3. delivered[a] + assembled \in delivered[a] + 1 .. Consumed[a]
      BY <2>5, <3>1, <3>2
    <3>4. \E n \in delivered[a] + 1 .. Consumed[a] : delivered' = [delivered EXCEPT ![a] = n]
      BY <2>5, <3>3
    <3>5. /\ a \in Installed
          /\ \E n \in delivered[a] + 1 .. Consumed[a] : delivered' = [delivered EXCEPT ![a] = n]
          /\ UNCHANGED <<published, ended, Installed, Consumed, phase # "gone">>
      BY <1>1, <2>1, <2>3, <3>4
    <3>6. Promise!HandOver(a)
      BY <3>5 DEF Promise!HandOver, Consumed
    <3> QED BY <2>1, <3>6 DEF Promise!Next
  <2> QED BY <2>2, <2>4, <2>5
<1> QED BY <1>2, <1>3

\* A packet adds and removes publishers of the abstract subscription, or none.
LEMMA PacketKeepsPromise ==
  ASSUME IInv, ReadPacket
  PROVE  [Promise!Next]_Promised
<1> USE DEF IInv, TypeOK
<1>1. /\ pc = "control" /\ phase = "alive" /\ Installed \subseteq Id
      /\ UNCHANGED <<ended, published, phase, delivered>>
      /\ Idles \/ FailsToRead \/ DropsBatch \/ Installs \/ Uninstalls \/ MissesAttachment
  BY PacketCases DEF ControlInv, TablesTypeOK
<1>2. CASE UNCHANGED tables
  BY <1>1, <1>2, Hidden DEF tables
<1>3. CASE Installs
  <2>1. PICK n \in 0 .. Len(Head(queue).ids) :
          /\ queue # <<>> /\ Head(queue).type = "SubscriberAttachmentBatch"
          /\ 3 * Len(Head(queue).ids) <= Cardinality(Free)
          /\ Install(Head(queue).ids, ReceivedFds(Head(queue).ids), n)
    BY <1>3 DEF Installs
  <2>2. PICK new : new = {Head(queue).ids[i] : i \in 1 .. n}
    OBVIOUS
  <2>3. /\ Installed' = Installed \cup new /\ new \subseteq Id /\ new \cap Installed = {}
        /\ \A id \in Installed : At(id)' = At(id)
        /\ \A id \in new : At(id)'.read = 0
    BY <1>1, <2>1, <2>2, InstallTables
  <2>4. Consumed' = Consumed
    BY <2>3 DEF Consumed
  <2>5. /\ (phase # "gone") = TRUE /\ Installed' = Installed \cup new
        /\ UNCHANGED <<published, ended, Consumed, delivered, phase # "gone">>
    BY <1>1, <2>3, <2>4
  <2>6. Promise!Attach(new)
    BY <2>5 DEF Promise!Attach, Consumed
  <2> QED BY <2>3, <2>6 DEF Promise!Next
<1>4. CASE Uninstalls
  <2>1. PICK id : id = Head(queue).ids[1]
    OBVIOUS
  <2>2. /\ queue # <<>> /\ Head(queue).type = "PublisherDisconnected"
        /\ id \in Installed /\ HandleDisconnected(id)
    BY <1>4, <2>1 DEF Uninstalls
  <2>3. /\ Installed' = Installed \ {id}
        /\ \A i \in Installed' : At(i)' = At(i)
    BY <1>1, <2>2, UninstallTables
  <2>4. id \in ended
    <3>1. IsEnd(1) /\ 1 \in DOMAIN queue /\ queue[1].ids[1] = id
      BY <2>1, <2>2, Packets DEF IsEnd
    <3> QED BY <3>1 DEF QueueInv
  <2>5. Consumed' = [Consumed EXCEPT ![id] = 0]
    BY <1>1, <2>2, <2>3 DEF Consumed
  <2>6. /\ id \in Installed \cap ended /\ Installed' = Installed \ {id} /\ id \in Id
        /\ UNCHANGED <<published, ended, delivered, phase # "gone">>
    BY <1>1, <2>2, <2>3, <2>4
  <2>7. Promise!Detach(id)
    BY <2>5, <2>6 DEF Promise!Detach, Consumed
  <2> QED BY <2>6, <2>7 DEF Promise!Next
<1> QED BY <1>1, <1>2, <1>3, <1>4 DEF Idles, FailsToRead, DropsBatch, MissesAttachment

\* Every step is one of the abstract subscription, or leaves it alone.
LEMMA PromiseStep ==
  ASSUME IInv, [Next]_vars
  PROVE  [Promise!Next]_Promised
<1> USE DEF IInv, TypeOK
<1>1. CASE ReadMessage \/ ReadAll
  BY <1>1, MessageKeepsPromise
<1>2. CASE ReadPacket
  BY <1>2, PacketKeepsPromise
<1>3. CASE CreateFails \/ Destroy \/ (Move /\ ReleaseAll)
  <2>1. Installed' = {} /\ (phase' # "gone") = FALSE
    BY <1>3, Closing DEF CreateFails, Destroy
  <2>2. Consumed' = [id \in Id |-> 0]
    BY <2>1 DEF Consumed
  <2>3. UNCHANGED <<published, ended, delivered>>
    BY <1>3 DEF CreateFails, Destroy, Move, env
  <2>4. Promise!Close
    BY <2>1, <2>2, <2>3 DEF Promise!Close, Consumed
  <2> QED BY <2>4 DEF Promise!Next
<1>4. ASSUME NEW id \in Id, PublisherCommits(id) PROVE [Promise!Next]_Promised
  <2>1. /\ id \notin ended /\ published' = [published EXCEPT ![id] = @ + 1]
        /\ UNCHANGED <<ended, fdOf, attachmentAt, delivered, phase>>
    BY <1>4 DEF PublisherCommits, object
  <2>2. UNCHANGED <<Installed, Consumed>>
    <3>1. Installed' = Installed /\ \A i \in Installed : At(i)' = At(i)
      BY <2>1 DEF Installed, At
    <3> QED BY <3>1 DEF Consumed
  <2>3. Promise!Publish(id)
    BY <2>1, <2>2 DEF Promise!Publish, Consumed
  <2> QED BY <2>3 DEF Promise!Next
<1>5. ASSUME NEW id \in Id, PublisherEnds(id) PROVE [Promise!Next]_Promised
  <2>1. /\ ended' = ended \cup {id}
        /\ UNCHANGED <<published, fdOf, attachmentAt, delivered, phase>>
    BY <1>5 DEF PublisherEnds, object
  <2>2. UNCHANGED <<Installed, Consumed>>
    <3>1. Installed' = Installed /\ \A i \in Installed : At(i)' = At(i)
      BY <2>1 DEF Installed, At
    <3> QED BY <3>1 DEF Consumed
  <2>3. Promise!End(id)
    BY <2>1, <2>2 DEF Promise!End, Consumed
  <2> QED BY <2>3 DEF Promise!Next
<1>6. CASE UNCHANGED vars
  <2>1. UNCHANGED <<published, ended, delivered, fdOf, attachmentAt, phase>>
    BY <1>6 DEF vars, env, object
  <2>2. UNCHANGED <<Installed, Consumed>>
    <3>1. Installed' = Installed /\ \A i \in Installed : At(i)' = At(i)
      BY <2>1 DEF Installed, At
    <3> QED BY <3>1 DEF Consumed
  <2> QED BY <2>1, <2>2 DEF Promised
<1>7. CASE /\ ~ReadMessage /\ ~ReadAll /\ ~ReadPacket /\ ~UNCHANGED vars
           /\ ~CreateFails /\ ~Destroy /\ ~(Move /\ ReleaseAll)
           /\ ~\E id \in Id : PublisherCommits(id) \/ PublisherEnds(id)
  <2>1. UNCHANGED <<published, ended, delivered>>
    BY <1>7 DEF Next, CreateStep, BrokerAttaches, BrokerEnds, PublisherSignals, Subscribe, Timeout,
       Fetch, HandleEvent, WorkerExits, BeginStop, SignalShutdown, Join, Move, env
  <2>2. UNCHANGED <<fdOf, attachmentAt>>
    BY <1>7 DEF Next, CreateStep, BrokerAttaches, BrokerEnds, PublisherSignals, Subscribe, Timeout,
       Fetch, HandleEvent, WorkerExits, BeginStop, SignalShutdown, Join, Move, object
  <2>3. phase # "gone" /\ phase' # "gone"
    BY <1>7, ZenonT(40) DEF Next, CreateStep, BrokerAttaches, BrokerEnds, PublisherSignals, Subscribe, Timeout,
       Fetch, HandleEvent, WorkerExits, BeginStop, SignalShutdown, Join, Move, object, Connected,
       ControlInv
  <2> QED BY <2>1, <2>2, <2>3, Hidden
<1> QED BY <1>1, <1>2, <1>3, <1>4, <1>5, <1>6, <1>7

(***************************************************************************)
(* The object implements Subscription: whatever the order of data events   *)
(* and PublisherDisconnected, and whichever calls fail, no message is left *)
(* out, and a publisher is let go only after it has ended.                 *)
(***************************************************************************)
THEOREM EndpointImplementsSubscription == Spec => ImplementsSubscription
<1>1. Init => Promise!Init
  <2> SUFFICES ASSUME Init PROVE Promise!Init
    OBVIOUS
  <2>1. Installed = {} /\ (phase # "gone") = TRUE
    BY DEF Init, Installed
  <2>2. Consumed = [id \in Id |-> 0]
    BY <2>1 DEF Consumed
  <2> QED BY <2>1, <2>2 DEF Init, Promise!Init, Consumed
<1>2. IInv /\ [Next]_vars => [Promise!Next]_Promised
  BY PromiseStep
<1> QED BY <1>1, <1>2, Invariance, PTL DEF Spec, ImplementsSubscription, Promise!Spec, Promise!subscription,
    Promised, Consumed
=============================================================================
