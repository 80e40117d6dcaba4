----------------------------- MODULE DataPlane -----------------------------
(***************************************************************************)
(* One publisher, the SharedData segment it owns, and the subscribers that *)
(* the broker has attached to it.  Publisher and subscribers are separate  *)
(* processes that share memory and two kinds of eventfd; every step below  *)
(* is one access to shared memory, or several of which no other process    *)
(* can tell the order (the README lists what is joined and why).           *)
(*                                                                         *)
(* Source: src/src/publisher.cpp, src/src/subscriber.cpp and               *)
(* src/include/shared_memory_layout.hpp.                                   *)
(*                                                                         *)
(* Abstractions.  One size class (the classes have separate free lists); a *)
(* chunk is its number, its payload is its sequence number; a reference    *)
(* count is the set of slots whose bit is set.  The broker is reduced to   *)
(* what it tells the publisher: a slot is tracked only when nobody uses it *)
(* and reaped only after its subscriber is gone.                           *)
(***************************************************************************)
EXTENDS RingIndex, Sequences

CONSTANTS
  Slots,            \* subscriber slots (kMaxSubscribers of them)
  ChunkCount,       \* kChunkCountBySizeClass of the one size class
  MaxSeq,           \* bound: messages published in a behaviour
  Synchronous,      \* TRUE: control packets are read only inside a blocked publish();
                    \* FALSE: also between two messages, as the worker does
  CanTimeout,       \* a blocked publish() may give up, as a synchronous one does
  CrashMidRead      \* a subscriber may die inside read_data, not only between calls

ASSUME SlotsAssumption == Slots # {}
ASSUME ChunkCountAssumption == ChunkCount \in Nat /\ ChunkCount >= 1
ASSUME MaxSeqAssumption == MaxSeq \in Nat
ASSUME ModeAssumption == {Synchronous, CanTimeout, CrashMidRead} \subseteq BOOLEAN

Chunk == 1 .. ChunkCount

\* What the first four bytes of a chunk can hold besides the offset of another
\* chunk: kInvalidOffset at the end of the initial list, kMagic in a message.
EndOfList == 0
Magic == ChunkCount + 1
Word == 0 .. ChunkCount + 1

NoSeq == -1             \* expected_seq before the first message

\* The value of a local variable that is out of scope.
NoChunk == 1
NoSlot == CHOOSE s \in Slots : TRUE

VARIABLES
  \* SharedData
  rd,           \* descriptor_read_indices
  wr,           \* descriptor_write_index
  ring,         \* desc_ring: the chunk of each descriptor
  head, tail,   \* ends of the free list
  word,         \* first word of each chunk: next offset or magic
  seqOf,        \* second word of each chunk: sequence number of its message
  refs,         \* chunk_reference_counts: the slots whose bit is set
  inUse,        \* chunk_usage_tracker.is_in_use
  \* eventfds
  dataEvent,    \* data_available_event_fd of each slot is readable
  spaceEvent,   \* space_available_event_fd is readable
  \* the publisher's thread
  ppc,          \* where it is
  nextSeq,      \* seq_
  pchunk,       \* chunk it is publishing or giving back
  psignal,      \* slots it still has to signal
  presume,      \* where it goes when the control socket is drained
  pslot, ppos,  \* slot it reaps, descriptor it has reached
  ptail,        \* tail it has loaded while giving a chunk back
  \* the thread of each subscriber
  spc,          \* where it is; "absent" when the slot is free
  local,        \* subscriber_read_index
  batch,        \* descriptors copied and not yet read
  expected,     \* expected_seq
  stail,        \* tail it has loaded while giving a chunk back
  \* history
  joined        \* sequence number of the first message addressed to the slot

shared == <<rd, wr, ring, head, tail, word, seqOf, refs, inUse>>
freeList == <<head, tail, word>>
pubLocal == <<ppc, nextSeq, pchunk, psignal, presume, pslot, ppos, ptail>>
subLocal == <<spc, local, batch, expected, stail, joined>>
vars == <<shared, dataEvent, spaceEvent, pubLocal, subLocal>>

PubPc == {"idle", "late", "scan", "alloc", "write", "commit", "signal", "wait",
          "events", "control", "reap", "reapLink", "reapPush", "failed"}
SubPc == {"absent", "idle", "wrapped", "contiguous", "read", "callback", "store",
          "storeLast", "release", "link", "push", "notify", "failed", "dead"}

Alive(s) == spc[s] \notin {"absent", "dead"}

\* A slot gets a bit and a signal only if it has read everything.  (mutant)
TrackedIfIdle == {s \in InUse(rd) : rd[s] = wr}

\* The slots whose bit goes into the mask of a message, and that are signalled.
Tracked == InUse(rd)

\* The old count is compared with zero, or not at all.  (mutants)
NeverLastHolder(c, s) == refs[c] = {}
AnyHolder(c, s) == s \in refs[c]

\* fetch_and returned the bit of s and no other.
LastHolder(c, s) == refs[c] = {s}

\* The old tail becomes the next of the new one.  (mutant)
LinkedBackwards(last, c) == [word EXCEPT ![c] = last]

\* The chunk that was last points to the new one.
Linked(last, c) == [word EXCEPT ![last] = c]

Init ==
  \* the subscribers of the initial handshake are tracked before any publish()
  /\ \E first \in SUBSET Slots :
       /\ rd = [s \in Slots |-> IF s \in first THEN 0 ELSE InvalidIndex]
       /\ spc = [s \in Slots |-> IF s \in first THEN "idle" ELSE "absent"]
  /\ wr = 0
  /\ ring = [i \in Index |-> 1]                 \* zeroed memory: offset 0
  /\ head = 1 /\ tail = ChunkCount
  /\ word = [c \in Chunk |-> IF c = ChunkCount THEN EndOfList ELSE c + 1]
  /\ seqOf = [c \in Chunk |-> 0]
  /\ refs = [c \in Chunk |-> {}]
  /\ inUse = [c \in Chunk |-> FALSE]
  /\ dataEvent = [s \in Slots |-> FALSE]
  /\ spaceEvent = FALSE
  /\ ppc = "idle" /\ nextSeq = 0 /\ pchunk = NoChunk /\ psignal = {}
  /\ presume = "idle" /\ pslot = NoSlot /\ ppos = 0 /\ ptail = NoChunk
  /\ local = [s \in Slots |-> InvalidIndex]
  /\ batch = [s \in Slots |-> <<>>]
  /\ expected = [s \in Slots |-> NoSeq]
  /\ stail = [s \in Slots |-> NoChunk]
  /\ joined = [s \in Slots |-> 0]

-----------------------------------------------------------------------------
(* publish() and try_publish_one *)

\* A call that timed out may leave events of its last epoll_pwait2 to the next one.
PublishCall ==
  /\ ppc \in {"idle", "late"} /\ nextSeq < MaxSeq
  /\ ppc' = IF ppc = "late" THEN "events" ELSE "scan"
  /\ UNCHANGED <<shared, dataEvent, spaceEvent, nextSeq, pchunk, psignal, presume,
                 pslot, ppos, ptail, subLocal>>

ScanRing ==
  /\ ppc = "scan"
  /\ ppc' = IF DescriptorAvailable(rd, wr) THEN "alloc" ELSE "wait"
  /\ UNCHANGED <<shared, dataEvent, spaceEvent, nextSeq, pchunk, psignal, presume,
                 pslot, ppos, ptail, subLocal>>

\* The last chunk of the free list is given out too.  (mutant)
NoChunkLeft == head = EndOfList

\* The free list always keeps one chunk.
OneChunkLeft == head = tail

FreeListEmpty ==
  /\ ppc = "alloc" /\ OneChunkLeft
  /\ ppc' = "wait"
  /\ UNCHANGED <<shared, dataEvent, spaceEvent, nextSeq, pchunk, psignal, presume,
                 pslot, ppos, ptail, subLocal>>

\* The debug checks on the chunk at the head: an offset of the class, not in use.
HeadUsable == head \in Chunk /\ ~inUse[head]

TakeChunk ==
  /\ ppc = "alloc" /\ ~OneChunkLeft
  /\ IF HeadUsable
       THEN /\ inUse' = [inUse EXCEPT ![head] = TRUE]
            /\ pchunk' = head
            /\ head' = word[head]
            /\ ppc' = "write"
       ELSE /\ ppc' = "failed"
            /\ UNCHANGED <<inUse, pchunk, head>>
  /\ UNCHANGED <<rd, wr, ring, tail, word, seqOf, refs, dataEvent, spaceEvent,
                 nextSeq, psignal, presume, pslot, ppos, ptail, subLocal>>

\* Descriptor, header and payload, then fetch_add of the mask of all tracked
\* slots.  The count is zero there (CountIsZero), so no bit carries.
WriteMessage ==
  /\ ppc = "write"
  /\ ring' = [ring EXCEPT ![wr] = pchunk]
  /\ word' = [word EXCEPT ![pchunk] = Magic]
  /\ seqOf' = [seqOf EXCEPT ![pchunk] = nextSeq]
  /\ nextSeq' = nextSeq + 1
  /\ refs' = [refs EXCEPT ![pchunk] = @ \cup Tracked]
  /\ ppc' = "commit"
  /\ UNCHANGED <<rd, wr, head, tail, inUse, dataEvent, spaceEvent, pchunk, psignal,
                 presume, pslot, ppos, ptail, subLocal>>

Commit ==
  /\ ppc = "commit"
  /\ wr' = AdvanceWrite(wr)
  /\ psignal' = Tracked
  /\ ppc' = "signal"
  /\ pchunk' = NoChunk
  /\ UNCHANGED <<rd, ring, freeList, seqOf, refs, inUse, dataEvent, spaceEvent, nextSeq,
                 presume, pslot, ppos, ptail, subLocal>>

\* Nobody reads the eventfd of a dead subscriber again.
SignalData(s) ==
  /\ ppc = "signal" /\ s \in psignal
  /\ dataEvent' = [dataEvent EXCEPT ![s] = Alive(s)]
  /\ psignal' = psignal \ {s}
  /\ ppc' = IF psignal = {s} THEN "idle" ELSE "signal"
  /\ UNCHANGED <<shared, spaceEvent, nextSeq, pchunk, presume, pslot, ppos, ptail,
                 subLocal>>

SpaceEvent ==
  /\ ppc \in {"wait", "events"} /\ spaceEvent
  /\ spaceEvent' = FALSE
  /\ ppc' = "events"
  /\ UNCHANGED <<shared, dataEvent, nextSeq, pchunk, psignal, presume, pslot, ppos,
                 ptail, subLocal>>

EventsDone ==
  /\ ppc = "events"
  /\ ppc' = "scan"
  /\ UNCHANGED <<shared, dataEvent, spaceEvent, nextSeq, pchunk, psignal, presume,
                 pslot, ppos, ptail, subLocal>>

WaitTimeout ==
  /\ CanTimeout /\ ppc \in {"wait", "events"}
  /\ ppc' \in {"idle", "late"}
  /\ UNCHANGED <<shared, dataEvent, spaceEvent, nextSeq, pchunk, psignal, presume,
                 pslot, ppos, ptail, subLocal>>

-----------------------------------------------------------------------------
(* process_broker_control_messages: a synchronous publisher gets there only *)
(* among the events of a blocked publish(), the worker also between two     *)
(* messages.                                                                *)

ControlPoint ==
  \/ ppc \in {"wait", "events", "control"}
  \/ ~Synchronous /\ ppc = "idle"

ResumeAt == CASE ppc = "idle"              -> "idle"
              [] ppc \in {"wait", "events"} -> "scan"
              [] OTHER                     -> presume

\* SubscriberEventFdAndSlot.  The new subscriber's own state is that of a new
\* PublisherAttachment.
Track(s) ==
  /\ ControlPoint /\ spc[s] = "absent" /\ rd[s] = InvalidIndex
  /\ rd' = [rd EXCEPT ![s] = wr]
  /\ presume' = ResumeAt
  /\ ppc' = "control"
  /\ spc' = [spc EXCEPT ![s] = "idle"]
  /\ joined' = [joined EXCEPT ![s] = nextSeq]
  /\ UNCHANGED <<wr, ring, freeList, seqOf, refs, inUse, dataEvent, spaceEvent, nextSeq,
                 pchunk, psignal, pslot, ppos, ptail, local, batch,
                 expected, stail>>

\* SubscriberDisconnected
ReapBegin(s) ==
  /\ ControlPoint /\ spc[s] = "dead" /\ rd[s] # InvalidIndex
  /\ pslot' = s
  /\ ppos' = rd[s]
  /\ presume' = ResumeAt
  /\ ppc' = "reap"
  /\ UNCHANGED <<shared, dataEvent, spaceEvent, nextSeq, pchunk, psignal, ptail, subLocal>>

\* [rd, N) and then [0, wr), or [rd, wr): in both cases ppos walks to wr.
Reaped == ppos = wr

ReapKeep ==
  /\ ppc = "reap" /\ ~Reaped
  /\ ~LastHolder(ring[ppos], pslot)
  /\ refs' = [refs EXCEPT ![ring[ppos]] = @ \ {pslot}]
  /\ ppos' = AdvanceRead(ppos)
  /\ UNCHANGED <<rd, wr, ring, freeList, seqOf, inUse, dataEvent, spaceEvent, ppc, nextSeq,
                 pchunk, psignal, presume, pslot, ptail, subLocal>>

\* The dead subscriber was the last holder.
ReapRelease ==
  LET c == ring[ppos] IN
  /\ ppc = "reap" /\ ~Reaped
  /\ LastHolder(c, pslot)
  /\ refs' = [refs EXCEPT ![c] = @ \ {pslot}]
  /\ inUse' = [inUse EXCEPT ![c] = FALSE]
  /\ pchunk' = c
  /\ ptail' = tail
  /\ ppc' = IF inUse[c] THEN "reapLink" ELSE "failed"
  /\ UNCHANGED <<rd, wr, ring, freeList, seqOf, dataEvent, spaceEvent, nextSeq, psignal,
                 presume, pslot, ppos, subLocal>>

ReapLink ==
  /\ ppc = "reapLink"
  /\ word' = Linked(ptail, pchunk)
  /\ ppc' = "reapPush"
  /\ UNCHANGED <<rd, wr, ring, head, tail, seqOf, refs, inUse, dataEvent, spaceEvent,
                 nextSeq, pchunk, psignal, presume, pslot, ppos, ptail, subLocal>>

ReapPush ==
  /\ ppc = "reapPush"
  /\ tail' = pchunk
  /\ ppos' = AdvanceRead(ppos)
  /\ pchunk' = NoChunk /\ ptail' = NoChunk
  /\ ppc' = "reap"
  /\ UNCHANGED <<rd, wr, ring, head, word, seqOf, refs, inUse, dataEvent, spaceEvent,
                 nextSeq, psignal, presume, pslot, subLocal>>

ReapEnd ==
  /\ ppc = "reap" /\ Reaped
  /\ rd' = [rd EXCEPT ![pslot] = InvalidIndex]
  /\ spc' = [spc EXCEPT ![pslot] = "absent"]
  /\ pslot' = NoSlot /\ ppos' = 0
  /\ ppc' = "control"
  /\ UNCHANGED <<wr, ring, freeList, seqOf, refs, inUse, dataEvent, spaceEvent, nextSeq,
                 pchunk, psignal, presume, ptail, local, batch, expected,
                 stail, joined>>

\* recvmsg reports EAGAIN
ControlDone ==
  /\ ppc = "control"
  /\ ppc' = presume
  /\ presume' = "idle"
  /\ UNCHANGED <<shared, dataEvent, spaceEvent, nextSeq, pchunk, psignal,
                 pslot, ppos, ptail, subLocal>>

-----------------------------------------------------------------------------
(* The subscriber: handle_data_available_event, consume_contiguous_messages *)
(* and read_data                                                            *)

DataEvent(s) ==
  /\ spc[s] = "idle" /\ dataEvent[s]
  /\ dataEvent' = [dataEvent EXCEPT ![s] = FALSE]
  /\ local' = [local EXCEPT ![s] = IF @ = InvalidIndex THEN rd[s] ELSE @]
  /\ spc' = [spc EXCEPT ![s] = "wrapped"]
  /\ UNCHANGED <<shared, spaceEvent, pubLocal, batch, expected, stail, joined>>

\* The indices are taken to start at one.  (mutant)
DescriptorsFromOne(from, to) == [k \in 1 .. to - from |-> ring[(from + k) % SlotCount]]

\* The descriptors [from, to) of the ring.
Descriptors(from, to) == [k \in 1 .. to - from |-> ring[from + k - 1]]

LoadWrapped(s) ==
  /\ spc[s] = "wrapped"
  /\ IF local[s] > wr
       THEN /\ batch' = [batch EXCEPT ![s] = Descriptors(local[s], SlotCount)]
            /\ spc' = [spc EXCEPT ![s] = "read"]
       ELSE /\ spc' = [spc EXCEPT ![s] = "contiguous"]
            /\ UNCHANGED batch
  /\ UNCHANGED <<shared, dataEvent, spaceEvent, pubLocal, local, expected, stail, joined>>

LoadContiguous(s) ==
  /\ spc[s] = "contiguous"
  /\ IF wr > local[s]
       THEN /\ batch' = [batch EXCEPT ![s] = Descriptors(local[s], wr)]
            /\ spc' = [spc EXCEPT ![s] = "read"]
       ELSE /\ spc' = [spc EXCEPT ![s] = "idle"]
            /\ UNCHANGED batch
  /\ UNCHANGED <<shared, dataEvent, spaceEvent, pubLocal, local, expected, stail, joined>>

Current(s) == Head(batch[s])

\* The magic and the sequence number read_data insists on.
Readable(s) ==
  /\ word[Current(s)] = Magic
  /\ expected[s] \in {NoSeq, seqOf[Current(s)]}

\* The payload is copied or handed to the callback.
Deliver(s) ==
  /\ spc[s] = "read"
  /\ IF Readable(s)
       THEN /\ expected' = [expected EXCEPT ![s] = seqOf[Current(s)] + 1]
            /\ spc' = [spc EXCEPT ![s] = "callback"]
       ELSE /\ spc' = [spc EXCEPT ![s] = "failed"]
            /\ UNCHANGED expected
  /\ UNCHANGED <<shared, dataEvent, spaceEvent, pubLocal, local, batch, stail, joined>>

\* fetch_and(~bit), then the local index moves on
ClearBit(s) ==
  LET c == Current(s) IN
  /\ spc[s] = "callback"
  /\ refs' = [refs EXCEPT ![c] = @ \ {s}]
  /\ local' = [local EXCEPT ![s] = AdvanceRead(@)]
  /\ spc' = [spc EXCEPT ![s] = IF LastHolder(c, s) THEN "storeLast" ELSE "store"]
  /\ UNCHANGED <<rd, wr, ring, freeList, seqOf, inUse, dataEvent, spaceEvent, pubLocal,
                 batch, expected, stail, joined>>

\* The part after the wrap waits for the next data event.  (mutant)
AfterMessageOnce(s) == IF Len(batch[s]) = 1 THEN "idle" ELSE "read"

\* read_data's loop moves on to the next descriptor, or returns.
AfterMessage(s) == IF Len(batch[s]) = 1 THEN "contiguous" ELSE "read"

StoreIndex(s) ==
  /\ spc[s] = "store"
  /\ rd' = [rd EXCEPT ![s] = local[s]]
  /\ batch' = [batch EXCEPT ![s] = Tail(@)]
  /\ spc' = [spc EXCEPT ![s] = AfterMessage(s)]
  /\ UNCHANGED <<wr, ring, freeList, seqOf, refs, inUse, dataEvent, spaceEvent, pubLocal,
                 local, expected, stail, joined>>

StoreIndexLast(s) ==
  /\ spc[s] = "storeLast"
  /\ rd' = [rd EXCEPT ![s] = local[s]]
  /\ spc' = [spc EXCEPT ![s] = "release"]
  /\ UNCHANGED <<wr, ring, freeList, seqOf, refs, inUse, dataEvent, spaceEvent, pubLocal,
                 local, batch, expected, stail, joined>>

\* The double-free check, then the load of the tail.
Release(s) ==
  LET c == Current(s) IN
  /\ spc[s] = "release"
  /\ inUse' = [inUse EXCEPT ![c] = FALSE]
  /\ stail' = [stail EXCEPT ![s] = tail]
  /\ spc' = [spc EXCEPT ![s] = IF inUse[c] THEN "link" ELSE "failed"]
  /\ UNCHANGED <<rd, wr, ring, freeList, seqOf, refs, dataEvent, spaceEvent, pubLocal,
                 local, batch, expected, joined>>

Link(s) ==
  /\ spc[s] = "link"
  /\ word' = Linked(stail[s], Current(s))
  /\ spc' = [spc EXCEPT ![s] = "push"]
  /\ UNCHANGED <<rd, wr, ring, head, tail, seqOf, refs, inUse, dataEvent, spaceEvent,
                 pubLocal, local, batch, expected, stail, joined>>

Push(s) ==
  /\ spc[s] = "push"
  /\ tail' = Current(s)
  /\ stail' = [stail EXCEPT ![s] = NoChunk]
  /\ spc' = [spc EXCEPT ![s] = "notify"]
  /\ UNCHANGED <<rd, wr, ring, head, word, seqOf, refs, inUse, dataEvent, spaceEvent,
                 pubLocal, local, batch, expected, joined>>

SignalSpace(s) ==
  /\ spc[s] = "notify"
  /\ spaceEvent' = TRUE
  /\ batch' = [batch EXCEPT ![s] = Tail(@)]
  /\ spc' = [spc EXCEPT ![s] = AfterMessage(s)]
  /\ UNCHANGED <<shared, dataEvent, pubLocal, local, expected, stail, joined>>

\* The process ends: killed, returning from main, or destroying its Subscriber.
\* Destroying it joins the worker first, so that happens between two calls.
Leave(s) ==
  /\ \/ spc[s] \in {"idle", "failed"}
     \/ CrashMidRead /\ Alive(s)
  /\ spc' = [spc EXCEPT ![s] = "dead"]
  /\ dataEvent' = [dataEvent EXCEPT ![s] = FALSE]
  /\ batch' = [batch EXCEPT ![s] = <<>>]
  /\ local' = [local EXCEPT ![s] = InvalidIndex]
  /\ expected' = [expected EXCEPT ![s] = NoSeq]
  /\ stail' = [stail EXCEPT ![s] = NoChunk]
  /\ joined' = [joined EXCEPT ![s] = 0]
  /\ UNCHANGED <<shared, spaceEvent, pubLocal>>

-----------------------------------------------------------------------------
PublishStep ==
  \/ ScanRing \/ FreeListEmpty \/ TakeChunk \/ WriteMessage \/ Commit
  \/ SpaceEvent \/ EventsDone
  \/ \E s \in Slots : SignalData(s)

ReapStep == ReapKeep \/ ReapRelease \/ ReapLink \/ ReapPush \/ ReapEnd

SubscriberStep(s) ==
  \/ DataEvent(s) \/ LoadWrapped(s) \/ LoadContiguous(s) \/ Deliver(s)
  \/ ClearBit(s) \/ StoreIndex(s) \/ StoreIndexLast(s)
  \/ Release(s) \/ Link(s) \/ Push(s) \/ SignalSpace(s)

Next ==
  \/ PublishCall \/ PublishStep \/ WaitTimeout \/ ReapStep \/ ControlDone
  \/ \E s \in Slots : Track(s) \/ ReapBegin(s) \/ SubscriberStep(s) \/ Leave(s)

Spec == Init /\ [][Next]_vars

(***************************************************************************)
(* Threads keep running; the broker reports every death; recvmsg finds the *)
(* control socket empty again and again.  Nothing makes the application    *)
(* call publish(), a subscriber come or go, or a timeout expire.           *)
(***************************************************************************)
Fairness ==
  /\ WF_vars(PublishStep) /\ WF_vars(ReapStep) /\ SF_vars(ControlDone)
  /\ \A s \in Slots : WF_vars(SubscriberStep(s)) /\ WF_vars(ReapBegin(s))

FairSpec == Spec /\ Fairness

-----------------------------------------------------------------------------
(* Properties *)

SharedTypeOK ==
  /\ rd \in [Slots -> Index \cup {InvalidIndex}]
  /\ wr \in Index
  /\ ring \in [Index -> Chunk]
  /\ head \in Word /\ tail \in Chunk
  /\ word \in [Chunk -> Word]
  /\ seqOf \in [Chunk -> 0 .. MaxSeq]
  /\ refs \in [Chunk -> SUBSET Slots]
  /\ inUse \in [Chunk -> BOOLEAN]
  /\ dataEvent \in [Slots -> BOOLEAN] /\ spaceEvent \in BOOLEAN

PublisherTypeOK ==
  /\ ppc \in PubPc
  /\ nextSeq \in 0 .. MaxSeq
  /\ pchunk \in Chunk /\ ptail \in Chunk
  /\ psignal \subseteq Slots
  /\ presume \in {"idle", "scan"}
  /\ pslot \in Slots /\ ppos \in Index

SubscriberTypeOK ==
  /\ spc \in [Slots -> SubPc]
  /\ local \in [Slots -> Index \cup {InvalidIndex}]
  /\ batch \in [Slots -> Seq(Chunk)]
  /\ expected \in [Slots -> {NoSeq} \cup 1 .. MaxSeq + 1]
  /\ stail \in [Slots -> Chunk]
  /\ joined \in [Slots -> 0 .. MaxSeq]

\* The processes' variables hold values of their types: the free list's tail is
\* always a chunk, the indices are indices of the ring, no sequence number runs
\* past the messages published.
TypeOK == SharedTypeOK /\ PublisherTypeOK /\ SubscriberTypeOK

\* Messages whose descriptor the write index has passed.
Committed == IF ppc = "commit" THEN nextSeq - 1 ELSE nextSeq

\* The sequence number a subscriber wants next, and the one at its read index.
Position(s) == IF expected[s] = NoSeq THEN joined[s] ELSE expected[s]
AtReadIndex(s) == Committed - Backlog(rd[s], wr)

(***************************************************************************)
(* The write index never laps a read index: the descriptor a subscriber    *)
(* reads next is that of the message it expects next, or of the one it is  *)
(* busy with.  This is what try_publish_one's backpressure test is for, and *)
(* what Publisher::track_subscriber gives a late joiner.                   *)
(***************************************************************************)
NoLap ==
  \A s \in {t \in Slots : Alive(t)} :
    LET ahead == Position(s) - AtReadIndex(s) IN
    ahead = IF spc[s] \in {"callback", "store", "storeLast"} THEN 1 ELSE 0

\* Descriptors s has not passed, without the one whose bit it has cleared.
Unread(s) ==
  {i \in Index : Backlog(i, wr) \in 1 .. Backlog(rd[s], wr)} \
    (IF spc[s] \in {"store", "storeLast"} THEN {rd[s]} ELSE {})

(***************************************************************************)
(* What is waiting for a subscriber stays there: each unread descriptor    *)
(* points to a chunk that holds its message and the subscriber's bit, and  *)
(* that the tracker calls in use, however the other subscribers run, end   *)
(* or are reaped (try_publish_one, read_data, reap_dead_subscribers).      *)
(***************************************************************************)
UnreadIsHeld ==
  \A s \in Slots : Alive(s) =>
    \A i \in Unread(s) :
      /\ s \in refs[ring[i]]
      /\ inUse[ring[i]]
      /\ seqOf[ring[i]] = Committed - Backlog(i, wr)

\* The chunks that somebody has cleared the last bit of and is giving back.
Releasing == {s \in Slots : spc[s] \in {"storeLast", "release", "link", "push"}}
ReaperReleasing == ppc \in {"reapLink", "reapPush"}

(***************************************************************************)
(* The double-free checks of read_data and of                              *)
(* release_chunk_references_in_descriptor_range never fire, and fetch_add  *)
(* meets a zero count: a chunk with a bit set is in use and is not the one *)
(* being written.                                                          *)
(***************************************************************************)
CountIsZero ==
  /\ \A c \in Chunk : refs[c] # {} => inUse[c]
  /\ ppc = "write" => refs[pchunk] = {}
  /\ \A s \in Slots : spc[s] = "release" => inUse[Current(s)]

-----------------------------------------------------------------------------
(* The free list *)

(***************************************************************************)
(* At most one process at a time is between clearing the last bit of a     *)
(* chunk and storing the new tail, and what it gives back is held by       *)
(* nobody.  The push (load the tail, write the next offset, store the      *)
(* tail: subscriber.cpp:506-508 and publisher.cpp:748-750) is not atomic   *)
(* and takes no lock.  It is sound because fetch_and elects one last       *)
(* holder, and because whoever gives a chunk back still holds every later  *)
(* message, so nobody else can be the last holder of one of those.         *)
(***************************************************************************)
OnePusher ==
  /\ \A s, t \in Releasing : s = t
  /\ \A s \in Releasing : refs[Current(s)] = {}
  /\ ReaperReleasing => Releasing = {} /\ refs[pchunk] = {}

\* The list as the publisher would pop it, up to the tail.
Walk[k \in 0 .. ChunkCount] ==
  IF k = 0 THEN head
  ELSE LET c == Walk[k - 1] IN
       IF c \in Chunk /\ c # tail THEN word[c] ELSE c

OnFreeList == {Walk[k] : k \in 0 .. ChunkCount}

\* Chunks a process has popped and not announced, or is giving back.
InHand ==
  {Current(s) : s \in Releasing}
    \cup (IF ppc = "write" \/ ReaperReleasing THEN {pchunk} ELSE {})

(***************************************************************************)
(* No chunk leaks: the free list from head to tail is made of all chunks   *)
(* that no subscriber holds and no process has in hand.                    *)
(***************************************************************************)
FreeListComplete ==
  /\ tail \in OnFreeList
  /\ OnFreeList = {c \in Chunk : refs[c] = {}} \ InHand

(***************************************************************************)
(* The list leads from head to tail through chunks nobody holds, even      *)
(* after a subscriber has died while it was pushing one.                   *)
(***************************************************************************)
FreeListSound ==
  /\ tail \in OnFreeList
  /\ OnFreeList \subseteq {c \in Chunk : ~inUse[c] /\ refs[c] = {}}

\* The run-time checks that end the worker or fail publish() and subscribe()
\* never find anything (LOG_FATAL in try_publish_one and read_data).
NobodyFails == ppc # "failed" /\ \A s \in Slots : spc[s] # "failed"

-----------------------------------------------------------------------------
(* Refinement *)

LogPosition == [s \in Slots |-> CASE spc[s] = "absent" -> -1
                                  [] spc[s] = "dead" -> -2
                                  [] OTHER -> Position(s)]

Log == INSTANCE MessageLog WITH
  Subscribers <- Slots,
  Capacity <- SlotCount - 1,
  published <- Committed,
  position <- LogPosition

(***************************************************************************)
(* The data plane implements MessageLog: read_data hands a subscriber the  *)
(* messages from the one published first after track_subscriber, in order, *)
(* none twice and none left out, and a publish succeeds only with a slot   *)
(* in use and room for every subscriber.                                   *)
(***************************************************************************)
ImplementsLog == Log!Spec

-----------------------------------------------------------------------------
(* Liveness *)

(***************************************************************************)
(* No data wake-up is lost: again and again a subscriber has read all that *)
(* is published, unless it ends.  The publisher stores the write index and *)
(* then signals; the subscriber drains the eventfd and then loads the      *)
(* index.  (MaxSeq ends the publishing, so nobody need overtake it.)       *)
(***************************************************************************)
EveryMessageArrives ==
  \A s \in Slots : []<>(~Alive(s) \/ Position(s) = Committed)

(***************************************************************************)
(* No space wake-up is lost: publish() does not stay blocked on a full     *)
(* ring or an empty free list while it has a subscriber, though only the   *)
(* last holder of a chunk signals it, and a holder that is not the last    *)
(* moves its read index without a signal.  Nor is one lost when a call has *)
(* timed out, and left events of its batch ("late") for the next.  No call *)
(* has to time out, so one that can only wait must be woken.               *)
(***************************************************************************)
BlockedPublisherResumes == []<>(ppc \in {"idle", "late"} \/ \A s \in Slots : ~Alive(s))

=============================================================================
