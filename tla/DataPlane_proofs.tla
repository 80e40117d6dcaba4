-------------------------- MODULE DataPlane_proofs --------------------------
(***************************************************************************)
(* Proofs about DataPlane, for any number of slots, descriptors, chunks    *)
(* and messages, in both modes, with subscribers that may die anywhere.    *)
(***************************************************************************)
EXTENDS DataPlane, TLAPS

-----------------------------------------------------------------------------
(* The index arithmetic, for every ring size. *)

\* The publisher's index moves to the next descriptor and wraps at the end.
LEMMA AdvanceWriteValue ==
  ASSUME NEW w \in Index
  PROVE  AdvanceWrite(w) = IF w = SlotCount - 1 THEN 0 ELSE w + 1
<1>1. CASE w = SlotCount - 1
  BY <1>1, SlotCountAssumption, SMT DEF AdvanceWrite, Index
<1>2. CASE w # SlotCount - 1
  BY <1>2, SlotCountAssumption, SMT DEF AdvanceWrite, Index
<1> QED BY <1>1, <1>2

\* A subscriber's index does the same.
LEMMA AdvanceReadValue ==
  ASSUME NEW i \in Index
  PROVE  AdvanceRead(i) = IF i = SlotCount - 1 THEN 0 ELSE i + 1
BY SlotCountAssumption, SMT DEF AdvanceRead, Index

\* A backlog is less than the ring.
LEMMA BacklogRange ==
  ASSUME NEW i \in Index, NEW w \in Index
  PROVE  /\ Backlog(i, w) \in 0 .. SlotCount - 1
         /\ Backlog(i, w) = 0 <=> i = w
BY SlotCountAssumption DEF Backlog, Index

(***************************************************************************)
(* The backpressure test of try_publish_one: if it lets the publisher go   *)
(* on, no subscriber is more than SlotCount - 2 descriptors behind.        *)
(***************************************************************************)
THEOREM AvailableLeavesRoom ==
  ASSUME NEW w \in Index, NEW T,
         NEW read \in [T -> Index \cup {InvalidIndex}],
         DescriptorAvailable(read, w)
  PROVE  \A s \in InUse(read) : Backlog(read[s], w) <= SlotCount - 2
<1>1. PICK m \in Index : IsSlowestReadIndex(m, read, w) /\ ~RingFull(m, w)
  BY DEF DescriptorAvailable
<1>2. \A s \in InUse(read) : s \in T /\ read[s] \in Index
  BY DEF InUse
<1>3. CASE BeforeWrap(read, w) # {}
  <2>1. m > w /\ \A s \in BeforeWrap(read, w) : m <= read[s]
    BY <1>1, <1>3 DEF IsSlowestReadIndex, SlowestGroup, BeforeWrap
  <2>2. m >= w + 2
    BY <2>1, <1>1, SlotCountAssumption DEF RingFull, Index
  <2> SUFFICES ASSUME NEW s \in InUse(read)
               PROVE  Backlog(read[s], w) <= SlotCount - 2
    OBVIOUS
  <2>3. CASE read[s] > w
    <3>1. m <= read[s]
      BY <2>1, <2>3 DEF BeforeWrap
    <3> QED BY <3>1, <2>2, <2>3, <1>2, SlotCountAssumption DEF Backlog, Index
  <2>4. CASE read[s] <= w
    BY <2>4, <2>2, <1>2, SlotCountAssumption DEF Backlog, Index
  <2> QED BY <2>3, <2>4, <1>2, SlotCountAssumption DEF Index
<1>4. CASE BeforeWrap(read, w) = {}
  <2>1. \A s \in InUse(read) : m <= read[s]
    BY <1>1, <1>4 DEF IsSlowestReadIndex, SlowestGroup
  <2>2. \A s \in InUse(read) : read[s] <= w
    BY <1>2, <1>4, SlotCountAssumption DEF BeforeWrap, Index
  <2>3. w + 1 < m + SlotCount
    BY <1>1, SlotCountAssumption DEF RingFull, Index
  <2> QED BY <1>2, <2>1, <2>2, <2>3, SlotCountAssumption DEF Backlog, Index
<1> QED BY <1>3, <1>4

\* A publish puts every reader that has room one further behind, and none is
\* lapped.
LEMMA PublishGrowsBacklog ==
  ASSUME NEW i \in Index, NEW w \in Index, Backlog(i, w) <= SlotCount - 2
  PROVE  /\ AdvanceWrite(w) \in Index
         /\ Backlog(i, AdvanceWrite(w)) = Backlog(i, w) + 1
BY AdvanceWriteValue, SlotCountAssumption DEF Backlog, Index

\* A reader that moves on is one less behind.
LEMMA ReadShrinksBacklog ==
  ASSUME NEW i \in Index, NEW w \in Index, i # w
  PROVE  /\ AdvanceRead(i) \in Index
         /\ Backlog(AdvanceRead(i), w) = Backlog(i, w) - 1
BY AdvanceReadValue, SlotCountAssumption DEF Backlog, Index

\* Two descriptors that are as far behind the write index are the same one.
LEMMA BacklogInjective ==
  ASSUME NEW i \in Index, NEW j \in Index, NEW w \in Index,
         Backlog(i, w) = Backlog(j, w)
  PROVE  i = j
BY SlotCountAssumption DEF Backlog, Index

\* Behind the new write index are the descriptors that were behind the old one
\* and the one it has just passed.
LEMMA BehindNewWrite ==
  ASSUME NEW i \in Index, NEW w \in Index, Backlog(i, AdvanceWrite(w)) >= 1
  PROVE  Backlog(i, w) = Backlog(i, AdvanceWrite(w)) - 1
BY AdvanceWriteValue, SlotCountAssumption DEF Backlog, Index

-----------------------------------------------------------------------------
(* The cursors. *)

Busy == {"read", "callback", "store", "storeLast"}
Done == {"release", "link", "push", "notify"}
Reaping == {"reap", "reapLink", "reapPush"}

(***************************************************************************)
(* The publisher's half of the cursor invariant: it is inside a publish()  *)
(* only with a message left to write, it is past the backpressure test     *)
(* only while every reader has room, and it reaps a dead subscriber's      *)
(* window from its read index towards the write index.                     *)
(***************************************************************************)
PublisherInv ==
  /\ ppc \in {"scan", "alloc", "write", "wait", "events"} => nextSeq < MaxSeq
  /\ ppc \in {"control"} \cup Reaping /\ presume = "scan" => nextSeq < MaxSeq
  /\ ppc = "commit" => nextSeq >= 1
  /\ ppc \in {"alloc", "write", "commit"} =>
       \A s \in Tracked : Backlog(rd[s], wr) <= SlotCount - 2
  /\ ppc \in Reaping => spc[pslot] = "dead"

(***************************************************************************)
(* A subscriber's half: its own index is the shared one, or one ahead      *)
(* between fetch_and and the store, and the descriptors it has copied are  *)
(* the first ones of its window.                                           *)
(***************************************************************************)
SlotInv(s) ==
  /\ spc[s] = "absent" <=> rd[s] = InvalidIndex
  /\ spc[s] \in {"absent", "dead"} => local[s] = InvalidIndex /\ expected[s] = NoSeq
  /\ spc[s] \in {"idle", "failed"} => local[s] \in {InvalidIndex, rd[s]}
  /\ spc[s] \in {"wrapped", "contiguous", "read", "callback"} \cup Done
       => local[s] = rd[s]
  /\ spc[s] \in {"store", "storeLast"} => local[s] = AdvanceRead(rd[s])
  /\ spc[s] \in Busy =>
       /\ Len(batch[s]) >= 1
       /\ Len(batch[s]) <= Backlog(rd[s], wr)
       /\ rd[s] + Len(batch[s]) <= SlotCount
       /\ \A k \in 1 .. Len(batch[s]) : batch[s][k] = ring[rd[s] + k - 1]
  /\ spc[s] \in Done =>
       /\ Len(batch[s]) >= 1
       /\ Len(batch[s]) - 1 <= Backlog(rd[s], wr)
       /\ rd[s] + Len(batch[s]) - 1 <= SlotCount
       /\ \A k \in 2 .. Len(batch[s]) : batch[s][k] = ring[rd[s] + k - 2]

CursorInv == TypeOK /\ PublisherInv /\ \A s \in Slots : SlotInv(s)

USE SlotsAssumption, ChunkCountAssumption, MaxSeqAssumption, ModeAssumption,
    SlotCountAssumption

LEMMA CursorInit == Init => CursorInv
<1> SUFFICES ASSUME Init PROVE CursorInv
  OBVIOUS
<1>1. TypeOK
  <2>1. NoSlot \in Slots /\ NoChunk \in Chunk
    BY DEF NoSlot, NoChunk, Chunk
  <2>2. /\ rd \in [Slots -> Index \cup {InvalidIndex}]
        /\ spc \in [Slots -> SubPc]
    BY DEF Init, Index, InvalidIndex, SubPc
  <2>3. /\ ring \in [Index -> Chunk] /\ wr \in Index
        /\ head \in Word /\ tail \in Chunk
        /\ word \in [Chunk -> Word]
        /\ seqOf \in [Chunk -> 0 .. MaxSeq]
        /\ refs \in [Chunk -> SUBSET Slots]
        /\ inUse \in [Chunk -> BOOLEAN]
    BY DEF Init, Index, Chunk, Word, EndOfList
  <2>4. batch \in [Slots -> Seq(Chunk)]
    BY DEF Init
  <2> QED
    BY <2>1, <2>2, <2>3, <2>4 DEF Init, TypeOK, SharedTypeOK, PublisherTypeOK,
           SubscriberTypeOK, Index, InvalidIndex, PubPc, NoSeq
<1>2. PublisherInv
  BY DEF Init, PublisherInv, Reaping
<1>3. \A s \in Slots : SlotInv(s)
  BY DEF Init, SlotInv, Busy, Done, Index, InvalidIndex
<1> QED BY <1>1, <1>2, <1>3 DEF CursorInv

\* Types of the values the actions assign.
LEMMA Values ==
  /\ NoChunk \in Chunk /\ NoSlot \in Slots /\ 0 \in Index
  /\ Chunk \subseteq Word /\ Magic \in Word
  /\ InvalidIndex \notin Index
  /\ \A i \in Index : AdvanceWrite(i) \in Index /\ AdvanceRead(i) \in Index
<1>1. \A i \in Index : AdvanceWrite(i) \in Index /\ AdvanceRead(i) \in Index
  BY AdvanceWriteValue, AdvanceReadValue DEF Index
<1> QED BY <1>1 DEF NoChunk, NoSlot, Chunk, Word, Magic, Index, InvalidIndex

\* Inside read_data there is a descriptor, and it names a chunk.
LEMMA BatchTypes ==
  ASSUME CursorInv, NEW s \in Slots, spc[s] \in Busy \cup Done
  PROVE  /\ batch[s] \in Seq(Chunk) /\ Len(batch[s]) >= 1
         /\ Current(s) \in Chunk
         /\ Tail(batch[s]) \in Seq(Chunk)
<1>1. batch[s] \in Seq(Chunk)
  BY DEF CursorInv, TypeOK, SubscriberTypeOK
<1>2. Len(batch[s]) >= 1
  BY DEF CursorInv, SlotInv
<1> HIDE DEF Chunk
<1> QED BY <1>1, <1>2 DEF Current

\* A descriptor range of the ring is a sequence of chunks.
LEMMA DescriptorsType ==
  ASSUME CursorInv, NEW from \in Index, NEW to \in from .. SlotCount
  PROVE  /\ Descriptors(from, to) \in Seq(Chunk)
         /\ Len(Descriptors(from, to)) = to - from
         /\ \A k \in 1 .. to - from : Descriptors(from, to)[k] = ring[from + k - 1]
<1>1. \A k \in 1 .. to - from : from + k - 1 \in Index
  BY DEF Index
<1>2. ring \in [Index -> Chunk]
  BY DEF CursorInv, TypeOK, SharedTypeOK
<1>3. \A k \in 1 .. to - from : ring[from + k - 1] \in Chunk
  BY <1>1, <1>2
<1>4. to - from \in Nat
  BY DEF Index
<1> QED BY <1>3, <1>4 DEF Descriptors

LEMMA SharedTypeStep == CursorInv /\ [Next]_vars => SharedTypeOK'
<1> SUFFICES ASSUME CursorInv, [Next]_vars PROVE SharedTypeOK'
  OBVIOUS
<1>0. SharedTypeOK /\ PublisherTypeOK /\ SubscriberTypeOK
  BY DEF CursorInv, TypeOK
<1> USE <1>0, Values DEF SharedTypeOK, shared, freeList
<1>1. CASE UNCHANGED <<shared, dataEvent, spaceEvent>>
  BY <1>1
<1>2. CASE TakeChunk
  <2>1. CASE HeadUsable
    <3>1. head \in Chunk /\ word[head] \in Word
      BY <2>1 DEF HeadUsable
    <3>2. /\ inUse' = [inUse EXCEPT ![head] = TRUE] /\ head' = word[head]
          /\ UNCHANGED <<rd, wr, ring, tail, word, seqOf, refs, dataEvent, spaceEvent>>
      BY <1>2, <2>1 DEF TakeChunk
    <3> QED BY <3>1, <3>2
  <2>2. CASE ~HeadUsable
    BY <1>2, <2>2 DEF TakeChunk
  <2> QED BY <2>1, <2>2
<1>3. CASE WriteMessage
  <2>1. nextSeq \in 0 .. MaxSeq /\ pchunk \in Chunk /\ Tracked \subseteq Slots
    BY DEF PublisherTypeOK, Tracked, InUse
  <2> QED BY <1>3, <2>1 DEF WriteMessage
<1>4. CASE Commit
  BY <1>4 DEF Commit
<1>5. CASE ReapKeep
  BY <1>5 DEF ReapKeep
<1>6. CASE ReapRelease
  BY <1>6 DEF ReapRelease
<1>7. CASE ReapLink \/ ReapPush \/ ReapEnd
  BY <1>7 DEF ReapLink, ReapPush, ReapEnd, PublisherTypeOK, Linked
<1>8. CASE SpaceEvent
  BY <1>8 DEF SpaceEvent
<1>9. ASSUME NEW s \in Slots, SignalData(s) \/ DataEvent(s) \/ Leave(s)
      PROVE  SharedTypeOK'
  BY <1>9 DEF SignalData, DataEvent, Leave, Alive
<1>10. ASSUME NEW s \in Slots, Track(s) \/ SignalSpace(s)
      PROVE  SharedTypeOK'
  BY <1>10 DEF Track, SignalSpace
<1>11. ASSUME NEW s \in Slots, StoreIndex(s) \/ StoreIndexLast(s)
      PROVE  SharedTypeOK'
  BY <1>11 DEF StoreIndex, StoreIndexLast, SubscriberTypeOK
<1>12. ASSUME NEW s \in Slots, ClearBit(s) \/ Release(s) \/ Link(s) \/ Push(s)
      PROVE  SharedTypeOK'
  <2>1. Current(s) \in Chunk
    BY <1>12, BatchTypes DEF ClearBit, Release, Link, Push, Busy, Done
  <2>2. stail[s] \in Chunk
    BY DEF SubscriberTypeOK
  <2>3. CASE ClearBit(s)
    BY <2>1, <2>3 DEF ClearBit
  <2>4. CASE Release(s)
    BY <2>1, <2>4 DEF Release
  <2>5. CASE Link(s) \/ Push(s)
    BY <2>1, <2>2, <2>5 DEF Link, Push, Linked
  <2> QED BY <1>12, <2>3, <2>4, <2>5
<1> QED
  BY <1>1, <1>2, <1>3, <1>4, <1>5, <1>6, <1>7, <1>8, <1>9, <1>10, <1>11, <1>12
  DEF Next, vars, PublishStep, ReapStep, SubscriberStep, PublishCall, ScanRing,
      FreeListEmpty, WaitTimeout, EventsDone, ControlDone, ReapBegin,
      LoadWrapped, LoadContiguous, Deliver

LEMMA PublisherTypeStep == CursorInv /\ [Next]_vars => PublisherTypeOK'
<1> SUFFICES ASSUME CursorInv, [Next]_vars PROVE PublisherTypeOK'
  OBVIOUS
<1>0. SharedTypeOK /\ PublisherTypeOK
  BY DEF CursorInv, TypeOK
<1> USE <1>0, Values DEF PublisherTypeOK, PubPc
<1>1. CASE UNCHANGED pubLocal
  BY <1>1 DEF pubLocal
<1>2. CASE PublishCall \/ ScanRing \/ FreeListEmpty \/ SpaceEvent
           \/ WaitTimeout \/ EventsDone \/ ControlDone
  BY <1>2 DEF PublishCall, ScanRing, FreeListEmpty, SpaceEvent,
              WaitTimeout, EventsDone, ControlDone
<1>3. CASE TakeChunk
  BY <1>3 DEF TakeChunk, HeadUsable
<1>4. CASE WriteMessage
  <2>1. nextSeq < MaxSeq
    BY <1>4 DEF CursorInv, PublisherInv, WriteMessage
  <2> QED BY <1>4, <2>1 DEF WriteMessage
<1>5. CASE Commit
  BY <1>5 DEF Commit, Tracked, InUse, SharedTypeOK
<1>6. CASE ReapKeep \/ ReapLink
  BY <1>6 DEF ReapKeep, ReapLink
<1>7. CASE ReapRelease
  BY <1>7 DEF ReapRelease, SharedTypeOK
<1>8. CASE ReapPush \/ ReapEnd
  BY <1>8 DEF ReapPush, ReapEnd
<1>9. ASSUME NEW s \in Slots, SignalData(s) PROVE PublisherTypeOK'
  BY <1>9 DEF SignalData
<1>10. ASSUME NEW s \in Slots, Track(s) PROVE PublisherTypeOK'
  BY <1>10 DEF Track, ResumeAt
<1>11. ASSUME NEW s \in Slots, ReapBegin(s) PROVE PublisherTypeOK'
  BY <1>11 DEF ReapBegin, ResumeAt, SharedTypeOK
<1> QED
  BY <1>1, <1>2, <1>3, <1>4, <1>5, <1>6, <1>7, <1>8, <1>9, <1>10, <1>11
  DEF Next, vars, PublishStep, ReapStep, SubscriberStep, DataEvent, LoadWrapped,
      LoadContiguous, Deliver, ClearBit, StoreIndex, StoreIndexLast,
      Release, Link, Push, SignalSpace, Leave

LEMMA SubscriberTypeStep == CursorInv /\ [Next]_vars => SubscriberTypeOK'
<1> SUFFICES ASSUME CursorInv, [Next]_vars PROVE SubscriberTypeOK'
  OBVIOUS
<1>0. SharedTypeOK /\ PublisherTypeOK /\ SubscriberTypeOK
  BY DEF CursorInv, TypeOK
<1> USE <1>0 DEF SubscriberTypeOK, SubPc
<1>1. CASE UNCHANGED subLocal
  BY <1>1 DEF subLocal
<1>2. CASE ReapEnd
  BY <1>2 DEF ReapEnd
<1>3. ASSUME NEW s \in Slots, Track(s) PROVE SubscriberTypeOK'
  BY <1>3 DEF Track, PublisherTypeOK
<1>4. ASSUME NEW s \in Slots, DataEvent(s) PROVE SubscriberTypeOK'
  BY <1>4 DEF DataEvent, SharedTypeOK
<1>5. ASSUME NEW s \in Slots, LoadWrapped(s) PROVE SubscriberTypeOK'
  <2>1. CASE local[s] > wr
    <3>1. local[s] \in Index
      BY <1>5 DEF LoadWrapped, CursorInv, SlotInv, SharedTypeOK, Index, InvalidIndex
    <3>2. Descriptors(local[s], SlotCount) \in Seq(Chunk)
      BY <3>1, DescriptorsType DEF Index
    <3> QED BY <1>5, <2>1, <3>2 DEF LoadWrapped
  <2>2. CASE ~(local[s] > wr)
    BY <1>5, <2>2 DEF LoadWrapped
  <2> QED BY <2>1, <2>2
<1>6. ASSUME NEW s \in Slots, LoadContiguous(s) PROVE SubscriberTypeOK'
  <2>1. CASE wr > local[s]
    <3>1. local[s] \in Index /\ wr \in local[s] .. SlotCount
      BY <2>1 DEF SharedTypeOK, Index, InvalidIndex
    <3>2. Descriptors(local[s], wr) \in Seq(Chunk)
      BY <3>1, DescriptorsType
    <3> QED BY <1>6, <2>1, <3>2 DEF LoadContiguous
  <2>2. CASE ~(wr > local[s])
    BY <1>6, <2>2 DEF LoadContiguous
  <2> QED BY <2>1, <2>2
<1>7. ASSUME NEW s \in Slots, Deliver(s) PROVE SubscriberTypeOK'
  <2>1. Current(s) \in Chunk
    BY <1>7, BatchTypes DEF Deliver, Busy
  <2>2. seqOf[Current(s)] + 1 \in 1 .. MaxSeq + 1
    BY <2>1 DEF SharedTypeOK
  <2> QED BY <1>7, <2>2, ZenonT(40) DEF Deliver
<1>8. ASSUME NEW s \in Slots, StoreIndexLast(s) \/ Link(s)
      PROVE  SubscriberTypeOK'
  BY <1>8 DEF StoreIndexLast, Link
<1>9. ASSUME NEW s \in Slots, ClearBit(s) PROVE SubscriberTypeOK'
  <2>1. AdvanceRead(local[s]) \in Index
    BY <1>9, Values DEF ClearBit, CursorInv, SlotInv, SharedTypeOK
  <2> QED BY <1>9, <2>1 DEF ClearBit
<1>10. ASSUME NEW s \in Slots, StoreIndex(s) PROVE SubscriberTypeOK'
  BY <1>10, BatchTypes DEF StoreIndex, Busy, AfterMessage
<1>11. ASSUME NEW s \in Slots, Release(s) PROVE SubscriberTypeOK'
  BY <1>11 DEF Release, SharedTypeOK
<1>12. ASSUME NEW s \in Slots, Push(s) PROVE SubscriberTypeOK'
  BY <1>12, Values DEF Push
<1>13. ASSUME NEW s \in Slots, SignalSpace(s) PROVE SubscriberTypeOK'
  BY <1>13, BatchTypes DEF SignalSpace, Done, AfterMessage
<1>14. ASSUME NEW s \in Slots, Leave(s) PROVE SubscriberTypeOK'
  BY <1>14, Values DEF Leave
<1> QED
  BY <1>1, <1>2, <1>3, <1>4, <1>5, <1>6, <1>7, <1>8, <1>9, <1>10, <1>11, <1>12,
     <1>13, <1>14
  DEF Next, vars, PublishStep, ReapStep, SubscriberStep, PublishCall, ScanRing,
      FreeListEmpty, TakeChunk, WriteMessage, Commit, SignalData,
      SpaceEvent, WaitTimeout, EventsDone, ReapBegin, ReapKeep, ReapRelease, ReapLink, ReapPush,
      ControlDone

\* A subscriber about to store its index has at least one descriptor to pass.
LEMMA StoreMovesOn ==
  ASSUME CursorInv, NEW s \in Slots, spc[s] \in {"store", "storeLast"}
  PROVE  /\ rd[s] \in Index /\ rd[s] # wr
         /\ local[s] = AdvanceRead(rd[s]) /\ local[s] \in Index
         /\ Backlog(local[s], wr) = Backlog(rd[s], wr) - 1
<1>1. SlotInv(s) /\ wr \in Index /\ rd[s] \in Index \cup {InvalidIndex}
  BY DEF CursorInv, TypeOK, SharedTypeOK
<1>2. rd[s] \in Index
  BY <1>1 DEF SlotInv
<1>3. Len(batch[s]) >= 1 /\ Len(batch[s]) <= Backlog(rd[s], wr)
  BY <1>1 DEF SlotInv, Busy
<1>4. Len(batch[s]) \in Nat
  BY BatchTypes DEF Busy
<1>5. rd[s] # wr
  BY <1>1, <1>2, <1>3, <1>4, BacklogRange
<1> QED BY <1>1, <1>2, <1>5, ReadShrinksBacklog DEF SlotInv

LEMMA PublisherStep == CursorInv /\ [Next]_vars => PublisherInv'
<1> SUFFICES ASSUME CursorInv, [Next]_vars PROVE PublisherInv'
  OBVIOUS
<1>0. PublisherInv /\ SharedTypeOK /\ PublisherTypeOK /\ SubscriberTypeOK
  BY DEF CursorInv, TypeOK
<1> USE <1>0 DEF PublisherInv, Tracked, Reaping
<1>1. CASE UNCHANGED <<shared, ppc, nextSeq, presume, pslot, spc>>
  BY <1>1 DEF shared
<1>2. CASE PublishCall
  BY <1>2 DEF PublishCall, shared, subLocal
<1>3. CASE ScanRing
  <2>1. DescriptorAvailable(rd, wr) =>
          \A s \in InUse(rd) : Backlog(rd[s], wr) <= SlotCount - 2
    BY AvailableLeavesRoom DEF SharedTypeOK
  <2> QED BY <1>3, <2>1 DEF ScanRing, shared, subLocal
<1>4. CASE FreeListEmpty \/ SpaceEvent \/ WaitTimeout \/ EventsDone
  BY <1>4 DEF FreeListEmpty, SpaceEvent, WaitTimeout, EventsDone, shared, subLocal
<1>5. CASE ControlDone
  BY <1>5 DEF ControlDone, PublisherTypeOK
<1>6. CASE TakeChunk
  BY <1>6 DEF TakeChunk, subLocal
<1>7. CASE WriteMessage
  BY <1>7 DEF WriteMessage, subLocal, PublisherTypeOK
<1>8. CASE Commit
  BY <1>8 DEF Commit
<1>9. CASE ReapKeep \/ ReapRelease \/ ReapLink \/ ReapPush
  BY <1>9 DEF ReapKeep, ReapRelease, ReapLink, ReapPush, subLocal
<1>10. CASE ReapEnd
  BY <1>10 DEF ReapEnd
<1>11. ASSUME NEW s \in Slots, SignalData(s) PROVE PublisherInv'
  BY <1>11 DEF SignalData
<1>12. ASSUME NEW s \in Slots, Track(s) PROVE PublisherInv'
  BY <1>12 DEF Track, ResumeAt, ControlPoint
<1>13. ASSUME NEW s \in Slots, ReapBegin(s) PROVE PublisherInv'
  BY <1>13 DEF ReapBegin, ResumeAt, ControlPoint, subLocal
<1>14. ASSUME NEW s \in Slots, StoreIndex(s) \/ StoreIndexLast(s) PROVE PublisherInv'
  <2>1. /\ rd' = [rd EXCEPT ![s] = local[s]]
        /\ UNCHANGED <<wr, pubLocal>>
        /\ spc[s] # "dead" /\ \A u \in Slots \ {s} : spc'[u] = spc[u]
    BY <1>14 DEF StoreIndex, StoreIndexLast, SubscriberTypeOK
  <2>2. /\ rd[s] \in Index /\ rd[s] # wr /\ local[s] \in Index
        /\ Backlog(local[s], wr) = Backlog(rd[s], wr) - 1
    BY <1>14, StoreMovesOn DEF StoreIndex, StoreIndexLast
  <2>3. Backlog(rd[s], wr) \in 0 .. SlotCount - 1
    BY <2>2, BacklogRange DEF SharedTypeOK
  <2>4. InUse(rd') \subseteq InUse(rd) /\ s \in InUse(rd)
    BY <2>1, <2>2, Values DEF InUse, SharedTypeOK
  <2>5. ASSUME ppc \in {"alloc", "write", "commit"}, NEW u \in InUse(rd')
        PROVE  Backlog(rd'[u], wr) <= SlotCount - 2
    <3>1. CASE u = s
      <4>1. rd'[s] = local[s] /\ Backlog(rd[s], wr) <= SlotCount - 2
        BY <2>1, <2>4, <2>5 DEF SharedTypeOK
      <4> QED BY <3>1, <4>1, <2>2, <2>3
    <3>2. CASE u # s
      BY <2>1, <2>4, <2>5, <3>2 DEF SharedTypeOK, InUse
    <3> QED BY <3>1, <3>2
  <2> QED BY <2>1, <2>5 DEF pubLocal, PublisherTypeOK
<1>15. ASSUME NEW s \in Slots,
              UNCHANGED <<rd, wr, pubLocal>>,
              Alive(s), \A u \in Slots \ {s} : spc'[u] = spc[u]
       PROVE  PublisherInv'
  BY <1>15 DEF pubLocal, Alive, PublisherTypeOK
<1>16. ASSUME NEW s \in Slots, SubscriberStep(s) \/ Leave(s),
              ~StoreIndex(s), ~StoreIndexLast(s)
       PROVE  UNCHANGED <<rd, wr, pubLocal>> /\ Alive(s)
              /\ \A u \in Slots \ {s} : spc'[u] = spc[u]
  BY <1>16 DEF SubscriberStep, DataEvent, LoadWrapped, LoadContiguous, Deliver,
               ClearBit, Release, Link, Push, SignalSpace, Leave, Alive,
               shared, SubscriberTypeOK
<1> QED
  BY <1>1, <1>2, <1>3, <1>4, <1>5, <1>6, <1>7, <1>8, <1>9, <1>10, <1>11, <1>12,
     <1>13, <1>14, <1>15, <1>16
  DEF Next, vars, PublishStep, ReapStep, pubLocal, subLocal

\* What SlotInv(t) depends on.
SlotView(t) == <<rd[t], spc[t], local[t], batch[t], expected[t]>>

LEMMA SlotUnchanged ==
  ASSUME NEW t \in Slots, SlotInv(t), UNCHANGED <<wr, ring, SlotView(t)>>
  PROVE  SlotInv(t)'
BY DEF SlotInv, SlotView, Busy, Done

\* The publisher fills the descriptor at wr, which is in nobody's window.
LEMMA SlotAfterWrite ==
  ASSUME CursorInv, WriteMessage, NEW t \in Slots
  PROVE  SlotInv(t)'
<1>1. /\ SlotInv(t) /\ wr \in Index /\ ring \in [Index -> Chunk]
      /\ rd[t] \in Index \cup {InvalidIndex}
      /\ batch[t] \in Seq(Chunk)
  BY DEF CursorInv, TypeOK, SharedTypeOK, SubscriberTypeOK
<1>2. /\ UNCHANGED <<wr, SlotView(t)>>
      /\ ring' = [ring EXCEPT ![wr] = pchunk]
  BY DEF WriteMessage, subLocal, SlotView
<1>3. ASSUME NEW i \in Index, i # wr PROVE ring'[i] = ring[i]
  BY <1>1, <1>2, <1>3
<1>4. ASSUME spc[t] \in Busy, NEW k \in 1 .. Len(batch[t])
      PROVE  batch[t][k] = ring'[rd[t] + k - 1]
  <2>1. /\ rd[t] \in Index /\ Len(batch[t]) \in Nat
        /\ Len(batch[t]) <= Backlog(rd[t], wr) /\ rd[t] + Len(batch[t]) <= SlotCount
        /\ batch[t][k] = ring[rd[t] + k - 1]
    BY <1>1, <1>4 DEF SlotInv, Busy
  <2>2. rd[t] + k - 1 \in Index /\ rd[t] + k - 1 # wr
    BY <1>1, <2>1, SMTT(60) DEF Backlog, Index
  <2> QED BY <1>3, <2>1, <2>2
<1>5. ASSUME spc[t] \in Done, NEW k \in 2 .. Len(batch[t])
      PROVE  batch[t][k] = ring'[rd[t] + k - 2]
  <2>1. /\ rd[t] \in Index /\ Len(batch[t]) \in Nat
        /\ Len(batch[t]) - 1 <= Backlog(rd[t], wr)
        /\ rd[t] + Len(batch[t]) - 1 <= SlotCount
        /\ batch[t][k] = ring[rd[t] + k - 2]
    BY <1>1, <1>5 DEF SlotInv, Done
  <2>2. rd[t] + k - 2 \in Index /\ rd[t] + k - 2 # wr
    BY <1>1, <2>1, SMTT(60) DEF Backlog, Index
  <2> QED BY <1>3, <2>1, <2>2
<1> QED BY <1>1, <1>2, <1>4, <1>5 DEF SlotInv, SlotView, Busy, Done

\* Moving the write index makes every window one longer.
LEMMA SlotAfterCommit ==
  ASSUME CursorInv, Commit, NEW t \in Slots
  PROVE  SlotInv(t)'
<1>1. /\ SlotInv(t) /\ wr \in Index
      /\ rd[t] \in Index \cup {InvalidIndex}
      /\ batch[t] \in Seq(Chunk)
  BY DEF CursorInv, TypeOK, SharedTypeOK, SubscriberTypeOK
<1>2. UNCHANGED <<ring, SlotView(t)>> /\ wr' = AdvanceWrite(wr)
  BY DEF Commit, subLocal, SlotView
<1>3. CASE rd[t] \in Index
  <2>1. t \in Tracked
    BY <1>3, Values DEF Tracked, InUse, CursorInv, TypeOK, SharedTypeOK
  <2>2. Backlog(rd[t], wr) <= SlotCount - 2
    BY <2>1 DEF CursorInv, PublisherInv, Commit
  <2>3. Backlog(rd[t], wr') = Backlog(rd[t], wr) + 1
    BY <1>1, <1>2, <1>3, <2>2, PublishGrowsBacklog
  <2>4. Backlog(rd[t], wr) \in Nat /\ Len(batch[t]) \in Nat
    BY <1>1, <1>3, BacklogRange DEF Index
  <2> HIDE DEF Index
  <2> QED BY <1>1, <1>2, <2>3, <2>4 DEF SlotInv, SlotView, Busy, Done
<1>4. CASE rd[t] = InvalidIndex
  BY <1>1, <1>2, <1>4 DEF SlotInv, SlotView, Busy, Done
<1> QED BY <1>1, <1>3, <1>4

\* A batch is copied from the read index on.
LEMMA SlotAfterLoad ==
  ASSUME CursorInv, NEW s \in Slots, LoadWrapped(s) \/ LoadContiguous(s)
  PROVE  SlotInv(s)'
<1>1. /\ SlotInv(s) /\ wr \in Index
      /\ rd[s] \in Index /\ local[s] = rd[s]
      /\ spc \in [Slots -> SubPc] /\ batch \in [Slots -> Seq(Chunk)]
  BY DEF CursorInv, TypeOK, SharedTypeOK, SubscriberTypeOK, SlotInv, LoadWrapped,
         LoadContiguous
<1>2. UNCHANGED <<rd, wr, ring, local, expected>>
  BY DEF LoadWrapped, LoadContiguous, shared
<1>3. ASSUME NEW to \in rd[s] + 1 .. SlotCount, to - rd[s] <= Backlog(rd[s], wr),
             batch' = [batch EXCEPT ![s] = Descriptors(local[s], to)],
             spc' = [spc EXCEPT ![s] = "read"]
      PROVE  SlotInv(s)'
  <2>1. to \in rd[s] .. SlotCount /\ to - rd[s] >= 1
    BY <1>1, <1>3 DEF Index
  <2>2. /\ Len(batch'[s]) = to - rd[s]
        /\ \A k \in 1 .. to - rd[s] : batch'[s][k] = ring[rd[s] + k - 1]
    BY <1>1, <1>3, <2>1, DescriptorsType
  <2>3. rd[s] + (to - rd[s]) <= SlotCount
    BY <1>1, <1>3 DEF Index
  <2>4. spc'[s] = "read" /\ rd'[s] = rd[s] /\ local'[s] = rd[s] /\ rd[s] # InvalidIndex
    BY <1>1, <1>2, <1>3, Values
  <2> HIDE DEF Index
  <2> QED BY <1>2, <1>3, <2>1, <2>2, <2>3, <2>4 DEF SlotInv, Busy, Done
<1>4. ASSUME LoadWrapped(s), local[s] > wr PROVE SlotInv(s)'
  <2>1. SlotCount \in rd[s] + 1 .. SlotCount /\ SlotCount - rd[s] <= Backlog(rd[s], wr)
    BY <1>1, <1>4 DEF Backlog, Index
  <2> QED BY <1>1, <1>3, <1>4, <2>1 DEF LoadWrapped
<1>5. ASSUME LoadContiguous(s), wr > local[s] PROVE SlotInv(s)'
  <2>1. wr \in rd[s] + 1 .. SlotCount /\ wr - rd[s] <= Backlog(rd[s], wr)
    BY <1>1, <1>5 DEF Backlog, Index
  <2> QED BY <1>1, <1>3, <1>5, <2>1 DEF LoadContiguous
<1>6. ASSUME spc'[s] \in {"contiguous", "idle"} PROVE SlotInv(s)'
  <2>1. rd'[s] = rd[s] /\ local'[s] = rd[s] /\ rd[s] # InvalidIndex
    BY <1>1, <1>2, Values
  <2> HIDE DEF Index
  <2> QED BY <1>6, <2>1 DEF SlotInv, Busy, Done
<1>7. CASE LoadWrapped(s)
  <2>1. ~(local[s] > wr) => spc'[s] = "contiguous"
    BY <1>1, <1>7 DEF LoadWrapped
  <2> QED BY <1>4, <1>6, <1>7, <2>1
<1>8. CASE LoadContiguous(s)
  <2>1. ~(wr > local[s]) => spc'[s] = "idle"
    BY <1>1, <1>8 DEF LoadContiguous
  <2> QED BY <1>5, <1>6, <1>8, <2>1
<1> QED BY <1>7, <1>8

\* fetch_and, then the local index: the shared one is now one behind.
LEMMA SlotAfterClear ==
  ASSUME CursorInv, NEW s \in Slots, ClearBit(s)
  PROVE  SlotInv(s)'
<1>1. /\ SlotInv(s) /\ rd[s] # InvalidIndex /\ spc[s] = "callback"
      /\ local \in [Slots -> Index \cup {InvalidIndex}] /\ spc \in [Slots -> SubPc]
  BY DEF CursorInv, TypeOK, SubscriberTypeOK, SlotInv, ClearBit
<1>2. /\ UNCHANGED <<rd, wr, ring, batch, expected>>
      /\ local'[s] = AdvanceRead(rd[s])
      /\ spc'[s] \in {"store", "storeLast"}
  BY <1>1 DEF ClearBit, SlotInv
<1> QED BY <1>1, <1>2 DEF SlotInv, Busy, Done

\* What is left of a batch when its first descriptor goes.
LEMMA BatchTail ==
  ASSUME CursorInv, NEW s \in Slots, Len(batch[s]) >= 1
  PROVE  /\ Tail(batch[s]) \in Seq(Chunk)
         /\ Len(batch[s]) \in Nat
         /\ Len(Tail(batch[s])) = Len(batch[s]) - 1
         /\ \A k \in 1 .. Len(batch[s]) - 1 : Tail(batch[s])[k] = batch[s][k + 1]
<1>1. batch[s] \in Seq(Chunk)
  BY DEF CursorInv, TypeOK, SubscriberTypeOK
<1> HIDE DEF Chunk
<1> QED BY <1>1

\* The window loses its first descriptor.
LEMMA SlotAfterStore ==
  ASSUME CursorInv, NEW s \in Slots, StoreIndex(s) \/ StoreIndexLast(s)
  PROVE  SlotInv(s)'
<1> DEFINE len == Len(batch[s])
           back == Backlog(rd[s], wr)
<1>1. /\ SlotInv(s) /\ rd \in [Slots -> Index \cup {InvalidIndex}] /\ wr \in Index
      /\ spc \in [Slots -> SubPc] /\ batch \in [Slots -> Seq(Chunk)]
      /\ spc[s] \in {"store", "storeLast"}
  BY DEF CursorInv, TypeOK, SharedTypeOK, SubscriberTypeOK, StoreIndex, StoreIndexLast
<1>2. /\ rd[s] \in Index /\ local[s] \in Index /\ local[s] = AdvanceRead(rd[s])
      /\ Backlog(local[s], wr) = back - 1
  BY <1>1, StoreMovesOn
<1>3. \A k \in 1 .. len : batch[s][k] = ring[rd[s] + k - 1]
  BY <1>1 DEF SlotInv, Busy
<1>4. /\ len \in Nat /\ len >= 1 /\ len <= back /\ back \in Nat
      /\ rd[s] + len <= SlotCount
  BY <1>1, <1>2, BatchTypes, BatchTail, BacklogRange DEF SlotInv, Busy
<1>5. /\ UNCHANGED <<wr, ring, local, expected>>
      /\ rd'[s] = local[s] /\ rd'[s] # InvalidIndex
  BY <1>1, <1>2, Values DEF StoreIndex, StoreIndexLast
<1>6. /\ Len(Tail(batch[s])) = len - 1
      /\ \A k \in 1 .. len - 1 : Tail(batch[s])[k] = batch[s][k + 1]
  BY <1>4, BatchTail
<1>7. /\ StoreIndexLast(s) => spc'[s] = "release" /\ batch'[s] = batch[s]
      /\ StoreIndex(s) => /\ spc'[s] = (IF len = 1 THEN "contiguous" ELSE "read")
                          /\ batch'[s] = Tail(batch[s])
  BY <1>1 DEF StoreIndexLast, StoreIndex, AfterMessage
<1> DEFINE l == local[s]
<1>8. l + (len - 1) <= SlotCount /\ l + len - 1 <= SlotCount /\ (len >= 2 => l = rd[s] + 1)
  <2> HIDE DEF len
  <2> QED BY <1>2, <1>4, AdvanceReadValue DEF Index
<1>9. ASSUME NEW k \in 1 .. len - 1
      PROVE  k + 1 \in 1 .. len /\ batch[s][k + 1] = ring[l + k - 1]
  <2>1. k + 1 \in 1 .. len /\ rd[s] + (k + 1) - 1 = l + k - 1
    <3> HIDE DEF len
    <3> QED BY <1>2, <1>4, <1>8, <1>9 DEF Index
  <2> QED BY <1>3, <2>1
<1>10. CASE StoreIndexLast(s)
  <2>1. ASSUME NEW k \in 2 .. len PROVE batch[s][k] = ring[l + k - 2]
    <3>1. k - 1 \in 1 .. len - 1 /\ (k - 1) + 1 = k /\ l + (k - 1) - 1 = l + k - 2
      <4> HIDE DEF len
      <4> QED BY <1>2, <1>4, <2>1 DEF Index
    <3> QED BY <1>9, <3>1
  <2> HIDE DEF Index
  <2> QED BY <1>2, <1>4, <1>5, <1>7, <1>8, <1>10, <2>1, SMTT(60) DEF SlotInv, Busy, Done
<1>11. CASE StoreIndex(s) /\ len = 1
  <2>1. spc'[s] = "contiguous"
    BY <1>7, <1>11
  <2> HIDE DEF Index, len
  <2> QED BY <1>2, <1>5, <2>1 DEF SlotInv, Busy, Done
<1>12. CASE StoreIndex(s) /\ len # 1
  <2>1. spc'[s] = "read" /\ batch'[s] = Tail(batch[s])
    BY <1>7, <1>12
  <2>2. len - 1 >= 1 /\ len - 1 <= Backlog(rd'[s], wr')
    <3> HIDE DEF len, back
    <3> QED BY <1>2, <1>4, <1>5, <1>12
  <2>3. \A k \in 1 .. len - 1 : batch'[s][k] = ring'[rd'[s] + k - 1]
    BY <1>5, <1>6, <1>9, <2>1
  <2> HIDE DEF Index
  <2> QED BY <1>2, <1>5, <1>6, <1>8, <2>1, <2>2, <2>3 DEF SlotInv, Busy, Done
<1> QED BY <1>10, <1>11, <1>12

\* After the push the descriptor just read leaves the batch.
LEMMA SlotAfterNotify ==
  ASSUME CursorInv, NEW s \in Slots, SignalSpace(s)
  PROVE  SlotInv(s)'
<1> DEFINE len == Len(batch[s])
           r == rd[s]
<1>1. /\ SlotInv(s) /\ rd[s] \in Index \cup {InvalidIndex} /\ wr \in Index
      /\ spc \in [Slots -> SubPc] /\ batch \in [Slots -> Seq(Chunk)]
      /\ spc[s] = "notify"
  BY DEF CursorInv, TypeOK, SharedTypeOK, SubscriberTypeOK, SignalSpace
<1>2. r \in Index /\ r # InvalidIndex /\ local[s] = r
  BY <1>1, Values DEF SlotInv, Done
<1>3. \A k \in 2 .. len : batch[s][k] = ring[r + k - 2]
  BY <1>1 DEF SlotInv, Done
<1>4. /\ len \in Nat /\ len >= 1 /\ len - 1 <= Backlog(r, wr)
      /\ r + len - 1 <= SlotCount
  BY <1>1, BatchTypes, BatchTail DEF SlotInv, Done
<1>5. /\ UNCHANGED <<rd, wr, ring, local, expected>>
      /\ spc'[s] = (IF len = 1 THEN "contiguous" ELSE "read")
      /\ batch'[s] = Tail(batch[s])
  BY <1>1 DEF SignalSpace, AfterMessage, shared
<1>6. /\ Len(Tail(batch[s])) = len - 1
      /\ \A k \in 1 .. len - 1 : Tail(batch[s])[k] = batch[s][k + 1]
  BY <1>4, BatchTail
<1>7. CASE len = 1
  <2>1. spc'[s] = "contiguous"
    BY <1>5, <1>7
  <2> HIDE DEF Index, len
  <2> QED BY <1>2, <1>5, <2>1 DEF SlotInv, Busy, Done
<1>8. CASE len # 1
  <2>1. spc'[s] = "read"
    BY <1>5, <1>8
  <2>2. len - 1 >= 1 /\ r + (len - 1) <= SlotCount
    <3> HIDE DEF len
    <3> QED BY <1>2, <1>4, <1>8 DEF Index
  <2>3. ASSUME NEW k \in 1 .. len - 1
        PROVE  Tail(batch[s])[k] = ring[r + k - 1]
    <3>1. k + 1 \in 2 .. len /\ r + (k + 1) - 2 = r + k - 1
      <4> HIDE DEF len
      <4> QED BY <1>2, <1>4, <2>3 DEF Index
    <3> QED BY <1>3, <1>6, <3>1
  <2> HIDE DEF Index
  <2> QED BY <1>2, <1>4, <1>5, <1>6, <2>1, <2>2, <2>3 DEF SlotInv, Busy, Done
<1> QED BY <1>7, <1>8

\* The other steps of a subscriber that stay in its window.
LEMMA SlotAfterRest ==
  ASSUME CursorInv, NEW s \in Slots,
         DataEvent(s) \/ Deliver(s) \/ Release(s) \/ Link(s) \/ Push(s)
  PROVE  SlotInv(s)'
<1>1. /\ SlotInv(s) /\ spc \in [Slots -> SubPc] /\ expected \in [Slots -> {NoSeq} \cup 1 .. MaxSeq + 1]
      /\ local \in [Slots -> Index \cup {InvalidIndex}]
  BY DEF CursorInv, TypeOK, SubscriberTypeOK
<1>2. UNCHANGED <<rd, wr, ring, batch>>
  BY DEF DataEvent, Deliver, Release, Link, Push, shared
<1>3. CASE DataEvent(s)
  <2>1. spc[s] = "idle" /\ spc'[s] = "wrapped" /\ local'[s] = rd[s]
    BY <1>1, <1>3 DEF DataEvent, SlotInv
  <2> QED BY <1>1, <1>2, <2>1 DEF SlotInv, Busy, Done
<1>4. CASE Deliver(s)
  <2>1. spc[s] = "read" /\ spc'[s] \in {"callback", "failed"} /\ local' = local
    BY <1>1, <1>4 DEF Deliver
  <2> QED BY <1>1, <1>2, <2>1 DEF SlotInv, Busy, Done
<1>5. CASE Release(s) \/ Link(s) \/ Push(s)
  <2>1. /\ spc[s] \in Done /\ spc'[s] \in Done \cup {"failed"}
        /\ UNCHANGED <<local, expected>>
    BY <1>1, <1>5 DEF Release, Link, Push, Done
  <2> QED BY <1>1, <1>2, <2>1 DEF SlotInv, Busy, Done
<1> QED BY <1>3, <1>4, <1>5

\* A subscriber comes, ends or is reaped.
LEMMA SlotAfterLifecycle ==
  ASSUME CursorInv, NEW s \in Slots,
         Track(s) \/ Leave(s) \/ (ReapEnd /\ s = pslot)
  PROVE  SlotInv(s)'
<1>1. /\ SlotInv(s) /\ spc \in [Slots -> SubPc] /\ expected \in [Slots -> {NoSeq} \cup 1 .. MaxSeq + 1]
      /\ local \in [Slots -> Index \cup {InvalidIndex}] /\ wr \in Index
      /\ rd \in [Slots -> Index \cup {InvalidIndex}]
  BY DEF CursorInv, TypeOK, SharedTypeOK, SubscriberTypeOK
<1>2. CASE Track(s)
  <2>1. /\ rd'[s] = wr /\ rd'[s] # InvalidIndex /\ spc'[s] = "idle"
        /\ local'[s] = InvalidIndex
    BY <1>1, <1>2, Values DEF Track, SlotInv
  <2> QED BY <2>1 DEF SlotInv, Busy, Done
<1>3. CASE Leave(s)
  <2>1. /\ rd'[s] = rd[s] /\ rd[s] # InvalidIndex /\ spc'[s] = "dead"
        /\ local'[s] = InvalidIndex /\ expected'[s] = NoSeq
    BY <1>1, <1>3 DEF Leave, Alive, SlotInv, shared
  <2> QED BY <2>1 DEF SlotInv, Busy, Done
<1>4. CASE ReapEnd /\ s = pslot
  <2>1. spc[s] = "dead"
    BY <1>4 DEF CursorInv, PublisherInv, ReapEnd, Reaping
  <2>2. /\ rd'[s] = InvalidIndex /\ spc'[s] = "absent"
        /\ local'[s] = InvalidIndex /\ expected'[s] = NoSeq
    BY <1>1, <1>4, <2>1 DEF ReapEnd, SlotInv
  <2> QED BY <2>2 DEF SlotInv, Busy, Done
<1> QED BY <1>2, <1>3, <1>4

LEMMA SlotStep ==
  ASSUME CursorInv, [Next]_vars, NEW t \in Slots
  PROVE  SlotInv(t)'
<1>0. SlotInv(t) /\ SharedTypeOK /\ PublisherTypeOK /\ SubscriberTypeOK
  BY DEF CursorInv, TypeOK
<1>1. CASE UNCHANGED <<wr, ring, SlotView(t)>>
  BY <1>0, <1>1, SlotUnchanged
<1>2. CASE WriteMessage
  BY <1>2, SlotAfterWrite
<1>3. CASE Commit
  BY <1>3, SlotAfterCommit
<1>4. CASE ReapEnd
  <2>1. CASE t = pslot
    BY <1>4, <2>1, SlotAfterLifecycle
  <2>2. CASE t # pslot
    BY <1>0, <1>1, <1>4, <2>2 DEF ReapEnd, SlotView, SharedTypeOK, SubscriberTypeOK
  <2> QED BY <2>1, <2>2
<1>5. ASSUME NEW s \in Slots, Track(s) \/ Leave(s) \/ SubscriberStep(s)
      PROVE  SlotInv(t)'
  <2>1. CASE t = s
    BY <1>5, <2>1, SlotAfterLifecycle, SlotAfterLoad, SlotAfterClear, SlotAfterStore,
       SlotAfterNotify, SlotAfterRest DEF SubscriberStep
  <2>2. CASE t # s
    BY <1>0, <1>1, <1>5, <2>2
    DEF SlotView, SharedTypeOK, SubscriberTypeOK, shared, Track, Leave, SubscriberStep,
        DataEvent, LoadWrapped, LoadContiguous, Deliver, ClearBit, StoreIndex,
        StoreIndexLast, Release, Link, Push, SignalSpace
  <2> QED BY <2>1, <2>2
<1>6. ASSUME NEW s \in Slots, SignalData(s) \/ ReapBegin(s) PROVE SlotInv(t)'
  BY <1>1, <1>6 DEF SignalData, ReapBegin, SlotView, shared, subLocal
<1>7. CASE \/ PublishCall \/ ScanRing \/ FreeListEmpty \/ TakeChunk \/ SpaceEvent
           \/ WaitTimeout \/ EventsDone \/ ReapKeep \/ ReapRelease \/ ReapLink \/ ReapPush
           \/ ControlDone
  BY <1>1, <1>7
  DEF PublishCall, ScanRing, FreeListEmpty, TakeChunk, SpaceEvent, WaitTimeout, EventsDone,
      ReapKeep, ReapRelease, ReapLink, ReapPush, ControlDone, SlotView, shared, subLocal
<1>8. CASE UNCHANGED vars
  BY <1>1, <1>8 DEF vars, shared, subLocal, SlotView
<1> QED BY <1>2, <1>3, <1>4, <1>5, <1>6, <1>7, <1>8 DEF Next, PublishStep, ReapStep

LEMMA CursorStep == CursorInv /\ [Next]_vars => CursorInv'
BY SharedTypeStep, PublisherTypeStep, SubscriberTypeStep, PublisherStep, SlotStep
DEF CursorInv, TypeOK

LEMMA CursorCorrect == Spec => []CursorInv
BY CursorInit, CursorStep, PTL DEF Spec

(***************************************************************************)
(* Every variable stays in its type.  What this takes is that read_data    *)
(* and reap_dead_subscribers only ever reach descriptors of the ring and   *)
(* chunks of the class, and that the free list's tail stays a chunk.       *)
(***************************************************************************)
THEOREM TypeCorrect == Spec => []TypeOK
BY CursorCorrect, PTL DEF CursorInv

-----------------------------------------------------------------------------
(***************************************************************************)
(* The safety of DataPlane: no unread message is lost or overwritten, and  *)
(* no chunk is given back twice, for every instance and every death.       *)
(***************************************************************************)

(***************************************************************************)
(* Reference counts.  Between clearing the last bit of its chunk and       *)
(* marking it unused a subscriber is the only one to give that chunk back, *)
(* and the publisher is not writing into it.                               *)
(***************************************************************************)
GivingBack == {"storeLast", "release"}

CountInv ==
  /\ \A c \in Chunk : refs[c] # {} => inUse[c]
  /\ ppc = "write" => refs[pchunk] = {} /\ inUse[pchunk]
  /\ \A s \in Slots : spc[s] \in GivingBack =>
       /\ refs[Current(s)] = {} /\ inUse[Current(s)]
       /\ ppc = "write" => pchunk # Current(s)
       /\ \A t \in Slots \ {s} : spc[t] \in GivingBack => Current(t) # Current(s)

(***************************************************************************)
(* What every subscriber still has to read is held for it, and the message *)
(* the publisher is about to commit is held for everybody.                 *)
(***************************************************************************)
Holds(s, i) == s \in refs[ring[i]] /\ seqOf[ring[i]] = Committed - Backlog(i, wr)

HeldInv ==
  /\ \A s \in Slots : Alive(s) => \A i \in Unread(s) : Holds(s, i)
  /\ ppc = "commit" =>
       /\ seqOf[ring[wr]] = nextSeq - 1
       /\ \A s \in Slots : Alive(s) => s \in refs[ring[wr]]

SafetyInv == CursorInv /\ CountInv /\ HeldInv /\ NoLap

USE SlotsAssumption, ChunkCountAssumption, MaxSeqAssumption, ModeAssumption,
    SlotCountAssumption

\* Steps that touch neither a count, nor the publisher, nor more than one
\* subscriber, and leave that one outside the give-back.
LEMMA CountOutside ==
  ASSUME CursorInv, CountInv, NEW s \in Slots,
         UNCHANGED <<refs, inUse, ppc, pchunk>>,
         \A t \in Slots \ {s} : spc'[t] = spc[t] /\ batch'[t] = batch[t],
         spc'[s] \in GivingBack => spc[s] \in GivingBack /\ batch'[s] = batch[s]
  PROVE  CountInv'
<1>1. \A t \in Slots : spc'[t] \in GivingBack =>
                       spc[t] \in GivingBack /\ Current(t)' = Current(t)
  BY DEF Current
<1> HIDE DEF Chunk
<1> QED BY <1>1 DEF CountInv

LEMMA CountStep == CursorInv /\ CountInv /\ [Next]_vars => CountInv'
<1> SUFFICES ASSUME CursorInv, CountInv, [Next]_vars PROVE CountInv'
  OBVIOUS
<1>0. SharedTypeOK /\ PublisherTypeOK /\ SubscriberTypeOK
  BY DEF CursorInv, TypeOK
<1>a. \A s \in Slots : spc[s] \in GivingBack \cup {"callback"} => Current(s) \in Chunk
  BY BatchTypes DEF GivingBack, Busy, Done
<1>1. CASE UNCHANGED <<refs, inUse, spc, batch>> /\ (ppc' # "write" \/ UNCHANGED <<ppc, pchunk>>)
  BY <1>1 DEF CountInv, Current
<1>2. CASE \/ PublishCall \/ ScanRing \/ FreeListEmpty \/ Commit \/ SpaceEvent
           \/ WaitTimeout \/ EventsDone \/ ReapLink \/ ReapPush \/ ControlDone \/ UNCHANGED vars
           \/ \E s \in Slots : SignalData(s) \/ ReapBegin(s)
  BY <1>0, <1>1, <1>2
  DEF PublishCall, ScanRing, FreeListEmpty, Commit, SpaceEvent, WaitTimeout, EventsDone, ReapLink,
      ReapPush, ControlDone, SignalData, ReapBegin, vars, shared, pubLocal, subLocal,
      PublisherTypeOK
<1>3. CASE TakeChunk
  <2>1. CASE HeadUsable
    <3>1. /\ head \in Chunk /\ ~inUse[head] /\ refs[head] = {}
          /\ inUse' = [inUse EXCEPT ![head] = TRUE] /\ inUse'[head]
          /\ pchunk' = head /\ UNCHANGED <<refs, spc, batch>>
      BY <1>0, <1>3, <2>1 DEF TakeChunk, HeadUsable, CountInv, SharedTypeOK, subLocal
    <3>2. ASSUME NEW s \in Slots, spc[s] \in GivingBack
          PROVE  Current(s) # head /\ Current(s)' = Current(s) /\ inUse'[Current(s)]
      BY <1>0, <1>a, <3>1, <3>2 DEF CountInv, SharedTypeOK, Current
    <3>3. \A c \in Chunk : inUse[c] => inUse'[c]
      BY <1>0, <3>1 DEF SharedTypeOK
    <3> HIDE DEF Chunk
    <3> QED BY <3>1, <3>2, <3>3 DEF CountInv
  <2>2. CASE ~HeadUsable
    BY <1>1, <1>3, <2>2 DEF TakeChunk, subLocal
  <2> QED BY <2>1, <2>2
<1>4. CASE WriteMessage
  <2>1. /\ pchunk \in Chunk /\ inUse[pchunk] /\ ppc = "write" /\ ppc' = "commit"
        /\ refs' = [refs EXCEPT ![pchunk] = @ \cup Tracked]
        /\ UNCHANGED <<inUse, spc, batch>>
    BY <1>0, <1>4 DEF WriteMessage, PublisherTypeOK, CountInv, subLocal
  <2>2. \A s \in Slots : spc[s] \in GivingBack =>
          refs'[Current(s)] = {} /\ Current(s)' = Current(s)
    BY <1>0, <1>a, <2>1 DEF CountInv, SharedTypeOK, Current
  <2>3. \A c \in Chunk : refs'[c] # {} => inUse[c]
    BY <1>0, <2>1 DEF CountInv, SharedTypeOK
  <2> HIDE DEF Chunk
  <2> QED BY <2>1, <2>2, <2>3 DEF CountInv
<1>5. CASE ReapKeep \/ ReapRelease
  <2>1. PICK c \in Chunk :
          /\ refs[c] # {} \/ inUse' = inUse
          /\ refs' = [refs EXCEPT ![c] = @ \ {pslot}]
          /\ \/ inUse' = inUse
             \/ refs'[c] = {} /\ inUse' = [inUse EXCEPT ![c] = FALSE]
    <3>1. ring[ppos] \in Chunk
      BY <1>0 DEF SharedTypeOK, PublisherTypeOK
    <3> QED BY <1>0, <1>5, <3>1 DEF ReapKeep, ReapRelease, LastHolder,
                SharedTypeOK
  <2>2. ppc = "reap" /\ ppc' # "write" /\ UNCHANGED <<spc, batch>>
    BY <1>5 DEF ReapKeep, ReapRelease, subLocal
  <2>3. \A s \in Slots : spc[s] \in GivingBack =>
          refs'[Current(s)] = {} /\ inUse'[Current(s)] /\ Current(s)' = Current(s)
    BY <1>0, <1>a, <2>1, <2>2 DEF CountInv, SharedTypeOK, Current
  <2>4. \A d \in Chunk : refs'[d] # {} => inUse'[d]
    BY <1>0, <2>1 DEF CountInv, SharedTypeOK
  <2> HIDE DEF Chunk
  <2> QED BY <2>2, <2>3, <2>4 DEF CountInv
<1>6. CASE ReapEnd
  <2>1. /\ UNCHANGED <<refs, inUse, batch>> /\ ppc' # "write"
        /\ \A s \in Slots : spc'[s] = spc[s] \/ spc'[s] = "absent"
    BY <1>0, <1>6 DEF ReapEnd, SubscriberTypeOK
  <2> QED BY <2>1 DEF CountInv, GivingBack, Current
<1>7. ASSUME NEW s \in Slots, Track(s) PROVE CountInv'
  <2>1. /\ UNCHANGED <<refs, inUse, batch>> /\ ppc' # "write"
        /\ \A t \in Slots : spc'[t] = spc[t] \/ spc'[t] = "idle"
    BY <1>0, <1>7 DEF Track, SubscriberTypeOK
  <2> QED BY <2>1 DEF CountInv, GivingBack, Current
<1>8. ASSUME NEW s \in Slots,
             \/ DataEvent(s) \/ LoadWrapped(s) \/ LoadContiguous(s) \/ Deliver(s)
             \/ StoreIndex(s) \/ StoreIndexLast(s) \/ Link(s) \/ Push(s)
             \/ SignalSpace(s) \/ Leave(s)
      PROVE  CountInv'
  <2>1. /\ UNCHANGED <<refs, inUse, ppc, pchunk>>
        /\ \A t \in Slots \ {s} : spc'[t] = spc[t] /\ batch'[t] = batch[t]
    BY <1>0, <1>8 DEF DataEvent, LoadWrapped, LoadContiguous, Deliver, StoreIndex,
       StoreIndexLast, Link, Push, SignalSpace, Leave, shared, pubLocal, SubscriberTypeOK
  <2>2. spc'[s] \in GivingBack => spc[s] \in GivingBack /\ batch'[s] = batch[s]
    BY <1>0, <1>8 DEF DataEvent, LoadWrapped, LoadContiguous, Deliver, StoreIndex,
       StoreIndexLast, Link, Push, SignalSpace, Leave, SubscriberTypeOK, GivingBack,
       AfterMessage
  <2> QED BY <2>1, <2>2, CountOutside
<1>9. ASSUME NEW s \in Slots, ClearBit(s) PROVE CountInv'
  <2> DEFINE c == Current(s)
  <2>1. /\ c \in Chunk /\ refs' = [refs EXCEPT ![c] = @ \ {s}]
        /\ spc' = [spc EXCEPT ![s] = IF refs[c] = {s} THEN "storeLast" ELSE "store"]
        /\ UNCHANGED <<inUse, ppc, pchunk, batch>>
    BY <1>a, <1>9 DEF ClearBit, LastHolder, pubLocal
  <2>2. \A t \in Slots : Current(t)' = Current(t)
    BY <2>1 DEF Current
  <2>3. ASSUME NEW t \in Slots, spc'[t] \in GivingBack
        PROVE  \/ t # s /\ spc[t] \in GivingBack /\ refs[Current(t)] = {}
               \/ t = s /\ refs[c] = {s}
    BY <1>0, <2>1, <2>3 DEF SubscriberTypeOK, GivingBack, CountInv
  <2>4. ASSUME NEW t \in Slots, spc'[t] \in GivingBack
        PROVE  refs'[Current(t)] = {} /\ inUse[Current(t)]
    <3> HIDE DEF c, Chunk
    <3>1. CASE t = s
      BY <1>0, <2>1, <2>3, <2>4, <3>1 DEF CountInv, SharedTypeOK, c
    <3>2. CASE t # s
      BY <1>0, <1>a, <2>1, <2>3, <2>4, <3>2 DEF CountInv, SharedTypeOK
    <3> QED BY <3>1, <3>2
  <2>5. ASSUME NEW t \in Slots, spc'[t] \in GivingBack, ppc = "write"
        PROVE  pchunk # Current(t)
    BY <2>3, <2>5 DEF CountInv
  <2>6. ASSUME NEW t \in Slots, NEW u \in Slots \ {t},
               spc'[t] \in GivingBack, spc'[u] \in GivingBack
        PROVE  Current(u) # Current(t)
    BY <2>3, <2>6 DEF CountInv
  <2>7. \A d \in Chunk : refs'[d] # {} => refs[d] # {}
    BY <1>0, <2>1 DEF SharedTypeOK
  <2>8. ppc = "write" => refs'[pchunk] = {}
    BY <1>0, <2>7 DEF CountInv, PublisherTypeOK
  <2> HIDE DEF c, Chunk
  <2> QED BY <2>1, <2>2, <2>4, <2>5, <2>6, <2>7, <2>8 DEF CountInv
<1>10. ASSUME NEW s \in Slots, Release(s) PROVE CountInv'
  <2> DEFINE c == Current(s)
  <2>1. /\ c \in Chunk /\ inUse' = [inUse EXCEPT ![c] = FALSE]
        /\ spc[s] = "release" /\ spc'[s] \notin GivingBack
        /\ \A t \in Slots \ {s} : spc'[t] = spc[t]
        /\ UNCHANGED <<refs, ppc, pchunk, batch>>
    BY <1>0, <1>a, <1>10 DEF Release, pubLocal, GivingBack, SubscriberTypeOK
  <2>2. /\ refs[c] = {} /\ (ppc = "write" => pchunk # c)
        /\ \A t \in Slots \ {s} : spc[t] \in GivingBack => Current(t) # c
    BY <2>1 DEF CountInv, GivingBack
  <2>3. \A d \in Chunk \ {c} : inUse'[d] = inUse[d]
    BY <1>0, <2>1 DEF SharedTypeOK
  <2>4. \A t \in Slots : Current(t)' = Current(t)
    BY <2>1 DEF Current
  <2>5. pchunk \in Chunk
    BY <1>0 DEF PublisherTypeOK
  <2> HIDE DEF c, Chunk
  <2> QED BY <1>a, <2>1, <2>2, <2>3, <2>4, <2>5 DEF CountInv
<1> QED
  BY <1>2, <1>3, <1>4, <1>5, <1>6, <1>7, <1>8, <1>9, <1>10
  DEF Next, PublishStep, ReapStep, SubscriberStep

-----------------------------------------------------------------------------
(* Unread messages *)

LEMMA UnreadRange ==
  ASSUME CursorInv, NEW s \in Slots, Alive(s)
  PROVE  /\ wr \in Index /\ rd[s] \in Index
         /\ \A i \in Unread(s) :
              /\ i \in Index
              /\ Backlog(i, wr) \in Nat /\ Backlog(i, wr) >= 1
              /\ Backlog(i, wr) <= Backlog(rd[s], wr)
<1>1. wr \in Index /\ rd[s] \in Index
  BY DEF CursorInv, TypeOK, SharedTypeOK, SlotInv, Alive
<1> QED BY <1>1 DEF Unread

\* A step that leaves a subscriber's cursor alone leaves its window alone.
LEMMA UnreadFrame ==
  ASSUME NEW t \in Slots, UNCHANGED <<rd[t], wr>>,
         spc[t] \in {"store", "storeLast"} => spc'[t] \in {"store", "storeLast"}
  PROVE  Unread(t)' \subseteq Unread(t)
BY DEF Unread

\* Storing the index passes a descriptor that was no longer unread.
LEMMA UnreadAfterStore ==
  ASSUME CursorInv, NEW s \in Slots, StoreIndex(s) \/ StoreIndexLast(s)
  PROVE  Unread(s)' \subseteq Unread(s)
<1>1. /\ spc[s] \in {"store", "storeLast"} /\ wr' = wr
      /\ wr \in Index /\ rd' = [rd EXCEPT ![s] = local[s]]
      /\ rd \in [Slots -> Index \cup {InvalidIndex}]
  BY DEF StoreIndex, StoreIndexLast, CursorInv, TypeOK, SharedTypeOK
<1>2. /\ rd[s] \in Index /\ rd'[s] = local[s]
      /\ Backlog(local[s], wr) = Backlog(rd[s], wr) - 1
  BY <1>1, StoreMovesOn
<1>3. Backlog(rd[s], wr) \in Nat
  BY <1>1, <1>2, BacklogRange
<1>4. ASSUME NEW i \in Index, Backlog(i, wr) \in 1 .. Backlog(local[s], wr)
      PROVE  i # rd[s] /\ Backlog(i, wr) \in 1 .. Backlog(rd[s], wr)
  <2> HIDE DEF Index
  <2> QED BY <1>2, <1>3, <1>4
<1> QED BY <1>1, <1>2, <1>4 DEF Unread

\* A subscriber inside read_data is at the first descriptor of its window, which
\* is unread until its bit is cleared.
LEMMA AtFront ==
  ASSUME CursorInv, NEW s \in Slots, spc[s] \in {"read", "callback"}
  PROVE  /\ rd[s] \in Unread(s) /\ Current(s) = ring[rd[s]]
         /\ Current(s) \in Chunk
<1>1. /\ rd[s] \in Index /\ wr \in Index
      /\ Len(batch[s]) >= 1 /\ Len(batch[s]) <= Backlog(rd[s], wr)
      /\ batch[s] \in Seq(Chunk)
      /\ \A k \in 1 .. Len(batch[s]) : batch[s][k] = ring[rd[s] + k - 1]
  BY DEF CursorInv, TypeOK, SharedTypeOK, SubscriberTypeOK, SlotInv, Busy
<1>2. Len(batch[s]) \in Nat /\ Backlog(rd[s], wr) \in Nat
  BY <1>1, BacklogRange
<1>3. rd[s] \in Unread(s)
  <2> HIDE DEF Index, Chunk
  <2> QED BY <1>1, <1>2 DEF Unread
<1>4. Current(s) = ring[rd[s]]
  <2>1. 1 \in 1 .. Len(batch[s]) /\ rd[s] + 1 - 1 = rd[s]
    BY <1>1, <1>2 DEF Index
  <2>2. batch[s][1] = ring[rd[s]]
    BY <1>1, <2>1
  <2> QED BY <2>2 DEF Current
<1> QED BY <1>3, <1>4, BatchTypes DEF Busy

\* Steps that write no descriptor, no message and no index of the publisher.
LEMMA HeldFrame ==
  ASSUME CursorInv, HeldInv,
         UNCHANGED <<wr, ring, seqOf, Committed>>,
         ppc' = "commit" => ppc = "commit" /\ nextSeq' = nextSeq,
         \A t \in Slots : Alive(t)' =>
           /\ Alive(t) /\ Unread(t)' \subseteq Unread(t)
           /\ \A i \in Index : t \in refs[ring[i]] =>
                                 t \in refs'[ring[i]]
  PROVE  HeldInv'
<1>1. wr \in Index
  BY DEF CursorInv, TypeOK, SharedTypeOK
<1>2. ASSUME NEW t \in Slots, Alive(t)', NEW i \in Unread(t)'
      PROVE  Holds(t, i)'
  <2>1. i \in Index /\ i \in Unread(t) /\ Holds(t, i)
    BY <1>2, UnreadRange DEF HeldInv
  <2> QED BY <1>2, <2>1 DEF Holds
<1>3. ppc' = "commit" =>
        /\ seqOf'[ring'[wr']] = nextSeq' - 1
        /\ \A t \in Slots : Alive(t)' => t \in refs'[ring'[wr']]
  BY <1>1 DEF HeldInv
<1> QED BY <1>2, <1>3 DEF HeldInv

\* fetch_and: the chunk is the first of this window and of no later descriptor.
LEMMA HeldAfterClear ==
  ASSUME CursorInv, HeldInv, NEW s \in Slots, ClearBit(s)
  PROVE  HeldInv'
<1> DEFINE c == Current(s)
<1>0. SharedTypeOK /\ PublisherTypeOK /\ SubscriberTypeOK
  BY DEF CursorInv, TypeOK
<1>1. /\ spc[s] = "callback" /\ c = ring[rd[s]] /\ c \in Chunk
      /\ rd[s] \in Unread(s) /\ Alive(s)
      /\ wr \in Index /\ rd[s] \in Index
  BY AtFront, UnreadRange DEF ClearBit, Alive
<1>2. /\ refs' = [refs EXCEPT ![c] = @ \ {s}]
      /\ UNCHANGED <<rd, wr, ring, seqOf, ppc, nextSeq>>
      /\ \A t \in Slots \ {s} : spc'[t] = spc[t]
      /\ spc'[s] \in {"store", "storeLast"}
  BY <1>0 DEF ClearBit, pubLocal, SubscriberTypeOK
<1>3. Committed' = Committed /\ Committed \in Int
  BY <1>0, <1>2 DEF Committed, PublisherTypeOK
<1>4. seqOf[c] = Committed - Backlog(rd[s], wr) /\ Backlog(rd[s], wr) \in Nat
      /\ Backlog(rd[s], wr) >= 1
  BY <1>1, UnreadRange DEF HeldInv, Holds
<1>5. \A t \in Slots : Unread(t)' \subseteq Unread(t) /\ (Alive(t)' => Alive(t))
  BY <1>1, <1>2, UnreadFrame DEF Alive
<1>6. ASSUME NEW i \in Unread(s)' PROVE s \in refs'[ring[i]]
  <2>1. i \in Unread(s) /\ i # rd[s]
    BY <1>2, <1>5, <1>6 DEF Unread
  <2>2. i \in Index /\ Holds(s, i) /\ Backlog(i, wr) \in Nat
    BY <1>1, <2>1, UnreadRange DEF HeldInv
  <2>3. Backlog(i, wr) # Backlog(rd[s], wr)
    BY <1>1, <2>1, <2>2, BacklogInjective
  <2>4. seqOf[ring[i]] # seqOf[c]
    <3> HIDE DEF c
    <3> QED BY <1>3, <1>4, <2>2, <2>3 DEF Holds
  <2>5. ring[i] # c /\ ring[i] \in Chunk
    BY <1>0, <2>2, <2>4 DEF SharedTypeOK
  <2> QED BY <1>0, <1>2, <2>2, <2>5 DEF Holds, SharedTypeOK
<1>7. ASSUME NEW t \in Slots, t # s, NEW d \in Chunk, t \in refs[d] PROVE t \in refs'[d]
  BY <1>0, <1>2, <1>7 DEF SharedTypeOK
<1>8. ASSUME NEW t \in Slots, Alive(t)', NEW i \in Unread(t)' PROVE Holds(t, i)'
  <2>1. i \in Index /\ Holds(t, i) /\ ring[i] \in Chunk
    BY <1>0, <1>5, <1>8, UnreadRange DEF HeldInv, SharedTypeOK
  <2>2. t \in refs'[ring[i]]
    BY <1>6, <1>7, <1>8, <2>1 DEF Holds
  <2> QED BY <1>2, <1>3, <2>1, <2>2 DEF Holds
<1>9. ASSUME ppc = "commit"
      PROVE  \A t \in Slots : Alive(t)' => t \in refs'[ring[wr]]
  <2>1. seqOf[ring[wr]] = nextSeq - 1 /\ Committed = nextSeq - 1
    BY <1>9 DEF HeldInv, Committed
  <2>2. ring[wr] # c /\ ring[wr] \in Chunk
    <3>1. seqOf[ring[wr]] # seqOf[c]
      <4> HIDE DEF c
      <4> QED BY <1>3, <1>4, <2>1
    <3> QED BY <1>0, <1>1, <3>1 DEF SharedTypeOK
  <2>3. refs'[ring[wr]] = refs[ring[wr]]
    BY <1>0, <1>2, <2>2 DEF SharedTypeOK
  <2> QED BY <1>5, <1>9, <2>3 DEF HeldInv
<1> HIDE DEF c
<1> QED BY <1>2, <1>8, <1>9 DEF HeldInv

\* The new message goes to a chunk without a bit and a descriptor behind nobody.
LEMMA HeldAfterWrite ==
  ASSUME CursorInv, CountInv, HeldInv, WriteMessage
  PROVE  HeldInv'
<1>0. SharedTypeOK /\ PublisherTypeOK /\ SubscriberTypeOK
  BY DEF CursorInv, TypeOK
<1>1. /\ pchunk \in Chunk /\ refs[pchunk] = {} /\ wr \in Index
      /\ nextSeq \in Int
      /\ ppc = "write" /\ ppc' = "commit" /\ nextSeq' = nextSeq + 1
      /\ ring' = [ring EXCEPT ![wr] = pchunk]
      /\ seqOf' = [seqOf EXCEPT ![pchunk] = nextSeq]
      /\ refs' = [refs EXCEPT ![pchunk] = @ \cup Tracked]
      /\ UNCHANGED <<rd, wr, spc>>
  BY <1>0 DEF WriteMessage, PublisherTypeOK, SharedTypeOK, CountInv, subLocal
<1>2. Committed' = Committed
  BY <1>1 DEF Committed
<1>3. \A t \in Slots : Unread(t)' = Unread(t) /\ Alive(t)' = Alive(t)
  BY <1>1 DEF Unread, Alive
<1>4. ASSUME NEW t \in Slots, Alive(t), NEW i \in Unread(t) PROVE Holds(t, i)'
  <2>1. /\ i \in Index /\ i # wr /\ t \in refs[ring[i]] /\ ring[i] \in Chunk
        /\ seqOf[ring[i]] = Committed - Backlog(i, wr)
    BY <1>0, <1>1, <1>4, UnreadRange, BacklogRange DEF HeldInv, Holds, SharedTypeOK
  <2>2. ring'[i] = ring[i] /\ ring[i] # pchunk
    BY <1>0, <1>1, <2>1 DEF SharedTypeOK
  <2>3. refs'[ring[i]] = refs[ring[i]] /\ seqOf'[ring[i]] = seqOf[ring[i]]
    BY <1>0, <1>1, <2>1, <2>2 DEF SharedTypeOK
  <2> QED BY <1>1, <1>2, <2>1, <2>2, <2>3 DEF Holds
<1>5. ring'[wr] = pchunk /\ seqOf'[pchunk] = nextSeq /\ refs'[pchunk] = Tracked
  BY <1>0, <1>1 DEF SharedTypeOK
<1>6. \A t \in Slots : Alive(t) => t \in Tracked
  BY <1>0, UnreadRange, Values DEF Tracked, InUse, SharedTypeOK
<1>7. nextSeq = nextSeq' - 1
  BY <1>1
<1> HIDE DEF Chunk, Index
<1> QED BY <1>1, <1>3, <1>4, <1>5, <1>6, <1>7 DEF HeldInv

\* The committed message is the last of every window.
LEMMA HeldAfterCommit ==
  ASSUME CursorInv, HeldInv, Commit
  PROVE  HeldInv'
<1>0. SharedTypeOK /\ PublisherTypeOK /\ SubscriberTypeOK
  BY DEF CursorInv, TypeOK
<1>1. /\ wr \in Index /\ wr' = AdvanceWrite(wr) /\ wr' \in Index
      /\ ppc = "commit" /\ ppc' = "signal" /\ nextSeq \in Int
      /\ UNCHANGED <<rd, ring, seqOf, refs, nextSeq, spc>>
  BY <1>0, Values DEF Commit, SharedTypeOK, PublisherTypeOK, subLocal
<1>2. Committed = nextSeq - 1 /\ Committed' = nextSeq
  BY <1>1 DEF Committed
<1>3. ASSUME NEW t \in Slots, Alive(t), NEW i \in Unread(t)' PROVE Holds(t, i)'
  <2>1. /\ rd[t] \in Index /\ t \in Tracked
        /\ Backlog(rd[t], wr) <= SlotCount - 2
        /\ Backlog(rd[t], wr) \in Nat
    BY <1>0, <1>1, <1>3, UnreadRange, Values, BacklogRange
    DEF Tracked, InUse, SharedTypeOK, CursorInv, PublisherInv
  <2>2. Backlog(rd[t], wr') = Backlog(rd[t], wr) + 1
    BY <1>1, <2>1, PublishGrowsBacklog
  <2>3. /\ i \in Index /\ Backlog(i, wr') \in 1 .. Backlog(rd[t], wr')
        /\ (spc[t] \in {"store", "storeLast"} => i # rd[t])
    BY <1>1, <1>3 DEF Unread
  <2>4. Backlog(i, wr) = Backlog(i, wr') - 1 /\ Backlog(i, wr) \in Nat
    BY <1>1, <2>3, BehindNewWrite, BacklogRange
  <2>5. CASE i = wr
    <3>1. Backlog(i, wr') = 1
      BY <1>1, <2>3, <2>4, <2>5, BacklogRange
    <3> QED BY <1>1, <1>2, <1>3, <2>5, <3>1 DEF Holds, HeldInv
  <2>6. CASE i # wr
    <3>1. Backlog(i, wr) # 0
      BY <1>1, <2>3, <2>6, BacklogRange
    <3>2. i \in Unread(t)
      <4> HIDE DEF Index
      <4> QED BY <2>1, <2>2, <2>3, <2>4, <3>1 DEF Unread
    <3>3. t \in refs[ring[i]] /\ seqOf[ring[i]] = Committed - Backlog(i, wr)
      BY <1>3, <3>2 DEF HeldInv, Holds
    <3>4. seqOf[ring[i]] = Committed' - Backlog(i, wr')
      <4> HIDE DEF Index
      <4> QED BY <1>1, <1>2, <2>3, <2>4, <3>3
    <3> QED BY <1>1, <3>3, <3>4 DEF Holds
  <2> QED BY <2>5, <2>6
<1> QED BY <1>1, <1>3 DEF HeldInv, Alive

LEMMA HeldStep == CursorInv /\ CountInv /\ HeldInv /\ [Next]_vars => HeldInv'
<1> SUFFICES ASSUME CursorInv, CountInv, HeldInv, [Next]_vars PROVE HeldInv'
  OBVIOUS
<1>0. SharedTypeOK /\ PublisherTypeOK /\ SubscriberTypeOK
  BY DEF CursorInv, TypeOK
<1>1. CASE UNCHANGED vars
  BY <1>1 DEF vars, shared, pubLocal, subLocal, HeldInv, Holds, Unread, Alive, Committed
<1>2. CASE \/ PublishCall \/ ScanRing \/ FreeListEmpty \/ TakeChunk \/ SpaceEvent
           \/ WaitTimeout \/ EventsDone \/ ReapLink \/ ReapPush \/ ControlDone
           \/ \E s \in Slots : SignalData(s) \/ ReapBegin(s)
  <2>1. /\ UNCHANGED <<rd, wr, ring, seqOf, refs, spc, nextSeq>>
        /\ ppc # "commit" /\ ppc' # "commit"
    BY <1>0, <1>2
    DEF PublishCall, ScanRing, FreeListEmpty, TakeChunk, SpaceEvent, WaitTimeout, EventsDone,
        ReapLink, ReapPush, ControlDone, SignalData, ReapBegin, shared, freeList, subLocal,
        PublisherTypeOK, ControlPoint
  <2> QED BY <2>1 DEF HeldInv, Holds, Unread, Alive, Committed
<1>3. CASE WriteMessage
  BY <1>3, HeldAfterWrite
<1>4. CASE Commit
  BY <1>4, HeldAfterCommit
<1>5. CASE ReapKeep \/ ReapRelease
  <2>1. /\ UNCHANGED <<rd, wr, ring, seqOf, spc, nextSeq>>
        /\ ppc = "reap" /\ ppc' # "commit"
        /\ spc[pslot] = "dead" /\ ring[ppos] \in Chunk
        /\ refs' = [refs EXCEPT ![ring[ppos]] = @ \ {pslot}]
    <3>1. ring[ppos] \in Chunk
      BY <1>0 DEF SharedTypeOK, PublisherTypeOK
    <3> QED BY <1>0, <1>5, <3>1 DEF ReapKeep, ReapRelease, subLocal, CursorInv,
                PublisherInv, Reaping, SharedTypeOK
  <2>2. Committed' = Committed
    BY <2>1 DEF Committed
  <2>3. \A t \in Slots : Alive(t)' =>
          /\ Alive(t) /\ Unread(t)' \subseteq Unread(t)
          /\ \A i \in Index : t \in refs[ring[i]] => t \in refs'[ring[i]]
    BY <1>0, <2>1 DEF Alive, Unread, SharedTypeOK
  <2> QED BY <2>1, <2>2, <2>3, HeldFrame
<1>6. CASE ReapEnd
  <2>1. /\ UNCHANGED <<wr, ring, seqOf, refs, nextSeq>>
        /\ ppc = "reap" /\ ppc' # "commit"
        /\ spc'[pslot] = "absent"
        /\ \A t \in Slots \ {pslot} : rd'[t] = rd[t] /\ spc'[t] = spc[t]
    BY <1>0, <1>6 DEF ReapEnd, SharedTypeOK, SubscriberTypeOK, PublisherTypeOK
  <2>2. Committed' = Committed
    BY <2>1 DEF Committed
  <2>3. \A t \in Slots : Alive(t)' => Alive(t) /\ Unread(t)' \subseteq Unread(t)
    BY <2>1 DEF Alive, Unread
  <2> QED BY <2>1, <2>2, <2>3, HeldFrame
<1>7. ASSUME NEW s \in Slots, Track(s) PROVE HeldInv'
  <2>1. /\ UNCHANGED <<wr, ring, seqOf, refs, nextSeq>>
        /\ ppc # "commit" /\ ppc' # "commit"
        /\ rd'[s] = wr /\ spc'[s] = "idle" /\ wr \in Index
        /\ \A t \in Slots \ {s} : rd'[t] = rd[t] /\ spc'[t] = spc[t]
    BY <1>0, <1>7 DEF Track, SharedTypeOK, SubscriberTypeOK, ControlPoint
  <2>2. Unread(s)' = {}
    BY <2>1, BacklogRange DEF Unread
  <2>3. \A t \in Slots \ {s} : Unread(t)' = Unread(t) /\ Alive(t)' = Alive(t)
    BY <2>1 DEF Unread, Alive
  <2> QED BY <2>1, <2>2, <2>3 DEF HeldInv, Holds, Committed
<1>8. ASSUME NEW s \in Slots, ClearBit(s) PROVE HeldInv'
  BY <1>8, HeldAfterClear
<1>9. ASSUME NEW s \in Slots,
             \/ DataEvent(s) \/ LoadWrapped(s) \/ LoadContiguous(s) \/ Deliver(s)
             \/ StoreIndex(s) \/ StoreIndexLast(s) \/ Release(s) \/ Link(s) \/ Push(s)
             \/ SignalSpace(s) \/ Leave(s)
      PROVE  HeldInv'
  <2>1. /\ UNCHANGED <<wr, ring, seqOf, refs, ppc, nextSeq>>
        /\ \A t \in Slots \ {s} : spc'[t] = spc[t] /\ rd'[t] = rd[t]
    BY <1>0, <1>9
    DEF DataEvent, LoadWrapped, LoadContiguous, Deliver, StoreIndex, StoreIndexLast,
        Release, Link, Push, SignalSpace, Leave, shared, pubLocal, SubscriberTypeOK,
        SharedTypeOK
  <2>2. Alive(s)
    BY <1>9 DEF DataEvent, LoadWrapped, LoadContiguous, Deliver, StoreIndex,
        StoreIndexLast, Release, Link, Push, SignalSpace, Leave, Alive
  <2>3. StoreIndex(s) \/ StoreIndexLast(s) => Unread(s)' \subseteq Unread(s)
    BY UnreadAfterStore
  <2>4. Leave(s) => ~Alive(s)'
    BY <1>0 DEF Leave, SubscriberTypeOK, Alive
  <2>5. spc[s] \notin {"store", "storeLast"} /\ rd' = rd => Unread(s)' \subseteq Unread(s)
    BY <2>1, UnreadFrame
  <2>6. Alive(s)' => Unread(s)' \subseteq Unread(s)
    BY <1>9, <2>3, <2>4, <2>5
    DEF DataEvent, LoadWrapped, LoadContiguous, Deliver, Release, Link, Push,
        SignalSpace, shared, Alive
  <2>7. \A t \in Slots : Alive(t)' => Alive(t) /\ Unread(t)' \subseteq Unread(t)
    BY <2>1, <2>2, <2>6 DEF Alive, Unread
  <2>8. Committed' = Committed
    BY <2>1 DEF Committed
  <2> QED BY <2>1, <2>7, <2>8, HeldFrame
<1> QED
  BY <1>1, <1>2, <1>3, <1>4, <1>5, <1>6, <1>7, <1>8, <1>9
  DEF Next, PublishStep, ReapStep, SubscriberStep

-----------------------------------------------------------------------------
(* Positions *)

Mid == {"callback", "store", "storeLast"}

Level(s) == Position(s) - AtReadIndex(s) = IF spc[s] \in Mid THEN 1 ELSE 0

\* The quantities of NoLap are integers.
LEMMA LevelTypes ==
  ASSUME CursorInv, NEW s \in Slots, Alive(s)
  PROVE  /\ expected[s] \in Int /\ joined[s] \in Int /\ Position(s) \in Int
         /\ Committed \in Int /\ AtReadIndex(s) \in Int
         /\ rd[s] \in Index /\ Backlog(rd[s], wr) \in Nat
<1>1. expected[s] \in Int /\ joined[s] \in Int /\ nextSeq \in Int
  BY DEF CursorInv, TypeOK, SubscriberTypeOK, PublisherTypeOK, NoSeq
<1>2. rd[s] \in Index /\ Backlog(rd[s], wr) \in Nat
  BY UnreadRange, BacklogRange
<1> QED BY <1>1, <1>2 DEF Position, Committed, AtReadIndex

LEMMA LevelStep ==
  ASSUME CursorInv, HeldInv, NoLap, [Next]_vars, NEW t \in Slots, Alive(t)'
  PROVE  Level(t)'
<1>0. SharedTypeOK /\ PublisherTypeOK /\ SubscriberTypeOK
  BY DEF CursorInv, TypeOK
<1>a. Alive(t) => Level(t)
  BY DEF NoLap, Level, Mid
<1>1. CASE /\ UNCHANGED <<rd[t], wr, expected[t], joined[t], Committed>>
           /\ Alive(t) /\ (spc'[t] \in Mid <=> spc[t] \in Mid)
  BY <1>a, <1>1 DEF Level, Position, AtReadIndex
<1>2. CASE UNCHANGED vars
  BY <1>1, <1>2 DEF vars, shared, pubLocal, subLocal, Alive, Committed
<1>3. CASE \/ PublishCall \/ ScanRing \/ FreeListEmpty \/ TakeChunk \/ WriteMessage
           \/ SpaceEvent \/ WaitTimeout \/ EventsDone \/ ReapKeep \/ ReapRelease \/ ReapLink
           \/ ReapPush \/ ControlDone
           \/ \E s \in Slots : SignalData(s) \/ ReapBegin(s)
  <2>1. UNCHANGED <<rd, wr, subLocal>>
    BY <1>3
    DEF PublishCall, ScanRing, FreeListEmpty, TakeChunk, WriteMessage, SpaceEvent,
        WaitTimeout, EventsDone, ReapKeep, ReapRelease, ReapLink, ReapPush, ControlDone, SignalData,
        ReapBegin, shared, subLocal
  <2>2. Committed' = Committed
    BY <1>0, <1>3
    DEF PublishCall, ScanRing, FreeListEmpty, TakeChunk, WriteMessage, SpaceEvent,
        WaitTimeout, EventsDone, ReapKeep, ReapRelease, ReapLink, ReapPush, ControlDone, SignalData,
        ReapBegin, ControlPoint, Committed, PublisherTypeOK
  <2> QED BY <1>1, <2>1, <2>2 DEF subLocal, Alive
<1>4. CASE Commit
  <2>1. /\ wr \in Index /\ wr' = AdvanceWrite(wr) /\ Alive(t)
        /\ UNCHANGED <<rd, nextSeq, spc, expected, joined>>
        /\ Committed = nextSeq - 1 /\ Committed' = nextSeq /\ nextSeq \in Int
    BY <1>0, <1>4 DEF Commit, subLocal, Alive, Committed, SharedTypeOK, PublisherTypeOK
  <2>2. Backlog(rd[t], wr) <= SlotCount - 2
    BY <1>0, <1>4, <2>1, UnreadRange, Values
    DEF CursorInv, PublisherInv, Commit, Tracked, InUse, SharedTypeOK
  <2>3. Backlog(rd[t], wr') = Backlog(rd[t], wr) + 1
    BY <2>1, <2>2, UnreadRange, PublishGrowsBacklog
  <2>4. AtReadIndex(t)' = AtReadIndex(t)
    <3> HIDE DEF Index
    <3> QED BY <2>1, <2>3, LevelTypes DEF AtReadIndex
  <2> QED BY <1>a, <2>1, <2>4 DEF Level, Position
<1>5. CASE ReapEnd
  <2>1. t # pslot /\ rd'[t] = rd[t] /\ spc'[t] = spc[t]
        /\ UNCHANGED <<wr, expected, joined, Committed>>
    BY <1>0, <1>5 DEF ReapEnd, Alive, SharedTypeOK, SubscriberTypeOK, Committed
  <2> QED BY <1>1, <2>1 DEF Alive
<1>6. ASSUME NEW s \in Slots, Track(s) PROVE Level(t)'
  <2>1. /\ UNCHANGED <<wr, nextSeq, Committed, expected>> /\ Committed = nextSeq
        /\ \A u \in Slots \ {s} : rd'[u] = rd[u] /\ spc'[u] = spc[u] /\ joined'[u] = joined[u]
        /\ rd'[s] = wr /\ spc'[s] = "idle" /\ joined'[s] = nextSeq
        /\ spc[s] = "absent" /\ wr \in Index /\ nextSeq \in Int
    <3>1. ppc # "commit" /\ ppc' = "control" /\ UNCHANGED <<wr, nextSeq, expected>>
      BY <1>6 DEF Track, ControlPoint
    <3>2. Committed = nextSeq /\ Committed' = nextSeq
      BY <3>1 DEF Committed
    <3> QED BY <1>0, <1>6, <3>1, <3>2 DEF Track, SharedTypeOK, PublisherTypeOK,
                SubscriberTypeOK
  <2>2. CASE t = s
    <3>1. expected[s] = NoSeq
      BY <2>1 DEF CursorInv, SlotInv
    <3>2. Backlog(rd'[s], wr') = 0
      BY <2>1, BacklogRange
    <3>3. Position(s)' = nextSeq /\ AtReadIndex(s)' = nextSeq - 0
      BY <2>1, <3>1, <3>2 DEF Position, AtReadIndex
    <3> QED BY <2>1, <2>2, <3>3 DEF Level, Mid
  <2>3. CASE t # s
    BY <1>1, <2>1, <2>3 DEF Alive
  <2> QED BY <2>2, <2>3
<1>7. ASSUME NEW s \in Slots, SubscriberStep(s) \/ Leave(s), t # s PROVE Level(t)'
  <2>1. /\ UNCHANGED <<wr, ppc, nextSeq>>
        /\ rd'[t] = rd[t] /\ spc'[t] = spc[t]
        /\ expected'[t] = expected[t] /\ joined'[t] = joined[t]
    BY <1>0, <1>7
    DEF SubscriberStep, DataEvent, LoadWrapped, LoadContiguous, Deliver, ClearBit,
        StoreIndex, StoreIndexLast, Release, Link, Push, SignalSpace, Leave, shared,
        pubLocal, SharedTypeOK, SubscriberTypeOK
  <2> QED BY <1>1, <2>1 DEF Alive, Committed
<1>8. CASE Deliver(t)
  <2>1. Alive(t) /\ spc[t] = "read" /\ UNCHANGED <<rd, wr, joined, Committed>>
    BY <1>8 DEF Deliver, Alive, shared, pubLocal, Committed
  <2>2. CASE Readable(t)
    <3>1. expected'[t] = seqOf[Current(t)] + 1 /\ spc'[t] = "callback"
      BY <1>0, <1>8, <2>2 DEF Deliver, SubscriberTypeOK
    <3>2. seqOf[Current(t)] = AtReadIndex(t) /\ seqOf[Current(t)] \in Nat
      BY <1>0, <2>1, AtFront DEF HeldInv, Holds, AtReadIndex, SharedTypeOK
    <3>3. Position(t)' = AtReadIndex(t) + 1 /\ AtReadIndex(t)' = AtReadIndex(t)
      BY <2>1, <3>1, <3>2 DEF Position, NoSeq, AtReadIndex
    <3> QED BY <2>1, <3>1, <3>3, LevelTypes DEF Level, Mid
  <2>3. CASE ~Readable(t)
    BY <1>0, <1>1, <1>8, <2>1, <2>3 DEF Deliver, SubscriberTypeOK, Mid
  <2> QED BY <2>2, <2>3
<1>9. CASE StoreIndex(t) \/ StoreIndexLast(t)
  <2>1. /\ Alive(t) /\ spc[t] \in Mid /\ spc'[t] \notin Mid
        /\ UNCHANGED <<wr, joined, expected, Committed>> /\ rd'[t] = local[t]
    BY <1>0, <1>9 DEF StoreIndex, StoreIndexLast, AfterMessage, Alive, Mid, Committed,
       pubLocal, SubscriberTypeOK, SharedTypeOK
  <2>2. Backlog(rd'[t], wr') = Backlog(rd[t], wr) - 1
    BY <1>9, <2>1, StoreMovesOn DEF StoreIndex, StoreIndexLast
  <2>3. Position(t)' = Position(t) /\ AtReadIndex(t)' = AtReadIndex(t) + 1
    BY <2>1, <2>2, LevelTypes DEF Position, AtReadIndex
  <2>4. Position(t) - AtReadIndex(t) = 1
    BY <1>a, <2>1 DEF Level
  <2> QED BY <2>1, <2>3, <2>4, LevelTypes DEF Level
<1>10. CASE \/ DataEvent(t) \/ LoadWrapped(t) \/ LoadContiguous(t) \/ ClearBit(t)
            \/ Release(t) \/ Link(t) \/ Push(t) \/ SignalSpace(t)
  <2>1. /\ Alive(t) /\ UNCHANGED <<rd, wr, expected, joined, ppc, nextSeq>>
    BY <1>10 DEF DataEvent, LoadWrapped, LoadContiguous, ClearBit, Release, Link, Push,
        SignalSpace, Alive, shared, pubLocal
  <2>2. spc'[t] \in Mid <=> spc[t] \in Mid
    BY <1>0, <1>10 DEF DataEvent, LoadWrapped, LoadContiguous, ClearBit, Release, Link,
        Push, SignalSpace, AfterMessage, SubscriberTypeOK, Mid
  <2> QED BY <1>1, <2>1, <2>2 DEF Committed
<1>11. CASE Leave(t)
  BY <1>0, <1>11 DEF Leave, Alive, SubscriberTypeOK
<1> QED
  BY <1>2, <1>3, <1>4, <1>5, <1>6, <1>7, <1>8, <1>9, <1>10, <1>11
  DEF Next, PublishStep, ReapStep, SubscriberStep

-----------------------------------------------------------------------------
LEMMA SafetyInit == Init => CountInv /\ HeldInv /\ NoLap
<1> SUFFICES ASSUME Init PROVE CountInv /\ HeldInv /\ NoLap
  OBVIOUS
<1>1. CountInv
  BY DEF Init, CountInv, GivingBack
<1>2. wr = 0 /\ wr \in Index /\ nextSeq = 0 /\ ppc = "idle"
  BY Values DEF Init
<1>3. ASSUME NEW s \in Slots, Alive(s)
      PROVE  rd[s] = 0 /\ spc[s] = "idle" /\ expected[s] = NoSeq /\ joined[s] = 0
  BY <1>3 DEF Init, Alive
<1>4. Backlog(0, 0) = 0
  BY DEF Backlog
<1>5. HeldInv
  BY <1>2, <1>3, <1>4 DEF HeldInv, Unread
<1>6. NoLap
  BY <1>2, <1>3, <1>4 DEF NoLap, Position, AtReadIndex, Committed
<1> QED BY <1>1, <1>5, <1>6

LEMMA SafetyCorrect == Spec => []SafetyInv
<1>1. Init => SafetyInv
  BY CursorInit, SafetyInit DEF SafetyInv
<1>2. SafetyInv /\ [Next]_vars => SafetyInv'
  <2> SUFFICES ASSUME SafetyInv, [Next]_vars PROVE SafetyInv'
    OBVIOUS
  <2>1. CursorInv' /\ CountInv' /\ HeldInv'
    BY CursorStep, CountStep, HeldStep DEF SafetyInv
  <2>2. \A t \in Slots : Alive(t)' => Level(t)'
    BY LevelStep DEF SafetyInv
  <2>3. NoLap'
    BY <2>2 DEF NoLap, Level, Mid
  <2> QED BY <2>1, <2>3 DEF SafetyInv
<1> QED BY <1>1, <1>2, PTL DEF Spec

(***************************************************************************)
(* The backpressure test of try_publish_one keeps the write index from     *)
(* lapping a reader, and track_subscriber starts a late one at the message *)
(* published next.                                                         *)
(***************************************************************************)
THEOREM NeverLapped == Spec => []NoLap
BY SafetyCorrect, PTL DEF SafetyInv

(***************************************************************************)
(* Whatever waits for a living subscriber is held for it: descriptor, bit, *)
(* tracker and sequence number, wherever the others are in read_data, end  *)
(* or are reaped.                                                          *)
(***************************************************************************)
THEOREM WaitingIsHeld == Spec => []UnreadIsHeld
<1>1. SafetyInv => UnreadIsHeld
  <2> SUFFICES ASSUME SafetyInv, NEW s \in Slots, Alive(s), NEW i \in Unread(s)
               PROVE  /\ s \in refs[ring[i]] /\ inUse[ring[i]]
                      /\ seqOf[ring[i]] = Committed - Backlog(i, wr)
    BY DEF UnreadIsHeld
  <2>1. Holds(s, i)
    BY DEF SafetyInv, HeldInv
  <2>2. ring[i] \in Chunk
    BY UnreadRange DEF SafetyInv, CursorInv, TypeOK, SharedTypeOK
  <2> HIDE DEF Chunk
  <2> QED BY <2>1, <2>2 DEF Holds, SafetyInv, CountInv
<1> QED BY <1>1, SafetyCorrect, PTL

(***************************************************************************)
(* The double-free checks of read_data never fire, fetch_add on the mask   *)
(* of a new message meets zero, and a chunk with a bit set is in use.      *)
(***************************************************************************)
THEOREM CountsAreSound == Spec => []CountIsZero
<1>1. SafetyInv => CountIsZero
  BY DEF SafetyInv, CountInv, CountIsZero, GivingBack
<1> QED BY <1>1, SafetyCorrect, PTL

-----------------------------------------------------------------------------
(* The data plane implements MessageLog. *)

\* Past the backpressure test there is a slot in use: without one the slowest
\* index is kInvalidIndex and the test says Blocked.
SomeoneTracked == ppc \in {"alloc", "write", "commit"} => Tracked # {}

LEMMA SomeoneTrackedStep ==
  CursorInv /\ SomeoneTracked /\ [Next]_vars => SomeoneTracked'
<1> SUFFICES ASSUME CursorInv, SomeoneTracked, [Next]_vars PROVE SomeoneTracked'
  OBVIOUS
<1>0. SharedTypeOK /\ PublisherTypeOK /\ SubscriberTypeOK
  BY DEF CursorInv, TypeOK
<1> USE DEF SomeoneTracked, Tracked
<1>1. CASE rd' = rd /\ (ppc' = ppc \/ ppc' \notin {"alloc", "write", "commit"}
                                 \/ ppc \in {"alloc", "write", "commit"})
  BY <1>1
<1>2. CASE ScanRing
  <2>1. DescriptorAvailable(rd, wr) => InUse(rd) # {}
    BY DEF DescriptorAvailable, IsSlowestReadIndex, SlowestGroup, BeforeWrap
  <2> QED BY <1>2, <2>1 DEF ScanRing, shared
<1>3. CASE \/ PublishCall \/ FreeListEmpty \/ TakeChunk \/ WriteMessage \/ Commit
           \/ SpaceEvent \/ WaitTimeout \/ EventsDone \/ ReapKeep \/ ReapRelease \/ ReapLink
           \/ ReapPush \/ ControlDone \/ UNCHANGED vars
           \/ \E s \in Slots : SignalData(s) \/ ReapBegin(s)
  BY <1>0, <1>1, <1>3
  DEF PublishCall, FreeListEmpty, TakeChunk, WriteMessage, Commit, SpaceEvent, WaitTimeout, EventsDone,
      ReapKeep, ReapRelease, ReapLink, ReapPush, ControlDone, SignalData, ReapBegin, vars,
      shared, pubLocal, PublisherTypeOK
<1>4. CASE ReapEnd \/ \E s \in Slots : Track(s)
  BY <1>4 DEF ReapEnd, Track
<1>5. ASSUME NEW s \in Slots,
             \/ DataEvent(s) \/ LoadWrapped(s) \/ LoadContiguous(s) \/ Deliver(s)
             \/ ClearBit(s) \/ Release(s) \/ Link(s) \/ Push(s) \/ SignalSpace(s)
             \/ Leave(s)
      PROVE  SomeoneTracked'
  BY <1>1, <1>5
  DEF DataEvent, LoadWrapped, LoadContiguous, Deliver, ClearBit, Release, Link, Push,
      SignalSpace, Leave, shared, pubLocal
<1>6. ASSUME NEW s \in Slots, StoreIndex(s) \/ StoreIndexLast(s) PROVE SomeoneTracked'
  <2>1. rd' = [rd EXCEPT ![s] = local[s]] /\ local[s] \in Index
    BY <1>6, StoreMovesOn DEF StoreIndex, StoreIndexLast
  <2>2. s \in InUse(rd')
    BY <1>0, <2>1, Values DEF InUse, SharedTypeOK
  <2> QED BY <2>2
<1> QED
  BY <1>2, <1>3, <1>4, <1>5, <1>6 DEF Next, PublishStep, ReapStep, SubscriberStep

LogInv == SafetyInv /\ SomeoneTracked

\* A living subscriber's position is a number of the log, not behind its read
\* index.
LEMMA PositionRange ==
  ASSUME SafetyInv, NEW s \in Slots, Alive(s)
  PROVE  /\ LogPosition[s] = Position(s) /\ Position(s) >= 0
         /\ Position(s) \in Int /\ AtReadIndex(s) \in Int
         /\ Position(s) >= AtReadIndex(s)
<1>1. LogPosition[s] = Position(s)
  BY DEF LogPosition, Alive
<1>2. expected[s] \in {NoSeq} \cup 1 .. MaxSeq + 1 /\ joined[s] \in 0 .. MaxSeq
  BY DEF SafetyInv, CursorInv, TypeOK, SubscriberTypeOK
<1>3. Position(s) >= 0
  BY <1>2 DEF Position, NoSeq
<1>4. Position(s) \in Int /\ AtReadIndex(s) \in Int
  BY LevelTypes DEF SafetyInv
<1>5. Level(s)
  BY DEF SafetyInv, NoLap, Level, Mid
<1> QED BY <1>1, <1>3, <1>4, <1>5 DEF Level

\* Values of the abstract position, slot by slot.
LEMMA LogPositionValue ==
  ASSUME NEW s \in Slots
  PROVE  /\ spc[s] = "absent" => LogPosition[s] = -1
         /\ spc[s] = "dead" => LogPosition[s] = -2
         /\ Alive(s) => LogPosition[s] = Position(s)
BY DEF LogPosition, Alive

LEMMA CommitPublishes ==
  ASSUME LogInv, Commit
  PROVE  Log!Publish
<1>0. /\ CursorInv /\ SharedTypeOK /\ PublisherTypeOK /\ SubscriberTypeOK
      /\ SafetyInv /\ SomeoneTracked
  BY DEF LogInv, SafetyInv, CursorInv, TypeOK
<1>1. Committed' = Committed + 1 /\ Committed \in Int /\ LogPosition' = LogPosition
  BY <1>0 DEF Commit, Committed, LogPosition, Position, subLocal, PublisherTypeOK
<1>2. PICK s \in Slots : s \in Tracked
  BY <1>0 DEF SomeoneTracked, Commit, Tracked, InUse, SharedTypeOK
<1>3. spc[s] # "absent"
  BY <1>0, <1>2 DEF CursorInv, SlotInv, Tracked, InUse
<1>4. LogPosition[s] # -1
  BY <1>0, <1>3, PositionRange DEF LogPosition, Alive
<1>5. ASSUME NEW t \in Slots, LogPosition[t] >= 0
      PROVE  Committed - LogPosition[t] < SlotCount - 1
  <2>1. Alive(t)
    BY <1>5, LogPositionValue DEF Alive
  <2>2. LogPosition[t] \in Int /\ LogPosition[t] >= AtReadIndex(t) /\ AtReadIndex(t) \in Int
    BY <1>0, <2>1, PositionRange
  <2>3. t \in Tracked
    BY <1>0, <2>1, UnreadRange, Values DEF Tracked, InUse, SharedTypeOK
  <2>4. Backlog(rd[t], wr) <= SlotCount - 2 /\ Backlog(rd[t], wr) \in Nat
    BY <1>0, <2>1, <2>3, LevelTypes DEF CursorInv, PublisherInv, Commit
  <2>5. AtReadIndex(t) = Committed - Backlog(rd[t], wr)
    BY DEF AtReadIndex
  <2> QED BY <1>1, <2>2, <2>4, <2>5
<1> QED BY <1>1, <1>2, <1>4, <1>5 DEF Log!Publish, Log!Present, Log!Absent

LEMMA DeliverDelivers ==
  ASSUME LogInv, NEW s \in Slots, Deliver(s)
  PROVE  Log!Deliver(s) \/ UNCHANGED <<Committed, LogPosition>>
<1>0. /\ CursorInv /\ SharedTypeOK /\ PublisherTypeOK /\ SubscriberTypeOK
      /\ SafetyInv
  BY DEF LogInv, SafetyInv, CursorInv, TypeOK
<1>1. /\ Alive(s) /\ spc[s] = "read" /\ Alive(s)'
      /\ \A t \in Slots \ {s} : spc'[t] = spc[t] /\ expected'[t] = expected[t]
      /\ joined' = joined /\ Committed' = Committed
  BY <1>0 DEF Deliver, Alive, SubscriberTypeOK, pubLocal, Committed
<1>2. CASE Readable(s)
  <2>1. expected'[s] = seqOf[Current(s)] + 1
    BY <1>0, <1>2 DEF Deliver, SubscriberTypeOK
  <2>2. seqOf[Current(s)] = AtReadIndex(s) /\ seqOf[Current(s)] \in Nat
    BY <1>0, <1>1, AtFront DEF SafetyInv, HeldInv, Holds, AtReadIndex, SharedTypeOK
  <2>3. Position(s)' = AtReadIndex(s) + 1
    BY <2>1, <2>2 DEF Position, NoSeq
  <2>4. AtReadIndex(s) = Position(s)
    BY <1>0, <1>1, PositionRange DEF SafetyInv, NoLap
  <2>5. AtReadIndex(s) < Committed
    <3>1. rd[s] \in Unread(s)
      BY <1>0, <1>1, AtFront
    <3>2. Backlog(rd[s], wr) >= 1
      BY <1>0, <1>1, <3>1, UnreadRange
    <3> QED BY <1>0, <1>1, <3>2, LevelTypes DEF AtReadIndex
  <2>6. LogPosition' = [LogPosition EXCEPT ![s] = @ + 1]
    <3>1. LogPosition'[s] = LogPosition[s] + 1
      BY <1>1, <2>3, <2>4 DEF LogPosition, Alive
    <3>2. \A t \in Slots \ {s} : LogPosition'[t] = LogPosition[t]
      BY <1>1 DEF LogPosition, Position
    <3> QED BY <3>1, <3>2 DEF LogPosition
  <2>7. LogPosition[s] = Position(s) /\ Position(s) >= 0
    BY <1>0, <1>1, PositionRange
  <2> QED BY <1>1, <2>4, <2>5, <2>6, <2>7 DEF Log!Deliver, Log!Present
<1>3. CASE ~Readable(s)
  <2>1. expected' = expected
    BY <1>3 DEF Deliver
  <2>2. \A t \in Slots : LogPosition'[t] = LogPosition[t]
    BY <1>1, <2>1 DEF LogPosition, Position, Alive
  <2>3. LogPosition' = LogPosition
    BY <2>2 DEF LogPosition
  <2> QED BY <1>1, <2>3
<1> QED BY <1>2, <1>3

LEMMA LifecycleMaps ==
  ASSUME LogInv, NEW s \in Slots
  PROVE  /\ Track(s) => Log!Join(s)
         /\ Leave(s) => Log!Die(s)
         /\ ReapEnd /\ s = pslot => Log!Forget(s)
<1>0. /\ CursorInv /\ SharedTypeOK /\ PublisherTypeOK /\ SubscriberTypeOK
      /\ SafetyInv
  BY DEF LogInv, SafetyInv, CursorInv, TypeOK
<1>1. ASSUME Track(s) PROVE Log!Join(s)
  <2>1. /\ spc[s] = "absent" /\ spc'[s] = "idle" /\ joined'[s] = nextSeq
        /\ \A t \in Slots \ {s} : spc'[t] = spc[t] /\ joined'[t] = joined[t]
        /\ expected' = expected /\ UNCHANGED nextSeq
    BY <1>0, <1>1 DEF Track, SubscriberTypeOK
  <2>2. expected[s] = NoSeq
    BY <1>0, <2>1 DEF CursorInv, SlotInv
  <2>3. Committed = nextSeq /\ Committed' = nextSeq
    BY <1>1, <2>1 DEF Track, ControlPoint, Committed
  <2>4. LogPosition[s] = -1 /\ LogPosition'[s] = Committed
    BY <2>1, <2>2, <2>3 DEF LogPosition, Position
  <2>5. \A t \in Slots \ {s} : LogPosition'[t] = LogPosition[t]
    BY <2>1 DEF LogPosition, Position
  <2>6. LogPosition' = [LogPosition EXCEPT ![s] = Committed]
    BY <2>4, <2>5 DEF LogPosition
  <2> QED BY <2>3, <2>4, <2>6 DEF Log!Join, Log!Absent
<1>2. ASSUME Leave(s) PROVE Log!Die(s)
  <2>1. /\ Alive(s) /\ spc'[s] = "dead"
        /\ \A t \in Slots \ {s} :
             spc'[t] = spc[t] /\ joined'[t] = joined[t] /\ expected'[t] = expected[t]
        /\ Committed' = Committed
    BY <1>0, <1>2 DEF Leave, SubscriberTypeOK, Alive, Committed, pubLocal
  <2>2. LogPosition[s] >= 0 /\ LogPosition'[s] = -2
    BY <1>0, <2>1, PositionRange DEF LogPosition
  <2>3. \A t \in Slots \ {s} : LogPosition'[t] = LogPosition[t]
    BY <2>1 DEF LogPosition, Position
  <2>4. LogPosition' = [LogPosition EXCEPT ![s] = -2]
    BY <2>2, <2>3 DEF LogPosition
  <2> QED BY <2>1, <2>2, <2>4 DEF Log!Die, Log!Present, Log!Gone
<1>3. ASSUME ReapEnd, s = pslot PROVE Log!Forget(s)
  <2>1. /\ spc[s] = "dead" /\ spc'[s] = "absent"
        /\ \A t \in Slots \ {s} : spc'[t] = spc[t]
        /\ UNCHANGED <<joined, expected, Committed>>
    BY <1>0, <1>3 DEF ReapEnd, SubscriberTypeOK, CursorInv, PublisherInv, Reaping,
       Committed
  <2>2. LogPosition[s] = -2 /\ LogPosition'[s] = -1
    BY <2>1 DEF LogPosition
  <2>3. \A t \in Slots \ {s} : LogPosition'[t] = LogPosition[t]
    BY <2>1 DEF LogPosition, Position
  <2>4. LogPosition' = [LogPosition EXCEPT ![s] = -1]
    BY <2>2, <2>3 DEF LogPosition
  <2> QED BY <2>1, <2>2, <2>4 DEF Log!Forget, Log!Gone, Log!Absent
<1> QED BY <1>1, <1>2, <1>3

LEMMA LogStep ==
  LogInv /\ [Next]_vars => [Log!Next]_<<Committed, LogPosition>>
<1> SUFFICES ASSUME LogInv, [Next]_vars PROVE [Log!Next]_<<Committed, LogPosition>>
  OBVIOUS
<1>0. SharedTypeOK /\ PublisherTypeOK /\ SubscriberTypeOK /\ CursorInv
  BY DEF LogInv, SafetyInv, CursorInv, TypeOK
<1>1. CASE Commit
  BY <1>1, CommitPublishes DEF Log!Next
<1>2. ASSUME NEW s \in Slots, Deliver(s) PROVE [Log!Next]_<<Committed, LogPosition>>
  BY <1>2, DeliverDelivers DEF Log!Next
<1>3. ASSUME NEW s \in Slots, Track(s) \/ Leave(s) PROVE [Log!Next]_<<Committed, LogPosition>>
  BY <1>3, LifecycleMaps DEF Log!Next
<1>4. CASE ReapEnd
  BY <1>0, <1>4, LifecycleMaps DEF Log!Next, PublisherTypeOK
<1>5. ASSUME UNCHANGED <<Committed, expected, joined>>,
             \A t \in Slots : spc'[t] = spc[t] \/ (Alive(t) /\ Alive(t)')
      PROVE  UNCHANGED <<Committed, LogPosition>>
  BY <1>5 DEF LogPosition, Position, Alive
<1>6. CASE \/ PublishCall \/ ScanRing \/ FreeListEmpty \/ TakeChunk \/ WriteMessage
           \/ SpaceEvent \/ WaitTimeout \/ EventsDone \/ ReapKeep \/ ReapRelease \/ ReapLink
           \/ ReapPush \/ ControlDone \/ UNCHANGED vars
           \/ \E s \in Slots : SignalData(s) \/ ReapBegin(s)
  <2>1. UNCHANGED subLocal
    BY <1>6
    DEF PublishCall, ScanRing, FreeListEmpty, TakeChunk, WriteMessage, SpaceEvent,
        WaitTimeout, EventsDone, ReapKeep, ReapRelease, ReapLink, ReapPush, ControlDone, SignalData,
        ReapBegin, vars, subLocal
  <2>2. Committed' = Committed
    BY <1>0, <1>6
    DEF PublishCall, ScanRing, FreeListEmpty, TakeChunk, WriteMessage, SpaceEvent,
        WaitTimeout, EventsDone, ReapKeep, ReapRelease, ReapLink, ReapPush, ControlDone, SignalData,
        ReapBegin, vars, pubLocal, ControlPoint, Committed, PublisherTypeOK
  <2> QED BY <1>5, <2>1, <2>2 DEF subLocal
<1>7. ASSUME NEW s \in Slots,
             \/ DataEvent(s) \/ LoadWrapped(s) \/ LoadContiguous(s) \/ ClearBit(s)
             \/ StoreIndex(s) \/ StoreIndexLast(s) \/ Release(s) \/ Link(s) \/ Push(s)
             \/ SignalSpace(s)
      PROVE  UNCHANGED <<Committed, LogPosition>>
  <2>1. UNCHANGED <<expected, joined, ppc, nextSeq>>
    BY <1>7
    DEF DataEvent, LoadWrapped, LoadContiguous, ClearBit, StoreIndex, StoreIndexLast,
        Release, Link, Push, SignalSpace, pubLocal
  <2>2. Alive(s) /\ Alive(s)' /\ \A t \in Slots \ {s} : spc'[t] = spc[t]
    BY <1>0, <1>7
    DEF DataEvent, LoadWrapped, LoadContiguous, ClearBit, StoreIndex, StoreIndexLast,
        Release, Link, Push, SignalSpace, AfterMessage, Alive, SubscriberTypeOK
  <2> QED BY <1>5, <2>1, <2>2 DEF Committed
<1> QED
  BY <1>1, <1>2, <1>3, <1>4, <1>6, <1>7 DEF Next, PublishStep, ReapStep, SubscriberStep

(***************************************************************************)
(* publish() and read_data, with the subscribers that come, die and are    *)
(* reaped, implement the log: what is proved of MessageLog holds of them.  *)
(***************************************************************************)
THEOREM DataPlaneImplementsLog == Spec => ImplementsLog
<1>1. Init => Log!Init
  <2> SUFFICES ASSUME Init PROVE Log!Init
    OBVIOUS
  <2>1. Committed = 0
    BY DEF Init, Committed
  <2>2. \A s \in Slots : LogPosition[s] \in {-1, 0}
    BY DEF Init, LogPosition, Position
  <2> QED BY <2>1, <2>2 DEF Log!Init, Log!Absent, LogPosition
<1>2. Init => SomeoneTracked
  BY DEF Init, SomeoneTracked
<1>3. SafetyInv /\ SomeoneTracked /\ [Next]_vars => SomeoneTracked'
  BY SomeoneTrackedStep DEF SafetyInv
<1>4. Spec => []SomeoneTracked
  BY <1>2, <1>3, SafetyCorrect, PTL DEF Spec
<1>5. SafetyInv /\ SomeoneTracked /\ [Next]_vars => [Log!Next]_<<Committed, LogPosition>>
  BY LogStep DEF LogInv
<1> QED
  BY <1>1, <1>4, <1>5, SafetyCorrect, PTL DEF Spec, ImplementsLog, Log!Spec

=============================================================================
