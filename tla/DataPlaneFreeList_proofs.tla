---------------------- MODULE DataPlaneFreeList_proofs ----------------------
(***************************************************************************)
(* Proofs about the free list of DataPlane, which a popping publisher, the *)
(* pushes of any subscriber and of the reaping publisher, and deaths in    *)
(* the middle of a push share without a lock.  First who holds what and    *)
(* who gives chunks back, then the list, then what the publisher pops.     *)
(***************************************************************************)
EXTENDS DataPlane_proofs, ListLemmas, FiniteSetTheorems

-----------------------------------------------------------------------------
(* Who gives chunks back *)

(***************************************************************************)
(* Every slot in use, alive, dead or being reaped, holds the last Owns of  *)
(* the committed messages: all from the descriptor it has reached, without *)
(* the first when its bit is already cleared.                              *)
(***************************************************************************)
BeingReaped(t) == ppc \in Reaping /\ t = pslot

Start(t) == IF BeingReaped(t) THEN ppos ELSE rd[t]

Dropped(t) ==
  spc[t] # "absent" /\ Start(t) # wr /\ t \notin refs[ring[Start(t)]]

Owns(t) ==
  IF spc[t] = "absent" THEN 0
  ELSE Backlog(Start(t), wr) - (IF Dropped(t) THEN 1 ELSE 0)

OwnedIsHeld ==
  \A t \in Slots : \A i \in Index : Backlog(i, wr) \in 1 .. Owns(t) => Holds(t, i)

WrittenIsHeld ==
  ppc = "commit" =>
    seqOf[ring[wr]] = nextSeq - 1 /\ \A t \in Tracked : t \in refs[ring[wr]]

DroppedUntilStored ==
  \A t \in Slots : Alive(t) => (Dropped(t) <=> spc[t] \in {"store", "storeLast"})

SuffixInv == OwnedIsHeld /\ WrittenIsHeld /\ DroppedUntilStored

LEMMA StartTypes ==
  ASSUME CursorInv, NEW t \in Slots, spc[t] # "absent"
  PROVE  /\ Start(t) \in Index /\ wr \in Index /\ ring[Start(t)] \in Chunk
         /\ rd[t] \in Index /\ t \in Tracked
<1>1. /\ rd \in [Slots -> Index \cup {InvalidIndex}] /\ wr \in Index
      /\ ring \in [Index -> Chunk] /\ ppos \in Index
  BY DEF CursorInv, TypeOK, SharedTypeOK, PublisherTypeOK
<1>2. rd[t] \in Index /\ t \in Tracked
  BY <1>1 DEF CursorInv, SlotInv, Tracked, InUse
<1>3. Start(t) \in Index
  BY <1>1, <1>2 DEF Start
<1> QED BY <1>1, <1>2, <1>3

LEMMA OwnsTypes ==
  ASSUME CursorInv, NEW t \in Slots
  PROVE  /\ Owns(t) \in Nat
         /\ spc[t] # "absent" =>
              /\ Backlog(Start(t), wr) \in Nat
              /\ Owns(t) = Backlog(Start(t), wr) - (IF Dropped(t) THEN 1 ELSE 0)
              /\ Owns(t) <= Backlog(Start(t), wr)
         /\ Dropped(t) => Backlog(Start(t), wr) >= 1
<1>1. CASE spc[t] = "absent"
  BY <1>1 DEF Owns, Dropped
<1>2. CASE spc[t] # "absent"
  <2>1. Start(t) \in Index /\ wr \in Index
    BY <1>2, StartTypes
  <2>2. /\ Backlog(Start(t), wr) \in Nat
        /\ Backlog(Start(t), wr) = 0 <=> Start(t) = wr
    BY <2>1, BacklogRange
  <2>3. Dropped(t) => Backlog(Start(t), wr) >= 1
    BY <2>2 DEF Dropped
  <2> HIDE DEF Dropped
  <2> QED BY <1>2, <2>2, <2>3 DEF Owns
<1> QED BY <1>1, <1>2

\* What a slot owns is a matter of its cursor and of its bit there.
LEMMA OwnsFrame ==
  ASSUME NEW t \in Slots,
         spc'[t] = "absent" <=> spc[t] = "absent",
         UNCHANGED <<wr, Start(t)>>,
         spc[t] # "absent" /\ Start(t) # wr
           => (t \in refs'[ring'[Start(t)]] <=> t \in refs[ring[Start(t)]])
  PROVE  Owns(t)' = Owns(t) /\ (Dropped(t)' <=> Dropped(t))
<1>1. Dropped(t)' <=> Dropped(t)
  BY DEF Dropped
<1> HIDE DEF Dropped
<1> QED BY <1>1 DEF Owns

\* The actions after which nobody's cursor or bit has changed.
Quiet ==
  \/ PublishCall \/ ScanRing \/ FreeListEmpty \/ TakeChunk \/ SpaceEvent \/ EventsDone
  \/ WaitTimeout \/ ControlDone \/ ReapLink
  \/ \E s \in Slots : \/ SignalData(s) \/ ReapBegin(s) \/ DataEvent(s) \/ LoadWrapped(s)
                      \/ LoadContiguous(s) \/ Deliver(s) \/ Release(s) \/ Link(s) \/ Push(s)
                      \/ SignalSpace(s) \/ Leave(s)

LEMMA QuietFacts ==
  ASSUME CursorInv, Quiet \/ UNCHANGED vars
  PROVE  /\ UNCHANGED <<rd, wr, ring, seqOf, refs, nextSeq, Committed, InUse(rd)>>
         /\ ppc = "commit" <=> ppc' = "commit"
         /\ \A t \in Slots : /\ Start(t)' = Start(t)
                             /\ spc'[t] = "absent" <=> spc[t] = "absent"
<1>0. SharedTypeOK /\ PublisherTypeOK /\ SubscriberTypeOK
  BY DEF CursorInv, TypeOK
<1>1. CASE \/ PublishCall \/ ScanRing \/ FreeListEmpty \/ TakeChunk \/ SpaceEvent
           \/ EventsDone \/ WaitTimeout \/ ControlDone \/ ReapLink
           \/ \E s \in Slots : SignalData(s)
  <2>1. /\ UNCHANGED <<rd, wr, ring, seqOf, refs, nextSeq, spc, pslot, ppos>>
        /\ ppc # "commit" /\ ppc' # "commit"
        /\ ppc \in Reaping <=> ppc' \in Reaping
    BY <1>0, <1>1
    DEF PublishCall, ScanRing, FreeListEmpty, TakeChunk, SpaceEvent, EventsDone, WaitTimeout,
        ControlDone, ReapLink, SignalData, shared, freeList, subLocal, PublisherTypeOK, Reaping
  <2> QED BY <2>1 DEF Committed, InUse, Start, BeingReaped
<1>2. ASSUME NEW s \in Slots, ReapBegin(s)
      PROVE  /\ UNCHANGED <<rd, wr, ring, seqOf, refs, nextSeq, spc>>
             /\ ppc # "commit" /\ ppc' # "commit"
             /\ \A t \in Slots : Start(t)' = Start(t)
  BY <1>2 DEF ReapBegin, ControlPoint, shared, subLocal, Start, BeingReaped, Reaping
<1>3. ASSUME NEW s \in Slots,
             \/ DataEvent(s) \/ LoadWrapped(s) \/ LoadContiguous(s) \/ Deliver(s)
             \/ Release(s) \/ Link(s) \/ Push(s) \/ SignalSpace(s) \/ Leave(s)
      PROVE  /\ UNCHANGED <<rd, wr, ring, seqOf, refs, nextSeq, ppc, pslot, ppos>>
             /\ \A t \in Slots : spc'[t] = "absent" <=> spc[t] = "absent"
  BY <1>0, <1>3
  DEF DataEvent, LoadWrapped, LoadContiguous, Deliver, Release, Link, Push, SignalSpace, Leave,
      Alive, AfterMessage, shared, freeList, pubLocal, SubscriberTypeOK
<1>4. CASE UNCHANGED vars
  BY <1>4 DEF vars, shared, pubLocal, subLocal, Committed, InUse, Start, BeingReaped
<1> QED
  BY <1>1, <1>2, <1>3, <1>4 DEF Quiet, Committed, InUse, Start, BeingReaped

LEMMA QuietOwns ==
  ASSUME CursorInv, Quiet \/ UNCHANGED vars, NEW t \in Slots
  PROVE  Owns(t)' = Owns(t) /\ (Dropped(t)' <=> Dropped(t))
BY QuietFacts, OwnsFrame

\* The descriptor after the first one of a slot that owns something is its own.
LEMMA NextOwned ==
  ASSUME CursorInv, SuffixInv, NEW t \in Slots, spc[t] # "absent", Start(t) # wr
  PROVE  /\ AdvanceRead(Start(t)) \in Index
         /\ Backlog(AdvanceRead(Start(t)), wr) = Backlog(Start(t), wr) - 1
         /\ Backlog(Start(t), wr) \in Nat /\ Backlog(Start(t), wr) >= 1
         /\ AdvanceRead(Start(t)) # wr => Holds(t, AdvanceRead(Start(t)))
<1>1. Start(t) \in Index /\ wr \in Index
  BY StartTypes
<1> DEFINE j == AdvanceRead(Start(t))
<1>2. j \in Index /\ Backlog(j, wr) = Backlog(Start(t), wr) - 1
  BY <1>1, ReadShrinksBacklog
<1>3. /\ Backlog(Start(t), wr) \in Nat /\ Backlog(Start(t), wr) >= 1
      /\ Backlog(j, wr) \in Nat /\ (j # wr => Backlog(j, wr) >= 1)
  <2> HIDE DEF j
  <2> QED BY <1>1, <1>2, BacklogRange
<1>4. Backlog(j, wr) <= Owns(t)
  BY <1>2, <1>3, OwnsTypes
<1>5. j # wr => Holds(t, j)
  <2>1. j # wr => Backlog(j, wr) \in 1 .. Owns(t)
    BY <1>3, <1>4, OwnsTypes
  <2> QED BY <1>2, <2>1 DEF SuffixInv, OwnedIsHeld
<1> QED BY <1>2, <1>3, <1>5

\* A slot passes a descriptor whose bit it has cleared, earlier or in this step.
LEMMA FrontPassed ==
  ASSUME CursorInv, SuffixInv, NEW t \in Slots, spc[t] # "absent", spc'[t] # "absent",
         Start(t) # wr, Start(t)' = AdvanceRead(Start(t)), UNCHANGED <<wr, ring>>,
         LET j == AdvanceRead(Start(t)) IN
           j # wr /\ t \in refs[ring[j]] => t \in refs'[ring[j]]
  PROVE  Owns(t)' = Backlog(Start(t), wr) - 1 /\ ~Dropped(t)'
<1>1. ~Dropped(t)'
  BY NextOwned DEF Dropped, Holds
<1>2. Backlog(Start(t)', wr') = Backlog(Start(t), wr) - 1
  BY NextOwned
<1> HIDE DEF Dropped
<1> QED BY <1>1, <1>2, NextOwned DEF Owns

\* The index store of read_data.
LEMMA OwnsAfterStore ==
  ASSUME CursorInv, SuffixInv, NEW s \in Slots, StoreIndex(s) \/ StoreIndexLast(s)
  PROVE  /\ UNCHANGED <<wr, ring, seqOf, refs, nextSeq, Committed, ppc, Tracked>>
         /\ ~Dropped(s)'
         /\ \A t \in Slots : Owns(t)' = Owns(t)
         /\ \A t \in Slots \ {s} : Dropped(t)' <=> Dropped(t)
<1>0. SharedTypeOK /\ PublisherTypeOK /\ SubscriberTypeOK
  BY DEF CursorInv, TypeOK
<1>1. /\ UNCHANGED <<wr, ring, seqOf, refs, nextSeq, Committed, ppc, pslot, ppos>>
      /\ spc[s] \in {"store", "storeLast"} /\ spc'[s] \notin {"absent", "dead"}
      /\ rd' = [rd EXCEPT ![s] = local[s]]
      /\ \A t \in Slots \ {s} : spc'[t] = spc[t]
  BY <1>0 DEF StoreIndex, StoreIndexLast, pubLocal, Committed, AfterMessage, SubscriberTypeOK
<1>2. ~BeingReaped(s) /\ ~BeingReaped(s)'
  BY <1>1 DEF BeingReaped, CursorInv, PublisherInv
<1>3. Alive(s) /\ Dropped(s) /\ spc[s] # "absent"
  BY <1>1 DEF SuffixInv, DroppedUntilStored, Alive
<1>4. local[s] = AdvanceRead(rd[s]) /\ local[s] \in Index
  BY <1>1, StoreMovesOn DEF CursorInv, SlotInv
<1>5. Start(s) # wr /\ Start(s)' = AdvanceRead(Start(s))
  BY <1>0, <1>1, <1>2, <1>3, <1>4 DEF Start, Dropped, SharedTypeOK
<1>6. Owns(s)' = Owns(s) /\ ~Dropped(s)'
  <2>1. Owns(s)' = Backlog(Start(s), wr) - 1 /\ ~Dropped(s)'
    BY <1>1, <1>3, <1>5, FrontPassed
  <2> QED BY <1>3, <2>1, OwnsTypes
<1>7. ASSUME NEW t \in Slots \ {s} PROVE Owns(t)' = Owns(t) /\ (Dropped(t)' <=> Dropped(t))
  <2>1. Start(t)' = Start(t)
    BY <1>0, <1>1 DEF Start, BeingReaped, SharedTypeOK
  <2> QED BY <1>1, <2>1, OwnsFrame
<1>8. Tracked' = Tracked
  <2>1. s \in Tracked /\ DOMAIN rd = Slots /\ DOMAIN rd' = Slots
    BY <1>0, <1>1, <1>3, StartTypes DEF SharedTypeOK
  <2>2. rd'[s] # InvalidIndex /\ \A t \in Slots \ {s} : rd'[t] = rd[t]
    BY <1>0, <1>1, <1>4, Values DEF SharedTypeOK
  <2> QED BY <2>1, <2>2 DEF Tracked, InUse
<1> QED BY <1>1, <1>6, <1>7, <1>8

\* What is released is pushed, and the reaper goes on.
LEMMA OwnsAfterReapPush ==
  ASSUME CursorInv, SuffixInv, ReapPush, Dropped(pslot)
  PROVE  /\ UNCHANGED <<rd, wr, ring, seqOf, refs, nextSeq, Committed>>
         /\ ppc # "commit" /\ ppc' # "commit" /\ UNCHANGED spc
         /\ ~Dropped(pslot)'
         /\ \A t \in Slots : Owns(t)' = Owns(t)
         /\ \A t \in Slots \ {pslot} : Dropped(t)' <=> Dropped(t)
<1>0. SharedTypeOK /\ PublisherTypeOK /\ SubscriberTypeOK
  BY DEF CursorInv, TypeOK
<1>1. /\ UNCHANGED <<rd, wr, ring, seqOf, refs, nextSeq, spc, pslot>>
      /\ ppc = "reapPush" /\ ppc' = "reap" /\ ppos' = AdvanceRead(ppos)
  BY DEF ReapPush, subLocal
<1>2. /\ Start(pslot) = ppos /\ Start(pslot)' = AdvanceRead(ppos)
      /\ spc[pslot] # "absent" /\ Start(pslot) # wr
  BY <1>1 DEF Start, BeingReaped, Reaping, Dropped
<1>3. Owns(pslot)' = Owns(pslot) /\ ~Dropped(pslot)'
  <2>1. Owns(pslot)' = Backlog(Start(pslot), wr) - 1 /\ ~Dropped(pslot)'
    BY <1>0, <1>1, <1>2, FrontPassed DEF PublisherTypeOK
  <2> QED BY <1>0, <1>2, <2>1, OwnsTypes DEF PublisherTypeOK
<1>4. ASSUME NEW t \in Slots \ {pslot}
      PROVE  Owns(t)' = Owns(t) /\ (Dropped(t)' <=> Dropped(t))
  <2>1. Start(t)' = Start(t)
    BY <1>1 DEF Start, BeingReaped
  <2> QED BY <1>1, <2>1, OwnsFrame
<1> QED BY <1>1, <1>3, <1>4 DEF Committed

\* The descriptors a slot owns name different chunks, and none of them the one
\* that is being committed.
LEMMA OwnedApart ==
  ASSUME CursorInv, SuffixInv, NEW t \in Slots,
         NEW i \in Index, Backlog(i, wr) \in 1 .. Owns(t)
  PROVE  /\ t \in refs[ring[i]] /\ ring[i] \in Chunk /\ i # wr
         /\ \A k \in Index : Backlog(k, wr) \in 1 .. Owns(t) /\ k # i => ring[k] # ring[i]
         /\ ppc = "commit" => ring[wr] # ring[i]
<1>0. SharedTypeOK /\ PublisherTypeOK
  BY DEF CursorInv, TypeOK
<1>1. /\ wr \in Index /\ ring[i] \in Chunk /\ Committed \in Int /\ nextSeq \in Int
      /\ ppc = "commit" => Committed = nextSeq - 1
  BY <1>0 DEF SharedTypeOK, PublisherTypeOK, Committed
<1>2. Holds(t, i)
  BY DEF SuffixInv, OwnedIsHeld
<1>3. Backlog(i, wr) \in Nat /\ Backlog(i, wr) >= 1
  BY <1>1, BacklogRange
<1>4. ASSUME NEW k \in Index, Backlog(k, wr) \in 1 .. Owns(t), k # i
      PROVE  ring[k] # ring[i]
  <2>1. Holds(t, k)
    BY <1>4 DEF SuffixInv, OwnedIsHeld
  <2>2. Backlog(k, wr) # Backlog(i, wr) /\ Backlog(k, wr) \in Nat
    BY <1>1, <1>4, BacklogInjective, BacklogRange
  <2>3. seqOf[ring[k]] # seqOf[ring[i]]
    <3> HIDE DEF Index
    <3> QED BY <1>1, <1>2, <1>3, <2>1, <2>2 DEF Holds
  <2> QED BY <2>3
<1>5. ASSUME ppc = "commit" PROVE ring[wr] # ring[i]
  <2>1. seqOf[ring[wr]] = nextSeq - 1
    BY <1>5 DEF SuffixInv, WrittenIsHeld
  <2>2. seqOf[ring[i]] = nextSeq - 1 - Backlog(i, wr)
    BY <1>1, <1>2, <1>5 DEF Holds
  <2>3. seqOf[ring[wr]] # seqOf[ring[i]]
    <3> HIDE DEF Index
    <3> QED BY <1>1, <1>3, <2>1, <2>2
  <2> QED BY <2>3
<1>6. i # wr
  BY <1>1, <1>3, BacklogRange
<1> QED BY <1>1, <1>2, <1>4, <1>5, <1>6 DEF Holds

\* The descriptor a slot has reached is its own until its bit is cleared.
LEMMA FrontOwned ==
  ASSUME CursorInv, SuffixInv, NEW t \in Slots, spc[t] # "absent", Start(t) # wr,
         t \in refs[ring[Start(t)]]
  PROVE  /\ ~Dropped(t) /\ Owns(t) = Backlog(Start(t), wr)
         /\ Start(t) \in Index /\ Backlog(Start(t), wr) \in 1 .. Owns(t)
<1>1. ~Dropped(t)
  BY DEF Dropped
<1>2. Owns(t) = Backlog(Start(t), wr) /\ Owns(t) \in Nat
  BY <1>1, OwnsTypes
<1>3. Start(t) \in Index /\ Owns(t) >= 1
  BY <1>2, StartTypes, NextOwned
<1> QED BY <1>1, <1>2, <1>3

(***************************************************************************)
(* fetch_and elects the slot that is behind everybody else: whoever owns   *)
(* as many messages has its bit in the same chunk.                         *)
(***************************************************************************)
LEMMA LastHolderLeads ==
  ASSUME CursorInv, SuffixInv, NEW t \in Slots, spc[t] # "absent", Start(t) # wr,
         LastHolder(ring[Start(t)], t)
  PROVE  \A u \in Slots \ {t} : Owns(u) < Owns(t)
<1> SUFFICES ASSUME NEW u \in Slots \ {t}, Owns(u) >= Owns(t) PROVE FALSE
  BY OwnsTypes
<1>1. /\ Owns(t) = Backlog(Start(t), wr) /\ Start(t) \in Index
      /\ Backlog(Start(t), wr) \in 1 .. Owns(t)
  BY FrontOwned DEF LastHolder
<1>2. Backlog(Start(t), wr) \in 1 .. Owns(u)
  BY <1>1, OwnsTypes
<1>3. u \in refs[ring[Start(t)]]
  BY <1>1, <1>2, OwnedApart
<1> QED BY <1>3 DEF LastHolder

\* A slot's bit is cleared in the chunk of the descriptor it has reached.
BitCleared(t) ==
  /\ spc[t] # "absent" /\ Start(t) # wr
  /\ refs' = [refs EXCEPT ![ring[Start(t)]] = @ \ {t}]
  /\ UNCHANGED <<rd, wr, ring, seqOf, nextSeq, Committed, Tracked>>
  /\ ppc' = "commit" <=> ppc = "commit"
  /\ \A u \in Slots : spc'[u] = "absent" <=> spc[u] = "absent"
  /\ \A u \in Slots \ {t} : Start(u)' = Start(u)

\* Nobody else's bits change, nor those of the descriptors t has not reached.
LEMMA BitsAfterClear ==
  ASSUME CursorInv, SuffixInv, NEW t \in Slots, BitCleared(t)
  PROVE  /\ \A u \in Slots \ {t}, c \in Chunk : u \in refs'[c] <=> u \in refs[c]
         /\ t \notin refs'[ring[Start(t)]]
         /\ \A i \in Index :
              Backlog(i, wr) \in 1 .. Owns(t) /\ i # Start(t) => t \in refs'[ring[i]]
         /\ ppc = "commit" => t \in refs'[ring[wr]]
         /\ \A u \in Slots \ {t} : Owns(u)' = Owns(u) /\ (Dropped(u)' <=> Dropped(u))
<1> DEFINE c == ring[Start(t)]
<1>0. refs \in [Chunk -> SUBSET Slots] /\ c \in Chunk /\ wr \in Index /\ ring \in [Index -> Chunk]
  BY StartTypes DEF BitCleared, CursorInv, TypeOK, SharedTypeOK
<1>1. /\ refs' = [refs EXCEPT ![c] = @ \ {t}] /\ spc[t] # "absent" /\ Start(t) # wr
      /\ UNCHANGED <<wr, ring>>
  BY DEF BitCleared
<1> HIDE DEF Chunk, Index, c
<1>2. \A u \in Slots \ {t}, d \in Chunk : u \in refs'[d] <=> u \in refs[d]
  BY <1>0, <1>1
<1>3. t \notin refs'[c]
  BY <1>0, <1>1
<1>a. t \in refs[c] => Start(t) \in Index /\ Backlog(Start(t), wr) \in 1 .. Owns(t)
  BY <1>1, FrontOwned DEF c
<1>4. ASSUME NEW i \in Index, Backlog(i, wr) \in 1 .. Owns(t), i # Start(t)
      PROVE  t \in refs'[ring[i]]
  <2>1. t \in refs[ring[i]] /\ ring[i] \in Chunk
    BY <1>4, OwnedApart
  <2>2. t \in refs[c] => ring[i] # c
    <3> HIDE DEF Owns, Backlog
    <3> QED BY <1>4, <1>a, OwnedApart DEF c
  <2> QED BY <1>0, <1>1, <2>1, <2>2
<1>5. ASSUME ppc = "commit" PROVE t \in refs'[ring[wr]]
  <2>1. t \in refs[ring[wr]] /\ ring[wr] \in Chunk
    BY <1>0, <1>1, <1>5, StartTypes DEF SuffixInv, WrittenIsHeld
  <2>2. t \in refs[c] => ring[wr] # c
    BY <1>5, <1>a, OwnedApart DEF c
  <2> QED BY <1>0, <1>1, <2>1, <2>2
<1>6. ASSUME NEW u \in Slots \ {t} PROVE Owns(u)' = Owns(u) /\ (Dropped(u)' <=> Dropped(u))
  <2>1. spc[u] # "absent" => Start(u) \in Index /\ ring[Start(u)] \in Chunk
    BY StartTypes
  <2>2. spc[u] # "absent" => (u \in refs'[ring'[Start(u)]] <=> u \in refs[ring[Start(u)]])
    BY <1>1, <1>2, <2>1
  <2>3. UNCHANGED <<wr, Start(u)>> /\ (spc'[u] = "absent" <=> spc[u] = "absent")
    BY DEF BitCleared
  <2> QED BY <2>2, <2>3, OwnsFrame
<1> QED BY <1>2, <1>3, <1>4, <1>5, <1>6 DEF c

LEMMA OwnsAfterBit ==
  ASSUME CursorInv, SuffixInv, NEW t \in Slots, BitCleared(t),
         Start(t)' \in {Start(t), AdvanceRead(Start(t))}
  PROVE  /\ Owns(t)' = Backlog(Start(t), wr) - 1 /\ Owns(t)' <= Owns(t)
         /\ Start(t)' = Start(t) => Dropped(t)'
         /\ Start(t)' # Start(t) => ~Dropped(t)'
<1>1. /\ spc[t] # "absent" /\ Start(t) # wr /\ UNCHANGED <<wr, ring>>
      /\ spc'[t] # "absent" /\ wr \in Index /\ Start(t) \in Index
  BY StartTypes DEF BitCleared
<1>2. Owns(t) >= Backlog(Start(t), wr) - 1 /\ Backlog(Start(t), wr) \in Nat
  BY <1>1, OwnsTypes
<1>3. CASE Start(t)' = Start(t)
  <2>1. t \notin refs'[ring'[Start(t)']]
    BY <1>1, <1>3, BitsAfterClear
  <2>2. Dropped(t)'
    BY <1>1, <1>3, <2>1 DEF Dropped
  <2>3. Owns(t)' = Backlog(Start(t), wr) - 1
    <3> HIDE DEF Dropped
    <3> QED BY <1>1, <1>3, <2>2 DEF Owns
  <2> QED BY <1>2, <1>3, <2>2, <2>3, OwnsTypes
<1>4. CASE Start(t)' # Start(t)
  <2> DEFINE j == AdvanceRead(Start(t))
  <2>1. Start(t)' = j
    BY <1>4
  <2>2. /\ j \in Index /\ Backlog(j, wr) = Backlog(Start(t), wr) - 1
        /\ j # wr => Backlog(j, wr) >= 1
    <3>1. j \in Index /\ Backlog(j, wr) = Backlog(Start(t), wr) - 1
      BY <1>1, NextOwned
    <3> HIDE DEF j
    <3> QED BY <1>1, <3>1, BacklogRange
  <2>3. j # wr => Backlog(j, wr) \in 1 .. Owns(t)
    <3> HIDE DEF j, Index
    <3> QED BY <1>2, <2>2, OwnsTypes
  <2>4. j # wr => t \in refs'[ring[j]]
    BY <1>4, <2>1, <2>2, <2>3, BitsAfterClear
  <2>5. Owns(t)' = Backlog(Start(t), wr) - 1 /\ ~Dropped(t)'
    <3> HIDE DEF Dropped, Owns
    <3> QED BY <1>1, <2>1, <2>4, FrontPassed
  <2> QED BY <1>2, <1>4, <2>5
<1> QED BY <1>3, <1>4

\* Clearing the first bit leaves the rest of the suffix alone.
LEMMA SuffixAfterBit ==
  ASSUME CursorInv, SuffixInv, NEW t \in Slots, BitCleared(t),
         Start(t)' \in {Start(t), AdvanceRead(Start(t))}
  PROVE  OwnedIsHeld' /\ WrittenIsHeld'
<1>1. UNCHANGED <<wr, ring, seqOf, nextSeq, Committed, Tracked>> /\ (ppc' = "commit" <=> ppc = "commit")
  BY DEF BitCleared
<1>2. Backlog(Start(t), wr) \in Nat /\ wr \in Index /\ ring \in [Index -> Chunk]
  BY OwnsTypes, StartTypes DEF BitCleared, CursorInv, TypeOK, SharedTypeOK
<1>3. ASSUME NEW u \in Slots, NEW i \in Index, Backlog(i, wr) \in 1 .. Owns(u)'
      PROVE  Holds(u, i)'
  <2>1. Backlog(i, wr) \in 1 .. Owns(u)
    <3>1. Owns(u)' <= Owns(u) /\ Owns(u)' \in Int
      BY <1>2, OwnsAfterBit, BitsAfterClear, OwnsTypes
    <3> HIDE DEF Owns, Index, Backlog
    <3> QED BY <1>3, <3>1, OwnsTypes
  <2>2. Holds(u, i)
    BY <2>1 DEF SuffixInv, OwnedIsHeld
  <2>3. u = t => i # Start(t)
    BY <1>2, <1>3, OwnsAfterBit
  <2>4. u \in refs'[ring[i]]
    BY <1>2, <2>1, <2>2, <2>3, BitsAfterClear DEF Holds
  <2> QED BY <1>1, <2>2, <2>4 DEF Holds
<1>4. ASSUME ppc = "commit", NEW u \in Tracked PROVE u \in refs'[ring[wr]]
  <2>1. u \in refs[ring[wr]] /\ u \in Slots
    BY <1>4 DEF SuffixInv, WrittenIsHeld, Tracked, InUse, CursorInv, TypeOK, SharedTypeOK
  <2> QED BY <1>2, <1>4, <2>1, BitsAfterClear
<1>5. OwnedIsHeld'
  BY <1>1, <1>3 DEF OwnedIsHeld
<1>6. WrittenIsHeld'
  BY <1>1, <1>4 DEF SuffixInv, WrittenIsHeld
<1> QED BY <1>5, <1>6

LEMMA ClearBitClears ==
  ASSUME CursorInv, SuffixInv, NEW s \in Slots, ClearBit(s)
  PROVE  /\ BitCleared(s) /\ Start(s)' = Start(s) /\ Current(s) = ring[Start(s)]
         /\ Owns(s) = Backlog(Start(s), wr) /\ ~Dropped(s)
         /\ ppc' = ppc /\ pchunk' = pchunk /\ UNCHANGED <<pslot, ppos, inUse>>
         /\ \A t \in Slots : Current(t)' = Current(t)
<1>0. SharedTypeOK /\ PublisherTypeOK /\ SubscriberTypeOK
  BY DEF CursorInv, TypeOK
<1>1. /\ spc[s] = "callback" /\ Current(s) = ring[rd[s]] /\ Alive(s)
  BY AtFront DEF ClearBit, Alive
<1>2. ~BeingReaped(s)
  BY <1>1 DEF BeingReaped, CursorInv, PublisherInv
<1>3. /\ refs' = [refs EXCEPT ![Current(s)] = @ \ {s}]
      /\ UNCHANGED <<rd, wr, ring, seqOf, ppc, nextSeq, pchunk, pslot, ppos, inUse, batch>>
      /\ \A t \in Slots \ {s} : spc'[t] = spc[t]
      /\ spc'[s] \in {"store", "storeLast"}
  BY <1>0 DEF ClearBit, pubLocal, SubscriberTypeOK
<1>4. Start(s) = rd[s] /\ \A t \in Slots : Start(t)' = Start(t)
  BY <1>2, <1>3 DEF Start, BeingReaped
<1>5. ~Dropped(s) /\ spc[s] # "absent"
  BY <1>1 DEF SuffixInv, DroppedUntilStored
<1>6. Backlog(rd[s], wr) >= 1 /\ rd[s] \in Index /\ wr \in Index
  BY <1>1, AtFront, UnreadRange DEF Alive
<1>7. Start(s) # wr
  BY <1>4, <1>6, BacklogRange
<1>8. Tracked' = Tracked /\ Committed' = Committed
  BY <1>3 DEF Tracked, Committed
<1>9. BitCleared(s)
  BY <1>1, <1>3, <1>4, <1>5, <1>7, <1>8 DEF BitCleared
<1> QED BY <1>1, <1>3, <1>4, <1>5, <1>9, OwnsTypes DEF Current

LEMMA ReapClears ==
  ASSUME CursorInv, CountInv, SuffixInv, ReapKeep \/ ReapRelease
  PROVE  /\ BitCleared(pslot) /\ Start(pslot) = ppos /\ pslot \in Slots /\ spc[pslot] = "dead"
         /\ Start(pslot)' = ppos' /\ UNCHANGED <<spc, batch, pslot>> /\ ppc # "commit" /\ ppc' # "commit"
         /\ ReapRelease => ppos' = ppos /\ ppc' = "reapLink" /\ inUse[ring[ppos]]
         /\ ReapKeep => ppos' = AdvanceRead(ppos) /\ ppc' = "reap"
<1>0. SharedTypeOK /\ PublisherTypeOK /\ SubscriberTypeOK
  BY DEF CursorInv, TypeOK
<1>1. /\ ppc = "reap" /\ ppos # wr /\ refs' = [refs EXCEPT ![ring[ppos]] = @ \ {pslot}]
      /\ UNCHANGED <<rd, wr, ring, seqOf, nextSeq, pslot, spc, batch>>
      /\ ppc' \in {"reap", "reapLink", "failed"}
      /\ ReapRelease => ppos' = ppos /\ ppc' \in {"reapLink", "failed"}
      /\ ReapKeep => ppos' = AdvanceRead(ppos) /\ ppc' = "reap"
  BY DEF ReapKeep, ReapRelease, Reaped, subLocal
<1>2. ReapRelease => inUse[ring[ppos]] /\ ppc' = "reapLink"
  <2>1. ring[ppos] \in Chunk /\ (LastHolder(ring[ppos], pslot) => refs[ring[ppos]] # {})
    BY <1>0 DEF LastHolder, SharedTypeOK, PublisherTypeOK
  <2> HIDE DEF Chunk
  <2> QED BY <2>1 DEF ReapRelease, CountInv
<1>3. Start(pslot) = ppos /\ spc[pslot] = "dead" /\ pslot \in Slots
  BY <1>0, <1>1 DEF Start, BeingReaped, Reaping, CursorInv, PublisherInv, PublisherTypeOK
<1>4. /\ ppc' \in Reaping /\ Start(pslot)' = ppos'
      /\ \A u \in Slots \ {pslot} : Start(u)' = Start(u)
  BY <1>1, <1>2 DEF Start, BeingReaped, Reaping
<1>5. Tracked' = Tracked /\ Committed' = Committed
  BY <1>1 DEF Tracked, Committed
<1>6. BitCleared(pslot)
  BY <1>1, <1>3, <1>4, <1>5 DEF BitCleared
<1> QED BY <1>1, <1>2, <1>3, <1>4, <1>6

\* The chunk of a new message is not the one a slot has just let go of.
NotReused ==
  ppc = "write" => \A t \in Slots : Dropped(t) => ring[Start(t)] # pchunk

LEMMA OwnsAfterWrite ==
  ASSUME CursorInv, CountInv, NotReused, WriteMessage, NEW t \in Slots
  PROVE  Owns(t)' = Owns(t) /\ (Dropped(t)' <=> Dropped(t))
<1>0. SharedTypeOK /\ PublisherTypeOK
  BY DEF CursorInv, TypeOK
<1>1. /\ refs[pchunk] = {} /\ ppc = "write" /\ ppc' = "commit" /\ UNCHANGED <<rd, wr, spc>>
      /\ ring' = [ring EXCEPT ![wr] = pchunk] /\ pchunk \in Chunk
      /\ refs' = [refs EXCEPT ![pchunk] = @ \cup Tracked]
  BY <1>0 DEF WriteMessage, CountInv, subLocal, PublisherTypeOK
<1>2. Start(t)' = Start(t)
  BY <1>1 DEF Start, BeingReaped, Reaping
<1>3. ASSUME spc[t] # "absent", Start(t) # wr
      PROVE  t \in refs'[ring'[Start(t)]] <=> t \in refs[ring[Start(t)]]
  <2>1. Start(t) \in Index /\ ring[Start(t)] \in Chunk
    BY <1>3, StartTypes
  <2>2. ring'[Start(t)] = ring[Start(t)]
    BY <1>0, <1>1, <1>3, <2>1 DEF SharedTypeOK
  <2>3. ring[Start(t)] # pchunk
    BY <1>1, <1>3 DEF NotReused, Dropped
  <2>4. refs'[ring[Start(t)]] = refs[ring[Start(t)]]
    BY <1>0, <1>1, <2>1, <2>3 DEF SharedTypeOK
  <2> QED BY <2>2, <2>4
<1> QED BY <1>1, <1>2, <1>3, OwnsFrame

\* The new message goes to a chunk without a bit and a descriptor nobody owns.
LEMMA SuffixAfterWrite ==
  ASSUME CursorInv, CountInv, SuffixInv, NotReused, WriteMessage
  PROVE  SuffixInv'
<1>0. SharedTypeOK /\ PublisherTypeOK
  BY DEF CursorInv, TypeOK
<1>1. /\ pchunk \in Chunk /\ refs[pchunk] = {} /\ wr \in Index /\ nextSeq \in Int
      /\ ppc = "write" /\ ppc' = "commit" /\ nextSeq' = nextSeq + 1
      /\ ring' = [ring EXCEPT ![wr] = pchunk]
      /\ seqOf' = [seqOf EXCEPT ![pchunk] = nextSeq]
      /\ refs' = [refs EXCEPT ![pchunk] = @ \cup Tracked]
      /\ UNCHANGED <<rd, wr, spc>>
  BY <1>0 DEF WriteMessage, PublisherTypeOK, SharedTypeOK, CountInv, subLocal
<1>2. Committed' = Committed /\ Tracked' = Tracked
  BY <1>1 DEF Committed, Tracked
<1>3. ASSUME NEW t \in Slots, NEW i \in Index, Backlog(i, wr') \in 1 .. Owns(t)'
      PROVE  Holds(t, i)'
  <2>1. Backlog(i, wr) \in 1 .. Owns(t)
    BY <1>1, <1>3, OwnsAfterWrite
  <2>2. /\ i # wr /\ t \in refs[ring[i]] /\ ring[i] \in Chunk
        /\ seqOf[ring[i]] = Committed - Backlog(i, wr)
    BY <2>1, OwnedApart DEF SuffixInv, OwnedIsHeld, Holds
  <2>3. ring'[i] = ring[i] /\ ring[i] # pchunk
    BY <1>0, <1>1, <2>2 DEF SharedTypeOK
  <2>4. refs'[ring[i]] = refs[ring[i]] /\ seqOf'[ring[i]] = seqOf[ring[i]]
    BY <1>0, <1>1, <2>2, <2>3 DEF SharedTypeOK
  <2> QED BY <1>1, <1>2, <2>2, <2>3, <2>4 DEF Holds
<1>4. OwnedIsHeld'
  BY <1>3 DEF OwnedIsHeld
<1>5. ring'[wr] = pchunk /\ seqOf'[pchunk] = nextSeq /\ refs'[pchunk] = Tracked
  BY <1>0, <1>1 DEF SharedTypeOK
<1>6. WrittenIsHeld'
  BY <1>1, <1>2, <1>5 DEF WrittenIsHeld
<1>7. DroppedUntilStored'
  <2>1. \A t \in Slots : Alive(t)' = Alive(t)
    BY <1>1 DEF Alive
  <2> QED BY <1>1, <2>1, OwnsAfterWrite DEF SuffixInv, DroppedUntilStored
<1> QED BY <1>4, <1>6, <1>7 DEF SuffixInv

\* Every slot in use owns one message more.
LEMMA OwnsAfterCommit ==
  ASSUME CursorInv, SuffixInv, Commit, NEW t \in Slots
  PROVE  /\ Owns(t)' = IF spc[t] = "absent" THEN 0 ELSE Owns(t) + 1
         /\ Dropped(t)' <=> Dropped(t)
<1>1. ppc = "commit" /\ ppc' = "signal" /\ wr' = AdvanceWrite(wr) /\ UNCHANGED <<rd, ring, refs, spc>>
  BY DEF Commit, subLocal
<1>2. CASE spc[t] = "absent"
  BY <1>1, <1>2 DEF Owns, Dropped
<1>3. CASE spc[t] # "absent"
  <2>1. /\ Start(t) = rd[t] /\ Start(t)' = rd[t] /\ t \in Tracked
        /\ rd[t] \in Index /\ wr \in Index
    BY <1>1, <1>3, StartTypes DEF Start, BeingReaped, Reaping
  <2>2. Backlog(rd[t], wr) <= SlotCount - 2 /\ Backlog(rd[t], wr) \in Nat
    BY <1>1, <2>1, BacklogRange DEF CursorInv, PublisherInv
  <2>3. Backlog(rd[t], wr') = Backlog(rd[t], wr) + 1 /\ wr' \in Index
    BY <1>1, <2>1, <2>2, PublishGrowsBacklog
  <2>4. rd[t] # wr'
    <3>1. Backlog(rd[t], wr') # 0
      <4> HIDE DEF Index
      <4> QED BY <2>2, <2>3
    <3> QED BY <2>1, <2>3, <3>1, BacklogRange
  <2>5. rd[t] = wr => t \in refs[ring[rd[t]]]
    BY <1>1, <2>1 DEF SuffixInv, WrittenIsHeld
  <2>6. Dropped(t)' <=> Dropped(t)
    BY <1>1, <1>3, <2>1, <2>4, <2>5 DEF Dropped
  <2> HIDE DEF Dropped
  <2> QED BY <1>1, <1>3, <2>1, <2>2, <2>3, <2>6 DEF Owns
<1> QED BY <1>2, <1>3

LEMMA SuffixAfterCommit ==
  ASSUME CursorInv, SuffixInv, Commit
  PROVE  SuffixInv'
<1>0. SharedTypeOK /\ PublisherTypeOK
  BY DEF CursorInv, TypeOK
<1>1. /\ wr \in Index /\ wr' = AdvanceWrite(wr) /\ wr' \in Index
      /\ ppc = "commit" /\ ppc' = "signal" /\ nextSeq \in Int
      /\ UNCHANGED <<rd, ring, seqOf, refs, nextSeq, spc>>
  BY <1>0, Values DEF Commit, SharedTypeOK, PublisherTypeOK, subLocal
<1>2. Committed = nextSeq - 1 /\ Committed' = nextSeq
  BY <1>1 DEF Committed
<1>3. ASSUME NEW t \in Slots, NEW i \in Index, Backlog(i, wr') \in 1 .. Owns(t)'
      PROVE  Holds(t, i)'
  <2>1. spc[t] # "absent" /\ Owns(t)' = Owns(t) + 1 /\ Owns(t) \in Nat /\ t \in Tracked
    BY <1>3, OwnsAfterCommit, OwnsTypes, StartTypes
  <2>2. /\ Backlog(i, wr') \in Nat /\ Backlog(i, wr) \in Nat /\ Backlog(i, wr') >= 1
        /\ Backlog(i, wr) = Backlog(i, wr') - 1
    BY <1>1, <1>3, BehindNewWrite, BacklogRange
  <2>3. CASE i = wr
    <3>1. Backlog(i, wr') = 1
      BY <1>1, <2>2, <2>3, BacklogRange
    <3> QED BY <1>1, <1>2, <2>1, <2>3, <3>1 DEF Holds, SuffixInv, WrittenIsHeld
  <2>4. CASE i # wr
    <3>1. Backlog(i, wr) # 0
      BY <1>1, <2>4, BacklogRange
    <3>2. Backlog(i, wr) \in 1 .. Owns(t)
      <4> HIDE DEF Index, Owns, Backlog
      <4> QED BY <1>3, <2>1, <2>2, <3>1
    <3>3. t \in refs[ring[i]] /\ seqOf[ring[i]] = Committed - Backlog(i, wr)
      BY <3>2 DEF SuffixInv, OwnedIsHeld, Holds
    <3>4. seqOf[ring[i]] = Committed' - Backlog(i, wr')
      <4> HIDE DEF Index
      <4> QED BY <1>1, <1>2, <2>2, <3>3
    <3> QED BY <1>1, <3>3, <3>4 DEF Holds
  <2> QED BY <2>3, <2>4
<1>4. OwnedIsHeld' /\ WrittenIsHeld'
  BY <1>1, <1>3 DEF OwnedIsHeld, WrittenIsHeld
<1>5. DroppedUntilStored'
  <2>1. \A t \in Slots : Alive(t)' = Alive(t)
    BY <1>1 DEF Alive
  <2> QED BY <1>1, <2>1, OwnsAfterCommit DEF SuffixInv, DroppedUntilStored
<1> QED BY <1>4, <1>5 DEF SuffixInv

\* A slot comes with nothing to read and goes with nothing left to read.
LEMMA OwnsAfterLifecycle ==
  ASSUME CursorInv, SuffixInv, ReapEnd \/ \E s \in Slots : Track(s), NEW t \in Slots
  PROVE  /\ Owns(t)' = Owns(t)
         /\ Dropped(t)' <=> Dropped(t)
         /\ UNCHANGED <<wr, ring, seqOf, refs, nextSeq, Committed>>
         /\ ppc # "commit" /\ ppc' # "commit"
         /\ Dropped(t) => spc'[t] = spc[t]
         /\ Alive(t)' => spc'[t] \in {spc[t], "idle"} /\ (spc'[t] = spc[t] \/ spc[t] = "absent")
<1>0. SharedTypeOK /\ PublisherTypeOK /\ SubscriberTypeOK
  BY DEF CursorInv, TypeOK
<1>1. CASE ReapEnd
  <2>1. /\ ppc = "reap" /\ ppos = wr /\ ppc' = "control" /\ spc'[pslot] = "absent"
        /\ UNCHANGED <<wr, ring, seqOf, refs, nextSeq>> /\ spc[pslot] = "dead"
        /\ \A u \in Slots \ {pslot} : rd'[u] = rd[u] /\ spc'[u] = spc[u]
    <3>1. ppc = "reap" /\ ppos = wr /\ spc[pslot] = "dead" /\ pslot \in Slots
      BY <1>0, <1>1 DEF ReapEnd, Reaped, CursorInv, PublisherInv, Reaping, PublisherTypeOK
    <3>2. /\ rd' = [rd EXCEPT ![pslot] = InvalidIndex] /\ spc' = [spc EXCEPT ![pslot] = "absent"]
          /\ ppc' = "control" /\ UNCHANGED <<wr, ring, seqOf, refs, nextSeq>>
      BY <1>1 DEF ReapEnd
    <3> QED BY <1>0, <3>1, <3>2 DEF SharedTypeOK, SubscriberTypeOK
  <2>2. CASE t = pslot
    <3>1. Start(t) = wr /\ wr \in Index
      BY <1>0, <2>1, <2>2 DEF Start, BeingReaped, Reaping, SharedTypeOK
    <3>2. ~Dropped(t) /\ ~Dropped(t)' /\ Owns(t)' = 0
      BY <2>1, <2>2, <3>1 DEF Dropped, Owns
    <3>3. Backlog(Start(t), wr) = 0
      BY <3>1, BacklogRange
    <3>4. Owns(t) = 0
      <4>1. spc[t] # "absent"
        BY <2>1, <2>2
      <4> QED BY <3>3, <4>1, OwnsTypes
    <3> QED BY <2>1, <2>2, <3>2, <3>4 DEF Committed, Alive
  <2>3. CASE t # pslot
    <3>1. Start(t)' = Start(t)
      BY <2>1, <2>3 DEF Start, BeingReaped, Reaping
    <3> QED BY <2>1, <2>3, <3>1, OwnsFrame DEF Committed
  <2> QED BY <2>2, <2>3
<1>2. ASSUME NEW s \in Slots, Track(s)
      PROVE  /\ Owns(t)' = Owns(t)
             /\ Dropped(t)' <=> Dropped(t)
             /\ UNCHANGED <<wr, ring, seqOf, refs, nextSeq, Committed>>
             /\ ppc # "commit" /\ ppc' # "commit"
             /\ Dropped(t) => spc'[t] = spc[t]
             /\ Alive(t)' => spc'[t] \in {spc[t], "idle"} /\ (spc'[t] = spc[t] \/ spc[t] = "absent")
  <2>1. /\ ppc \notin Reaping /\ ppc' = "control" /\ ppc # "commit"
        /\ spc[s] = "absent" /\ spc'[s] = "idle" /\ rd'[s] = wr /\ wr \in Index
        /\ UNCHANGED <<wr, ring, seqOf, refs, nextSeq>>
        /\ \A u \in Slots \ {s} : rd'[u] = rd[u] /\ spc'[u] = spc[u]
    BY <1>0, <1>2 DEF Track, ControlPoint, SharedTypeOK, SubscriberTypeOK, Reaping
  <2>2. CASE t = s
    <3>1. Start(t)' = wr
      BY <2>1, <2>2 DEF Start, BeingReaped, Reaping
    <3>2. ~Dropped(t) /\ ~Dropped(t)' /\ Owns(t) = 0
      BY <2>1, <2>2, <3>1 DEF Dropped, Owns
    <3>3. Backlog(wr, wr) = 0
      BY <2>1, BacklogRange
    <3>4. Owns(t)' = 0
      <4>1. Backlog(Start(t)', wr') = 0 /\ Start(t)' = wr'
        BY <2>1, <3>1, <3>3
      <4> HIDE DEF Start, Backlog
      <4> QED BY <4>1 DEF Owns, Dropped
    <3> QED BY <2>1, <2>2, <3>2, <3>4 DEF Committed
  <2>3. CASE t # s
    <3>1. Start(t)' = Start(t)
      BY <2>1, <2>3 DEF Start, BeingReaped, Reaping
    <3> QED BY <2>1, <2>3, <3>1, OwnsFrame DEF Committed
  <2> QED BY <2>2, <2>3
<1> QED BY <1>1, <1>2

-----------------------------------------------------------------------------
(***************************************************************************)
(* Whoever gives a chunk back owns as many messages as anybody: everything *)
(* published after the message of that chunk.  So there is one of them, no *)
(* bit is left in the chunk, and nobody else moves the tail.               *)
(***************************************************************************)
SubscriberGives(s) ==
  /\ refs[Current(s)] = {}
  /\ \A t \in Slots : Owns(t) <= Owns(s)
  /\ \A i \in Index : Backlog(i, wr) = Owns(s) + 1 => ring[i] = Current(s)
  /\ \A t \in Releasing : t = s
  /\ spc[s] \in {"link", "push"} => ~inUse[Current(s)] /\ stail[s] = tail
  /\ spc[s] = "push" => word[tail] = Current(s)

ReaperGives ==
  /\ Releasing = {} /\ refs[pchunk] = {}
  /\ ppos # wr /\ pchunk = ring[ppos]
  /\ \A t \in Slots : Owns(t) <= Owns(pslot)
  /\ ~inUse[pchunk] /\ ptail = tail
  /\ ppc = "reapPush" => word[tail] = pchunk

GiverInv ==
  /\ \A s \in Releasing : SubscriberGives(s)
  /\ ReaperReleasing => ReaperGives

LEMMA ReaperHasDropped ==
  ASSUME CursorInv, GiverInv, ReaperReleasing
  PROVE  /\ Dropped(pslot) /\ Start(pslot) = ppos /\ spc[pslot] = "dead" /\ pslot \in Slots
         /\ ReaperGives
<1>1. /\ ReaperGives /\ spc[pslot] = "dead" /\ Start(pslot) = ppos
      /\ pslot \in Slots
  BY DEF GiverInv, ReaperReleasing, Reaping, CursorInv, PublisherInv, Start, BeingReaped,
     TypeOK, PublisherTypeOK
<1> QED BY <1>1 DEF ReaperGives, Dropped

\* Steps that change no bit, no message and no descriptor.
LEMMA SuffixFrame ==
  ASSUME SuffixInv, UNCHANGED <<wr, ring, seqOf, refs, nextSeq, Committed>>,
         \A t \in Slots : Owns(t)' = Owns(t),
         ppc' = "commit" => ppc = "commit" /\ Tracked' = Tracked,
         \A t \in Slots : Alive(t)' => (Dropped(t)' <=> spc'[t] \in {"store", "storeLast"})
  PROVE  SuffixInv'
<1>1. OwnedIsHeld'
  BY DEF SuffixInv, OwnedIsHeld, Holds
<1>2. WrittenIsHeld'
  BY DEF SuffixInv, WrittenIsHeld
<1> QED BY <1>1, <1>2 DEF SuffixInv, DroppedUntilStored

LEMMA SuffixStep ==
  CursorInv /\ CountInv /\ SuffixInv /\ NotReused /\ GiverInv /\ [Next]_vars => SuffixInv'
<1> SUFFICES ASSUME CursorInv, CountInv, SuffixInv, NotReused, GiverInv, [Next]_vars
             PROVE  SuffixInv'
  OBVIOUS
<1>0. SharedTypeOK /\ PublisherTypeOK /\ SubscriberTypeOK
  BY DEF CursorInv, TypeOK
<1>a. \A t \in Slots : Alive(t) => (Dropped(t) <=> spc[t] \in {"store", "storeLast"})
  BY DEF SuffixInv, DroppedUntilStored
<1>1. CASE Quiet \/ UNCHANGED vars
  <2>1. \A t \in Slots : Alive(t)' =>
          Alive(t) /\ (spc'[t] \in {"store", "storeLast"} <=> spc[t] \in {"store", "storeLast"})
    BY <1>0, <1>1
    DEF Quiet, PublishCall, ScanRing, FreeListEmpty, TakeChunk, SpaceEvent, EventsDone,
        WaitTimeout, ControlDone, ReapLink, SignalData, ReapBegin, DataEvent, LoadWrapped,
        LoadContiguous, Deliver, Release, Link, Push, SignalSpace, Leave, Alive, AfterMessage,
        vars, subLocal, SubscriberTypeOK
  <2>2. /\ UNCHANGED <<wr, ring, seqOf, refs, nextSeq, Committed>>
        /\ ppc' = "commit" => ppc = "commit" /\ Tracked' = Tracked
    BY <1>1, QuietFacts DEF Tracked
  <2>3. \A t \in Slots : Owns(t)' = Owns(t) /\ (Dropped(t)' <=> Dropped(t))
    BY <1>1, QuietOwns
  <2> QED BY <1>a, <2>1, <2>2, <2>3, SuffixFrame
<1>2. CASE WriteMessage
  BY <1>2, SuffixAfterWrite
<1>3. CASE Commit
  BY <1>3, SuffixAfterCommit
<1>4. CASE ReapKeep \/ ReapRelease
  <2> PICK p \in Slots : p = pslot
    BY <1>0 DEF PublisherTypeOK
  <2>1. /\ BitCleared(p) /\ Start(p)' \in {Start(p), AdvanceRead(Start(p))}
        /\ spc[p] = "dead" /\ UNCHANGED spc
    <3>1. ppos' \in {ppos, AdvanceRead(ppos)} /\ pslot' = pslot
      BY <1>4, ReapClears
    <3> QED BY <1>4, <3>1, ReapClears
  <2>2. OwnedIsHeld' /\ WrittenIsHeld'
    BY <2>1, SuffixAfterBit
  <2>3. \A t \in Slots : Alive(t)' => t # p /\ Alive(t) /\ (Dropped(t)' <=> Dropped(t))
    BY <2>1, BitsAfterClear DEF Alive
  <2>4. DroppedUntilStored'
    BY <1>a, <2>1, <2>3 DEF DroppedUntilStored
  <2> QED BY <2>2, <2>4 DEF SuffixInv
<1>5. CASE ReapPush
  <2>1. Dropped(pslot) /\ spc[pslot] = "dead"
    BY <1>5, ReaperHasDropped DEF ReapPush, ReaperReleasing
  <2>2. /\ UNCHANGED <<rd, wr, ring, seqOf, refs, nextSeq, Committed, spc>> /\ ppc' # "commit"
        /\ \A t \in Slots : Owns(t)' = Owns(t)
        /\ \A t \in Slots \ {pslot} : Dropped(t)' <=> Dropped(t)
    BY <1>5, <2>1, OwnsAfterReapPush
  <2>3. \A t \in Slots : Alive(t)' => Alive(t) /\ t # pslot
    BY <2>1, <2>2 DEF Alive
  <2> QED BY <1>a, <2>2, <2>3, SuffixFrame
<1>6. CASE ReapEnd \/ \E s \in Slots : Track(s)
  <2>1. \A t \in Slots : Alive(t)' => (Dropped(t)' <=> spc'[t] \in {"store", "storeLast"})
    <3> SUFFICES ASSUME NEW t \in Slots, Alive(t)'
                 PROVE  Dropped(t)' <=> spc'[t] \in {"store", "storeLast"}
      OBVIOUS
    <3>1. CASE spc'[t] = spc[t]
      BY <1>a, <1>6, <3>1, OwnsAfterLifecycle DEF Alive
    <3>2. CASE spc'[t] # spc[t]
      BY <1>6, <3>2, OwnsAfterLifecycle DEF Dropped
    <3> QED BY <3>1, <3>2
  <2>2. /\ UNCHANGED <<wr, ring, seqOf, refs, nextSeq, Committed>> /\ ppc' # "commit"
        /\ \A t \in Slots : Owns(t)' = Owns(t)
    BY <1>6, SlotsAssumption, OwnsAfterLifecycle
  <2> QED BY <2>1, <2>2, SuffixFrame
<1>7. ASSUME NEW s \in Slots, ClearBit(s) PROVE SuffixInv'
  <2>1. /\ BitCleared(s) /\ Start(s)' = Start(s)
        /\ \A t \in Slots \ {s} : spc'[t] = spc[t]
        /\ spc'[s] \in {"store", "storeLast"}
    BY <1>0, <1>7, ClearBitClears DEF ClearBit, SubscriberTypeOK
  <2>2. OwnedIsHeld' /\ WrittenIsHeld'
    BY <2>1, SuffixAfterBit
  <2>3. Dropped(s)' /\ \A t \in Slots \ {s} : Dropped(t)' <=> Dropped(t)
    BY <2>1, OwnsAfterBit, BitsAfterClear
  <2>4. DroppedUntilStored'
    BY <1>a, <2>1, <2>3 DEF DroppedUntilStored, Alive
  <2> QED BY <2>2, <2>4 DEF SuffixInv
<1>8. ASSUME NEW s \in Slots, StoreIndex(s) \/ StoreIndexLast(s) PROVE SuffixInv'
  <2>1. /\ \A t \in Slots \ {s} : spc'[t] = spc[t]
        /\ spc'[s] \notin {"store", "storeLast"}
    BY <1>0, <1>8 DEF StoreIndex, StoreIndexLast, AfterMessage, SubscriberTypeOK
  <2>2. /\ UNCHANGED <<wr, ring, seqOf, refs, nextSeq, Committed, ppc, Tracked>>
        /\ ~Dropped(s)' /\ \A t \in Slots : Owns(t)' = Owns(t)
        /\ \A t \in Slots \ {s} : Dropped(t)' <=> Dropped(t)
    BY <1>8, OwnsAfterStore
  <2>3. \A t \in Slots : Alive(t)' => (Dropped(t)' <=> spc'[t] \in {"store", "storeLast"})
    BY <1>a, <2>1, <2>2 DEF Alive
  <2> QED BY <2>2, <2>3, SuffixFrame
<1> QED
  BY <1>1, <1>2, <1>3, <1>4, <1>5, <1>6, <1>7, <1>8
  DEF Next, PublishStep, ReapStep, SubscriberStep, Quiet

-----------------------------------------------------------------------------
(* The free list *)

\* A chunk that nobody holds, uses or is giving back.
Loose(c) ==
  /\ ~inUse[c] /\ refs[c] = {}
  /\ \A s \in Releasing : c # Current(s)
  /\ ReaperReleasing => c # pchunk

(***************************************************************************)
(* The free list as a sequence.  A chunk whose bit a slot has cleared, but *)
(* whose descriptor it has not passed yet, is not on it or is the last: it *)
(* is not given out again before that descriptor is passed, as the slot    *)
(* holds every later message and the publisher never takes the last chunk. *)
(***************************************************************************)
IsList(q) ==
  /\ q \in Seq(Chunk) /\ Len(q) >= 1
  /\ q[1] = head /\ q[Len(q)] = tail
  /\ \A k \in 1 .. Len(q) - 1 : word[q[k]] = q[k + 1]
  /\ \A j, k \in 1 .. Len(q) : q[j] = q[k] => j = k
  /\ \A k \in 1 .. Len(q) : Loose(q[k])
  /\ \A t \in Slots : Dropped(t) /\ ~BeingReaped(t) =>
       \A k \in 1 .. Len(q) - 1 : q[k] # ring[Start(t)]
  /\ ~CrashMidRead =>
       \A c \in Chunk : refs[c] = {} /\ c \notin InHand => \E k \in 1 .. Len(q) : q[k] = c

ListInv == \E q : IsList(q)

MagicInv == \A c \in Chunk : refs[c] # {} => word[c] = Magic

LEMMA ListEnds ==
  ASSUME ListInv
  PROVE  /\ tail \in Chunk /\ Loose(tail)
         /\ head # tail =>
              /\ head \in Chunk /\ Loose(head) /\ HeadUsable
              /\ \A t \in Slots : Dropped(t) /\ ~BeingReaped(t) => ring[Start(t)] # head
<1>1. PICK q : IsList(q)
  BY DEF ListInv
<1>2. /\ q \in Seq(Chunk) /\ Len(q) \in Nat /\ Len(q) >= 1 /\ q[1] = head /\ q[Len(q)] = tail
      /\ \A k \in 1 .. Len(q) : Loose(q[k]) /\ q[k] \in Chunk
      /\ \A t \in Slots : Dropped(t) /\ ~BeingReaped(t) =>
           \A k \in 1 .. Len(q) - 1 : q[k] # ring[Start(t)]
  <2> HIDE DEF Chunk, Loose
  <2> QED BY <1>1 DEF IsList
<1>3. 1 \in 1 .. Len(q) /\ Len(q) \in 1 .. Len(q)
  BY <1>2
<1>4. tail \in Chunk /\ Loose(tail) /\ head \in Chunk /\ Loose(head)
  BY <1>2, <1>3
<1>5. head # tail => 1 \in 1 .. Len(q) - 1
  BY <1>2
<1>6. HeadUsable
  BY <1>4 DEF HeadUsable, Loose
<1> QED BY <1>2, <1>4, <1>5, <1>6

\* Chunks in hand are chunks.
LEMMA HandTypes ==
  ASSUME CursorInv, NEW s \in Slots, s \in Releasing
  PROVE  Current(s) \in Chunk /\ spc[s] # "absent" /\ Alive(s)
BY BatchTypes DEF Releasing, Busy, Done, Alive

\* The number of messages owned, before and after a step.
LEMMA OwnsNat ==
  /\ CursorInv => \A t \in Slots : Owns(t) \in Nat
  /\ CursorInv' => \A t \in Slots : Owns(t)' \in Nat
<1>1. CursorInv => \A t \in Slots : Owns(t) \in Nat
  BY OwnsTypes
<1>2. CursorInv' => (\A t \in Slots : Owns(t) \in Nat)'
  BY <1>1, PTL
<1> QED BY <1>1, <1>2

\* Steps that leave those who give chunks back, and what they own, alone.
LEMMA GiverFrame ==
  ASSUME CursorInv, CursorInv', GiverInv, UNCHANGED <<wr, ring>>,
         Releasing' \subseteq Releasing,
         \A t \in Slots : Owns(t)' <= Owns(t),
         \A s \in Releasing' :
           /\ Current(s)' = Current(s) /\ Owns(s)' = Owns(s) /\ refs'[Current(s)] = {}
           /\ spc'[s] \in {"link", "push"} =>
                /\ spc'[s] = spc[s] /\ ~inUse'[Current(s)] /\ stail'[s] = stail[s]
                /\ tail' = tail /\ word'[tail] = word[tail],
         ReaperReleasing' =>
           /\ UNCHANGED <<ppc, pchunk, ppos, pslot, ptail, tail, word, Owns(pslot)>>
           /\ ~inUse'[pchunk] /\ refs'[pchunk] = {}
  PROVE  GiverInv'
<1>1. \A t \in Slots : Owns(t) \in Nat /\ Owns(t)' \in Nat
  BY OwnsNat
<1>2. ASSUME NEW s \in Slots, s \in Releasing' PROVE SubscriberGives(s)'
  <2>1. s \in Releasing /\ SubscriberGives(s)
    BY <1>2 DEF GiverInv
  <2>2. \A t \in Slots : Owns(t)' <= Owns(s)'
    BY <1>1, <1>2, <2>1 DEF SubscriberGives
  <2>3. \A i \in Index : Backlog(i, wr') = Owns(s)' + 1 => ring'[i] = Current(s)'
    BY <1>2, <2>1 DEF SubscriberGives
  <2>4. \A t \in Releasing' : t = s
    BY <2>1 DEF SubscriberGives
  <2>5. /\ spc'[s] \in {"link", "push"} => ~inUse'[Current(s)'] /\ stail'[s] = tail'
        /\ spc'[s] = "push" => word'[tail'] = Current(s)'
    BY <1>2, <2>1 DEF SubscriberGives
  <2> QED BY <1>2, <2>2, <2>3, <2>4, <2>5 DEF SubscriberGives
<1>3. ASSUME ReaperReleasing' PROVE ReaperGives'
  <2>1. ReaperGives /\ pslot \in Slots
    BY <1>3 DEF GiverInv, ReaperReleasing, CursorInv, TypeOK, PublisherTypeOK
  <2>2. \A t \in Slots : Owns(t)' <= Owns(pslot)'
    BY <1>1, <1>3, <2>1 DEF ReaperGives
  <2> QED BY <1>3, <2>1, <2>2 DEF ReaperGives
<1>4. Releasing' \subseteq Slots
  BY DEF Releasing
<1> QED BY <1>2, <1>3, <1>4 DEF GiverInv

\* The steps of Quiet that leave the free list and the tracker alone.
Plain ==
  \/ PublishCall \/ ScanRing \/ FreeListEmpty \/ SpaceEvent \/ EventsDone \/ WaitTimeout
  \/ ControlDone
  \/ \E s \in Slots : \/ SignalData(s) \/ ReapBegin(s) \/ DataEvent(s) \/ LoadWrapped(s)
                      \/ LoadContiguous(s) \/ Deliver(s) \/ SignalSpace(s) \/ Leave(s)

LEMMA PlainFacts ==
  ASSUME CursorInv, Plain \/ UNCHANGED vars
  PROVE  /\ UNCHANGED <<refs, inUse, head, tail, word, wr, ring, rd>>
         /\ Releasing' \subseteq Releasing
         /\ \A s \in Releasing' :
              Current(s)' = Current(s) /\ spc'[s] = spc[s] /\ stail'[s] = stail[s]
         /\ ReaperReleasing' => UNCHANGED <<ppc, pchunk, ppos, pslot, ptail>>
         /\ ~CrashMidRead => Releasing' = Releasing
         /\ ppc # "write" \/ UNCHANGED <<ppc, pchunk>>
         /\ ppc' = "write" => UNCHANGED <<ppc, pchunk>>
         /\ ReaperReleasing => UNCHANGED <<ppc, pchunk>>
         /\ \A t \in Slots : BeingReaped(t) => BeingReaped(t)'
<1>0. SharedTypeOK /\ PublisherTypeOK /\ SubscriberTypeOK
  BY DEF CursorInv, TypeOK
<1>1. CASE \/ PublishCall \/ ScanRing \/ FreeListEmpty \/ SpaceEvent \/ EventsDone
           \/ WaitTimeout \/ ControlDone \/ UNCHANGED vars
           \/ \E s \in Slots : SignalData(s) \/ ReapBegin(s)
  <2>1. /\ UNCHANGED <<refs, inUse, head, tail, word, wr, ring, rd, spc, batch, stail>>
        /\ \/ UNCHANGED <<ppc, pchunk, ppos, pslot, ptail>>
           \/ /\ ppc \notin {"write", "reapLink", "reapPush"} \cup Reaping
              /\ ppc' \notin {"write", "reapLink", "reapPush"}
    BY <1>0, <1>1
    DEF PublishCall, ScanRing, FreeListEmpty, SpaceEvent, EventsDone, WaitTimeout, ControlDone,
        SignalData, ReapBegin, ControlPoint, shared, freeList, subLocal, vars, pubLocal,
        PublisherTypeOK, Reaping
  <2> QED BY <2>1 DEF Releasing, ReaperReleasing, Current, BeingReaped, Reaping
<1>2. ASSUME NEW s \in Slots,
             \/ DataEvent(s) \/ LoadWrapped(s) \/ LoadContiguous(s) \/ Deliver(s)
             \/ SignalSpace(s) \/ Leave(s)
      PROVE  /\ UNCHANGED <<refs, inUse, head, tail, word, wr, ring, rd, ppc, pchunk, ppos,
                            pslot, ptail>>
             /\ s \notin Releasing'
             /\ \A t \in Slots \ {s} :
                  spc'[t] = spc[t] /\ batch'[t] = batch[t] /\ stail'[t] = stail[t]
             /\ ~CrashMidRead => s \notin Releasing
             /\ ~Leave(s) => s \notin Releasing
  BY <1>0, <1>2
  DEF DataEvent, LoadWrapped, LoadContiguous, Deliver, SignalSpace, Leave, shared, pubLocal,
      SubscriberTypeOK, Releasing, AfterMessage
<1> QED
  BY <1>1, <1>2 DEF Plain, Releasing, ReaperReleasing, Current, BeingReaped

LEMMA GiverAfterPlain ==
  ASSUME CursorInv, CursorInv', GiverInv, Plain \/ UNCHANGED vars
  PROVE  GiverInv'
<1>1. \A t \in Slots : Owns(t)' = Owns(t)
  BY QuietOwns DEF Plain, Quiet
<1>2. \A s \in Releasing' : /\ Current(s)' = Current(s) /\ spc'[s] = spc[s] /\ stail'[s] = stail[s]
                            /\ s \in Releasing /\ s \in Slots
  BY PlainFacts DEF Releasing
<1>3. /\ UNCHANGED <<refs, inUse, tail, word, wr, ring>>
      /\ ReaperReleasing' => UNCHANGED <<ppc, pchunk, ppos, pslot, ptail>>
  BY PlainFacts
<1>4. ASSUME NEW s \in Releasing'
      PROVE  /\ Current(s)' = Current(s) /\ Owns(s)' = Owns(s) /\ refs'[Current(s)] = {}
             /\ spc'[s] \in {"link", "push"} =>
                  /\ spc'[s] = spc[s] /\ ~inUse'[Current(s)] /\ stail'[s] = stail[s]
                  /\ tail' = tail /\ word'[tail] = word[tail]
  BY <1>1, <1>2, <1>3, <1>4 DEF GiverInv, SubscriberGives
<1>5. ASSUME ReaperReleasing'
      PROVE  /\ UNCHANGED <<ppc, pchunk, ppos, pslot, ptail, tail, word, Owns(pslot)>>
             /\ ~inUse'[pchunk] /\ refs'[pchunk] = {}
  <2>1. ReaperReleasing /\ ReaperGives /\ pslot \in Slots
    BY <1>3, <1>5 DEF GiverInv, ReaperReleasing, CursorInv, TypeOK, PublisherTypeOK
  <2>2. pslot' = pslot
    BY <1>3, <1>5
  <2>3. Owns(pslot)' = Owns(pslot)
    <3> PICK p \in Slots : p = pslot
      BY <2>1
    <3> QED BY <1>1, <2>2
  <2> QED BY <1>3, <1>5, <2>1, <2>3 DEF ReaperGives
<1>6. \A t \in Slots : Owns(t)' <= Owns(t)
  BY <1>1, OwnsNat
<1> QED
  BY <1>2, <1>3, <1>4, <1>5, <1>6, GiverFrame

\* The publisher takes a chunk that nobody is giving back, and writes into one
\* that is in use.
LEMMA GiverAfterTake ==
  ASSUME CursorInv, CursorInv', CountInv, SuffixInv, GiverInv, ListInv, NotReused,
         TakeChunk \/ WriteMessage \/ Commit
  PROVE  GiverInv'
<1>0. SharedTypeOK /\ PublisherTypeOK /\ SubscriberTypeOK
  BY DEF CursorInv, TypeOK
<1>1. /\ UNCHANGED <<spc, batch, stail, tail>>
      /\ ppc' \notin {"reapLink", "reapPush"}
      /\ Releasing' = Releasing /\ \A s \in Slots : Current(s)' = Current(s)
  BY DEF TakeChunk, WriteMessage, Commit, subLocal, freeList, Releasing, Current
<1>2. CASE TakeChunk
  <2>1. /\ HeadUsable /\ head \in Chunk /\ \A s \in Releasing : Current(s) # head
    BY <1>2, ListEnds DEF TakeChunk, OneChunkLeft, Loose
  <2>2. /\ UNCHANGED <<wr, ring, refs, word>> /\ inUse' = [inUse EXCEPT ![head] = TRUE]
    BY <1>2, <2>1 DEF TakeChunk
  <2>3. \A s \in Releasing : inUse'[Current(s)] = inUse[Current(s)]
    BY <1>0, <2>1, <2>2, HandTypes DEF SharedTypeOK, Releasing
  <2>4. \A t \in Slots : Owns(t)' = Owns(t) /\ Owns(t)' <= Owns(t)
    BY <1>2, QuietOwns, OwnsNat DEF Quiet
  <2>5. ASSUME NEW s \in Releasing'
        PROVE  /\ Current(s)' = Current(s) /\ Owns(s)' = Owns(s) /\ refs'[Current(s)] = {}
               /\ spc'[s] \in {"link", "push"} =>
                    /\ spc'[s] = spc[s] /\ ~inUse'[Current(s)] /\ stail'[s] = stail[s]
                    /\ tail' = tail /\ word'[tail] = word[tail]
    <3>1. s \in Releasing /\ s \in Slots /\ SubscriberGives(s)
      BY <1>1, <2>5 DEF GiverInv, Releasing
    <3> QED BY <1>1, <2>2, <2>3, <2>4, <3>1 DEF SubscriberGives
  <2> QED BY <1>1, <2>2, <2>4, <2>5, GiverFrame DEF ReaperReleasing
<1>3. CASE WriteMessage
  <2>1. /\ ppc = "write" /\ refs[pchunk] = {} /\ inUse[pchunk] /\ pchunk \in Chunk /\ wr \in Index
        /\ ring' = [ring EXCEPT ![wr] = pchunk] /\ word' = [word EXCEPT ![pchunk] = Magic]
        /\ refs' = [refs EXCEPT ![pchunk] = @ \cup Tracked] /\ UNCHANGED <<wr, inUse>>
    BY <1>0, <1>3 DEF WriteMessage, CountInv, PublisherTypeOK, SharedTypeOK
  <2>2. tail # pchunk /\ tail \in Chunk
    BY <2>1, ListEnds DEF Loose
  <2>3. \A t \in Slots : Owns(t)' = Owns(t) /\ Owns(t) \in Nat
    BY <1>3, OwnsAfterWrite, OwnsNat
  <2>4. ASSUME NEW s \in Releasing' PROVE SubscriberGives(s)'
    <3>1. s \in Releasing /\ s \in Slots /\ SubscriberGives(s) /\ Current(s) \in Chunk
      BY <1>1, <2>4, HandTypes DEF GiverInv, Releasing
    <3>2. Current(s) # pchunk
      BY <2>1, <3>1 DEF Releasing, CountInv, GivingBack, SubscriberGives
    <3>3. refs'[Current(s)] = {} /\ word'[tail] = word[tail]
      BY <1>0, <2>1, <2>2, <3>1, <3>2 DEF SharedTypeOK, SubscriberGives
    <3>4. ASSUME NEW i \in Index, Backlog(i, wr') = Owns(s)' + 1 PROVE ring'[i] = Current(s)
      <4>1. Backlog(i, wr) = Owns(s) + 1 /\ Owns(s) \in Nat
        BY <2>1, <2>3, <3>1, <3>4
      <4>2. ring[i] = Current(s)
        BY <3>1, <4>1 DEF SubscriberGives
      <4>3. i # wr
        BY <2>1, <4>1, BacklogRange
      <4> QED BY <1>0, <2>1, <4>2, <4>3 DEF SharedTypeOK
    <3>5. \A t \in Slots : Owns(t)' <= Owns(s)'
      BY <2>3, <3>1 DEF SubscriberGives
    <3> QED BY <1>1, <2>1, <3>1, <3>3, <3>4, <3>5 DEF SubscriberGives
  <2> QED BY <1>1, <2>4 DEF GiverInv, ReaperReleasing
<1>4. CASE Commit
  <2>1. /\ wr \in Index /\ wr' = AdvanceWrite(wr) /\ wr' \in Index
        /\ UNCHANGED <<ring, refs, word, inUse>>
    BY <1>0, <1>4, Values DEF Commit, freeList, SharedTypeOK
  <2>2. \A t \in Slots : /\ Owns(t) \in Nat /\ Owns(t)' \in Nat
                         /\ Owns(t)' = Owns(t) + 1 \/ Owns(t)' = 0
    BY <1>4, OwnsAfterCommit, OwnsNat
  <2>3. ASSUME NEW s \in Releasing' PROVE SubscriberGives(s)'
    <3>1. s \in Releasing /\ s \in Slots /\ SubscriberGives(s) /\ Owns(s)' = Owns(s) + 1
      BY <1>1, <1>4, <2>3, HandTypes, OwnsAfterCommit DEF GiverInv, Releasing
    <3>2. ASSUME NEW i \in Index, Backlog(i, wr') = Owns(s)' + 1 PROVE ring'[i] = Current(s)
      <4>1. Backlog(i, wr') >= 1
        BY <2>2, <3>1, <3>2
      <4>2. Backlog(i, wr) = Backlog(i, wr') - 1
        BY <2>1, <4>1, BehindNewWrite
      <4>3. Backlog(i, wr) = Owns(s) + 1
        <5> HIDE DEF Index, Owns, Backlog
        <5> QED BY <2>2, <3>1, <3>2, <4>2
      <4> QED BY <2>1, <3>1, <4>3 DEF SubscriberGives
    <3>3. \A t \in Slots : Owns(t)' <= Owns(s)'
      BY <2>2, <3>1 DEF SubscriberGives
    <3> QED BY <1>1, <2>1, <3>1, <3>2, <3>3 DEF SubscriberGives
  <2> QED BY <1>1, <2>3 DEF GiverInv, ReaperReleasing
<1> QED BY <1>2, <1>3, <1>4

\* The subscriber's steps while it gives a chunk back.
LEMMA GiverAfterPush ==
  ASSUME CursorInv, CursorInv', CountInv, SuffixInv, GiverInv, ListInv, NEW s \in Slots,
         Release(s) \/ Link(s) \/ Push(s)
  PROVE  GiverInv'
<1>0. SharedTypeOK /\ PublisherTypeOK /\ SubscriberTypeOK
  BY DEF CursorInv, TypeOK
<1> DEFINE c == Current(s)
<1>1. /\ s \in Releasing /\ SubscriberGives(s) /\ c \in Chunk /\ c # tail /\ tail \in Chunk
      /\ Releasing = {s} /\ ~ReaperReleasing
  <2>1. s \in Releasing
    BY DEF Release, Link, Push, Releasing
  <2>2. SubscriberGives(s)
    BY <2>1 DEF GiverInv
  <2> QED BY <2>1, <2>2, HandTypes, ListEnds DEF GiverInv, ReaperGives, Loose, SubscriberGives
<1>2. /\ UNCHANGED <<wr, ring, refs, batch, ppc>>
      /\ \A t \in Slots \ {s} : spc'[t] = spc[t]
      /\ Current(s)' = c
  BY <1>0 DEF Release, Link, Push, pubLocal, Current, SubscriberTypeOK
<1>3. \A t \in Slots : Owns(t)' = Owns(t)
  BY QuietOwns DEF Quiet
<1>4. Releasing' \subseteq {s} /\ ~ReaperReleasing'
  BY <1>1, <1>2 DEF Releasing, ReaperReleasing
<1>5. s \in Releasing' =>
        /\ spc'[s] \in {"link", "push"}
        /\ ~inUse'[c] /\ stail'[s] = tail' /\ tail' = tail
        /\ spc'[s] = "push" => word'[tail] = c
  <2>1. CASE Release(s)
    <3>1. /\ inUse' = [inUse EXCEPT ![c] = FALSE] /\ stail' = [stail EXCEPT ![s] = tail]
          /\ spc'[s] \in {"link", "failed"} /\ tail' = tail
      BY <1>0, <2>1 DEF Release, freeList, SubscriberTypeOK
    <3>2. ~inUse'[c] /\ stail'[s] = tail
      BY <1>0, <1>1, <3>1 DEF SharedTypeOK, SubscriberTypeOK
    <3>3. s \in Releasing' => spc'[s] = "link"
      BY <3>1 DEF Releasing
    <3> QED BY <3>1, <3>2, <3>3
  <2>2. CASE Link(s)
    <3>1. spc[s] = "link" /\ ~inUse[c] /\ stail[s] = tail
      BY <1>1, <2>2 DEF Link, SubscriberGives
    <3> QED BY <1>0, <1>1, <2>2, <3>1 DEF Link, Linked, SharedTypeOK, SubscriberTypeOK
  <2>3. CASE Push(s)
    BY <1>0, <2>3 DEF Push, SubscriberTypeOK, Releasing
  <2> QED BY <2>1, <2>2, <2>3
<1>6. s \in Releasing' => SubscriberGives(s)'
  <2> HIDE DEF c
  <2> QED BY <1>1, <1>2, <1>3, <1>4, <1>5 DEF SubscriberGives, c
<1> QED BY <1>4, <1>6 DEF GiverInv

\* While somebody gives a chunk back nobody else clears the last bit of another.
LEMMA NoSecondGiver ==
  ASSUME CursorInv, SuffixInv, GiverInv, NEW t \in Slots, spc[t] # "absent", Start(t) # wr,
         LastHolder(ring[Start(t)], t), t \notin Releasing
  PROVE  /\ Releasing = {}
         /\ ~(ReaperReleasing /\ t # pslot)
<1>1. \A u \in Slots \ {t} : Owns(u) < Owns(t)
  BY LastHolderLeads
<1>2. \A u \in Slots : Owns(u) \in Nat
  BY OwnsNat
<1>3. ASSUME NEW s \in Releasing PROVE FALSE
  BY <1>1, <1>2, <1>3 DEF GiverInv, SubscriberGives, Releasing
<1>4. ASSUME ReaperReleasing, t # pslot PROVE FALSE
  <2>1. pslot \in Slots
    BY DEF CursorInv, TypeOK, PublisherTypeOK
  <2> QED BY <1>1, <1>2, <1>4, <2>1 DEF GiverInv, ReaperGives
<1> QED BY <1>3, <1>4

LEMMA GiverAfterClear ==
  ASSUME CursorInv, CursorInv', SuffixInv, GiverInv, NEW s \in Slots, ClearBit(s)
  PROVE  GiverInv'
<1>0. SharedTypeOK /\ PublisherTypeOK /\ SubscriberTypeOK
  BY DEF CursorInv, TypeOK
<1> DEFINE c == Current(s)
<1>1. /\ BitCleared(s) /\ Start(s)' = Start(s) /\ c = ring[Start(s)]
      /\ Owns(s) = Backlog(Start(s), wr) /\ \A t \in Slots : Current(t)' = Current(t)
      /\ spc[s] # "absent" /\ Start(s) # wr /\ Start(s) \in Index /\ c \in Chunk /\ wr \in Index
  BY ClearBitClears, StartTypes DEF BitCleared
<1>2. /\ UNCHANGED <<wr, ring, word, tail, inUse, stail, ppc, pchunk, ppos, pslot, ptail>>
      /\ \A t \in Slots \ {s} : spc'[t] = spc[t]
      /\ refs' = [refs EXCEPT ![c] = @ \ {s}] /\ spc[s] = "callback" /\ s \notin Releasing
      /\ spc'[s] = IF LastHolder(c, s) THEN "storeLast" ELSE "store"
  BY <1>0 DEF ClearBit, freeList, pubLocal, SubscriberTypeOK, Releasing
<1>3. /\ Owns(s)' = Owns(s) - 1 /\ Owns(s) \in Nat /\ Owns(s)' \in Nat
      /\ \A t \in Slots \ {s} : Owns(t)' = Owns(t)
      /\ \A t \in Slots : Owns(t)' <= Owns(t) /\ Owns(t) \in Nat
  BY <1>1, OwnsAfterBit, BitsAfterClear, OwnsNat
<1>4. \A d \in Chunk : refs[d] = {} => refs'[d] = {}
  BY <1>0, <1>1, <1>2 DEF SharedTypeOK
<1> HIDE DEF c
<1>5. CASE LastHolder(c, s)
  <2>1. Releasing = {} /\ ~(ReaperReleasing /\ s # pslot)
    BY <1>1, <1>2, <1>5, NoSecondGiver DEF c
  <2>2. ~ReaperReleasing
    <3>1. ReaperReleasing => spc[pslot] = "dead"
      BY ReaperHasDropped
    <3> QED BY <1>2, <2>1, <3>1
  <2>3. Releasing' = {s} /\ spc'[s] = "storeLast" /\ ~ReaperReleasing'
    BY <1>2, <1>5, <2>1, <2>2 DEF Releasing, ReaperReleasing
  <2>4. refs'[c] = {}
    BY <1>0, <1>1, <1>2, <1>5 DEF LastHolder, SharedTypeOK
  <2>5. \A t \in Slots : Owns(t)' <= Owns(s)'
    <3>1. \A u \in Slots \ {s} : Owns(u) < Owns(s)
      BY <1>1, <1>5, LastHolderLeads DEF c
    <3> QED BY <1>3, <3>1
  <2>6. ASSUME NEW i \in Index, Backlog(i, wr') = Owns(s)' + 1 PROVE ring'[i] = c
    <3>1. Backlog(i, wr) = Backlog(Start(s), wr)
      BY <1>1, <1>2, <1>3, <2>6
    <3>2. i = Start(s)
      BY <1>1, <3>1, BacklogInjective
    <3> QED BY <1>1, <1>2, <3>2
  <2>7. SubscriberGives(s)'
    BY <1>1, <2>3, <2>4, <2>5, <2>6 DEF SubscriberGives, c
  <2> QED BY <2>3, <2>7 DEF GiverInv
<1>6. CASE ~LastHolder(c, s)
  <2>1. Releasing' = Releasing /\ s \notin Releasing'
    BY <1>2, <1>6 DEF Releasing
  <2>2. ASSUME NEW t \in Releasing'
        PROVE  /\ Current(t)' = Current(t) /\ Owns(t)' = Owns(t) /\ refs'[Current(t)] = {}
               /\ spc'[t] \in {"link", "push"} =>
                    /\ spc'[t] = spc[t] /\ ~inUse'[Current(t)] /\ stail'[t] = stail[t]
                    /\ tail' = tail /\ word'[tail] = word[tail]
    <3>1. t \in Slots \ {s} /\ SubscriberGives(t) /\ Current(t) \in Chunk
      BY <2>1, <2>2, HandTypes DEF GiverInv, Releasing
    <3> QED BY <1>1, <1>2, <1>3, <1>4, <3>1 DEF SubscriberGives
  <2>3. ASSUME ReaperReleasing'
        PROVE  /\ UNCHANGED <<ppc, pchunk, ppos, pslot, ptail, tail, word, Owns(pslot)>>
               /\ ~inUse'[pchunk] /\ refs'[pchunk] = {}
    <3>1. ReaperReleasing /\ ReaperGives /\ pslot \in Slots /\ pchunk \in Chunk /\ pslot # s
      BY <1>0, <1>2, <2>3, ReaperHasDropped DEF ReaperReleasing, PublisherTypeOK
    <3>2. Owns(pslot)' = Owns(pslot)
      <4> PICK p \in Slots \ {s} : p = pslot
        BY <3>1
      <4> QED BY <1>2, <1>3
    <3> QED BY <1>2, <1>4, <3>1, <3>2 DEF ReaperGives
  <2> QED BY <1>2, <1>3, <2>1, <2>2, <2>3, GiverFrame
<1> QED BY <1>5, <1>6

LEMMA GiverAfterReap ==
  ASSUME CursorInv, CursorInv', CountInv, SuffixInv, GiverInv, ReapKeep \/ ReapRelease
  PROVE  GiverInv'
<1>0. SharedTypeOK /\ PublisherTypeOK /\ SubscriberTypeOK
  BY DEF CursorInv, TypeOK
<1> PICK p \in Slots : p = pslot
  BY <1>0 DEF PublisherTypeOK
<1> DEFINE c == ring[ppos]
<1>1. /\ BitCleared(p) /\ Start(p) = ppos /\ spc[p] = "dead" /\ Start(p)' \in {ppos, AdvanceRead(ppos)}
      /\ UNCHANGED <<spc, batch, pslot>>
      /\ ReapRelease => ppos' = ppos /\ ppc' = "reapLink" /\ Start(p)' = ppos
      /\ ReapKeep => ppc' = "reap"
      /\ spc[p] # "absent" /\ Start(p) # wr /\ ppos \in Index /\ c \in Chunk /\ wr \in Index
      /\ p \notin Releasing
  <2>1. BitCleared(p) /\ Start(p) = ppos /\ spc[p] = "dead" /\ UNCHANGED <<spc, batch, pslot>>
    BY ReapClears
  <2>2. /\ Start(p)' = ppos'
        /\ ReapRelease => ppos' = ppos /\ ppc' = "reapLink"
        /\ ReapKeep => ppos' = AdvanceRead(ppos) /\ ppc' = "reap"
    BY <2>1, ReapClears
  <2> QED BY <2>1, <2>2, StartTypes DEF BitCleared, Releasing
<1>2. /\ UNCHANGED <<wr, ring, word, tail, stail>> /\ refs' = [refs EXCEPT ![c] = @ \ {p}]
      /\ ReapKeep => UNCHANGED inUse
      /\ ReapRelease => /\ inUse' = [inUse EXCEPT ![c] = FALSE] /\ ptail' = tail /\ pchunk' = c
                        /\ LastHolder(c, p)
  BY DEF ReapKeep, ReapRelease, freeList, subLocal
<1>3. /\ Owns(p)' = Backlog(ppos, wr) - 1 /\ Owns(p) \in Nat /\ Owns(p)' \in Nat
      /\ \A t \in Slots \ {p} : Owns(t)' = Owns(t)
      /\ \A t \in Slots : Owns(t)' <= Owns(t) /\ Owns(t) \in Nat
  BY <1>1, OwnsAfterBit, BitsAfterClear, OwnsNat
<1>4. \A d \in Chunk : refs[d] = {} => refs'[d] = {}
  BY <1>0, <1>1, <1>2 DEF SharedTypeOK
<1>5. Releasing' = Releasing /\ \A t \in Slots : Current(t)' = Current(t)
  BY <1>1 DEF Releasing, Current
<1> HIDE DEF c
<1>6. CASE ReapRelease
  <2>1. Releasing' = {}
    BY <1>1, <1>2, <1>5, <1>6, NoSecondGiver DEF c
  <2>2. refs'[c] = {} /\ ~inUse'[c]
    BY <1>0, <1>1, <1>2, <1>6 DEF LastHolder, SharedTypeOK
  <2>3. \A t \in Slots : Owns(t)' <= Owns(p)'
    <3>1. \A u \in Slots \ {p} : Owns(u) < Owns(p)
      BY <1>1, <1>2, <1>6, LastHolderLeads DEF c
    <3>2. Owns(p) <= Backlog(ppos, wr)
      BY <1>1, OwnsTypes
    <3>3. Backlog(ppos, wr) \in Int
      BY <1>1, OwnsTypes
    <3> QED BY <1>3, <3>1, <3>2, <3>3
  <2>4. ReaperGives'
    BY <1>1, <1>2, <1>6, <2>1, <2>2, <2>3 DEF ReaperGives, c
  <2> QED BY <2>1, <2>4 DEF GiverInv
<1>7. CASE ReapKeep
  <2>1. ASSUME NEW t \in Releasing'
        PROVE  /\ Current(t)' = Current(t) /\ Owns(t)' = Owns(t) /\ refs'[Current(t)] = {}
               /\ spc'[t] \in {"link", "push"} =>
                    /\ spc'[t] = spc[t] /\ ~inUse'[Current(t)] /\ stail'[t] = stail[t]
                    /\ tail' = tail /\ word'[tail] = word[tail]
    <3>1. t \in Slots \ {p} /\ SubscriberGives(t) /\ Current(t) \in Chunk
      BY <1>1, <1>5, <2>1, HandTypes DEF GiverInv, Releasing
    <3> QED BY <1>1, <1>2, <1>3, <1>4, <1>5, <1>7, <3>1 DEF SubscriberGives
  <2>2. ~ReaperReleasing'
    BY <1>1, <1>7 DEF ReaperReleasing
  <2> QED BY <1>2, <1>3, <1>5, <2>1, <2>2, GiverFrame
<1> QED BY <1>6, <1>7

LEMMA GiverAfterRest ==
  ASSUME CursorInv, CursorInv', SuffixInv, GiverInv, ListInv,
         \/ ReapLink \/ ReapPush \/ ReapEnd
         \/ \E s \in Slots : Track(s) \/ StoreIndex(s) \/ StoreIndexLast(s)
  PROVE  GiverInv'
<1>0. SharedTypeOK /\ PublisherTypeOK /\ SubscriberTypeOK
  BY DEF CursorInv, TypeOK
<1>1. CASE ReapLink
  <2> PICK p \in Slots : p = pslot
    BY <1>0 DEF PublisherTypeOK
  <2>1. /\ ReaperGives /\ Releasing' = {} /\ UNCHANGED <<refs, inUse, ring, wr, tail, pslot, ppos,
                                                          pchunk, ptail>>
        /\ word' = Linked(ptail, pchunk) /\ ppc' = "reapPush"
    BY <1>1, ReaperHasDropped DEF ReapLink, ReaperReleasing, ReaperGives, Releasing, subLocal
  <2>2. \A t \in Slots : Owns(t)' = Owns(t)
    BY <1>1, QuietOwns DEF Quiet
  <2>3. word'[tail] = pchunk
    BY <1>0, <2>1 DEF ReaperGives, Linked, SharedTypeOK
  <2>4. \A t \in Slots : Owns(t)' <= Owns(p)'
    BY <2>1, <2>2 DEF ReaperGives
  <2>5. ReaperGives'
    BY <2>1, <2>3, <2>4 DEF ReaperGives
  <2> QED BY <2>1, <2>5 DEF GiverInv
<1>2. CASE ReapPush
  <2>1. Releasing' = {} /\ ~ReaperReleasing'
    BY <1>2, ReaperHasDropped DEF ReapPush, ReaperReleasing, ReaperGives, Releasing, subLocal
  <2> QED BY <2>1 DEF GiverInv
<1>3. CASE ReapEnd \/ \E s \in Slots : Track(s)
  <2>1. /\ \A t \in Slots : Owns(t)' = Owns(t) /\ Owns(t)' <= Owns(t)
        /\ UNCHANGED <<wr, ring, refs>>
    BY <1>3, SlotsAssumption, OwnsAfterLifecycle, OwnsNat
  <2>2. /\ UNCHANGED <<inUse, batch, stail, tail, word>> /\ ppc' = "control"
        /\ \A t \in Slots : spc'[t] = spc[t] \/ spc'[t] \in {"absent", "idle"}
    BY <1>0, <1>3 DEF ReapEnd, Track, freeList, SubscriberTypeOK
  <2>3. Releasing' \subseteq Releasing /\ \A s \in Releasing' : spc'[s] = spc[s] /\ s \in Slots
    BY <2>2 DEF Releasing
  <2>4. ASSUME NEW s \in Releasing'
        PROVE  /\ Current(s)' = Current(s) /\ Owns(s)' = Owns(s) /\ refs'[Current(s)] = {}
               /\ spc'[s] \in {"link", "push"} =>
                    /\ spc'[s] = spc[s] /\ ~inUse'[Current(s)] /\ stail'[s] = stail[s]
                    /\ tail' = tail /\ word'[tail] = word[tail]
    BY <2>1, <2>2, <2>3, <2>4 DEF GiverInv, SubscriberGives, Current
  <2> QED BY <2>1, <2>2, <2>3, <2>4, GiverFrame DEF ReaperReleasing
<1>4. ASSUME NEW s \in Slots, StoreIndex(s) \/ StoreIndexLast(s) PROVE GiverInv'
  <2>1. /\ \A t \in Slots : Owns(t)' = Owns(t) /\ Owns(t)' <= Owns(t)
        /\ UNCHANGED <<wr, ring, refs, ppc>>
    BY <1>4, OwnsAfterStore, OwnsNat
  <2>2. /\ UNCHANGED <<inUse, stail, tail, word, pchunk, ppos, pslot, ptail>>
        /\ \A t \in Slots \ {s} : spc'[t] = spc[t] /\ batch'[t] = batch[t]
        /\ s \in Releasing' => s \in Releasing /\ spc'[s] = "release" /\ batch'[s] = batch[s]
    BY <1>0, <1>4
    DEF StoreIndex, StoreIndexLast, freeList, pubLocal, SubscriberTypeOK, AfterMessage, Releasing
  <2>3. /\ Releasing' \subseteq Releasing
        /\ \A t \in Releasing' : /\ spc'[t] = spc[t] \/ spc'[t] = "release"
                                 /\ t \in Slots /\ Current(t)' = Current(t)
    BY <2>2 DEF Releasing, Current
  <2>4. ASSUME NEW t \in Releasing'
        PROVE  /\ Current(t)' = Current(t) /\ Owns(t)' = Owns(t) /\ refs'[Current(t)] = {}
               /\ spc'[t] \in {"link", "push"} =>
                    /\ spc'[t] = spc[t] /\ ~inUse'[Current(t)] /\ stail'[t] = stail[t]
                    /\ tail' = tail /\ word'[tail] = word[tail]
    BY <2>1, <2>2, <2>3, <2>4 DEF GiverInv, SubscriberGives
  <2>5. ASSUME ReaperReleasing'
        PROVE  /\ UNCHANGED <<ppc, pchunk, ppos, pslot, ptail, tail, word, Owns(pslot)>>
               /\ ~inUse'[pchunk] /\ refs'[pchunk] = {}
    <3>1. ReaperReleasing /\ ReaperGives /\ pslot \in Slots
      BY <2>1, <2>5, ReaperHasDropped DEF ReaperReleasing
    <3> PICK p \in Slots : p = pslot
      BY <3>1
    <3> QED BY <2>1, <2>2, <3>1 DEF ReaperGives
  <2> QED BY <2>1, <2>3, <2>4, <2>5, GiverFrame
<1> QED BY <1>1, <1>2, <1>3, <1>4

LEMMA GiverStep ==
  /\ CursorInv /\ CursorInv' /\ CountInv /\ SuffixInv /\ GiverInv /\ ListInv /\ NotReused
  /\ [Next]_vars
  => GiverInv'
BY GiverAfterPlain, GiverAfterTake, GiverAfterPush, GiverAfterClear, GiverAfterReap,
   GiverAfterRest
DEF Next, PublishStep, ReapStep, SubscriberStep, Plain

\* A chunk whose bit a slot has cleared is not written again before the slot has
\* passed its descriptor.
LEMMA NotReusedStep ==
  CursorInv /\ CountInv /\ SuffixInv /\ ListInv /\ NotReused /\ [Next]_vars => NotReused'
<1> SUFFICES ASSUME CursorInv, CountInv, SuffixInv, ListInv, NotReused, [Next]_vars,
                    ppc' = "write", NEW t \in Slots, Dropped(t)'
             PROVE  ring'[Start(t)'] # pchunk'
  BY DEF NotReused
<1>0. SharedTypeOK /\ PublisherTypeOK /\ SubscriberTypeOK
  BY DEF CursorInv, TypeOK
<1>1. CASE TakeChunk
  <2>1. Dropped(t) /\ Start(t)' = Start(t) /\ ring' = ring
    BY <1>1, QuietOwns, QuietFacts DEF Quiet
  <2>2. ~BeingReaped(t) /\ head # tail
    BY <1>1 DEF TakeChunk, OneChunkLeft, BeingReaped, Reaping
  <2>3. pchunk' = head
    BY <1>1, <2>2, ListEnds DEF TakeChunk
  <2> QED BY <2>1, <2>2, <2>3, ListEnds
<1>2. CASE Plain \/ UNCHANGED vars
  <2>1. Dropped(t) /\ Start(t)' = Start(t) /\ ring' = ring
    BY <1>2, QuietOwns, QuietFacts DEF Quiet, Plain
  <2>2. UNCHANGED <<ppc, pchunk>>
    BY <1>2, PlainFacts
  <2> QED BY <2>1, <2>2 DEF NotReused
<1>3. ASSUME NEW s \in Slots, Release(s) \/ Link(s) \/ Push(s) \/ StoreIndex(s) \/ StoreIndexLast(s)
      PROVE  ring'[Start(t)'] # pchunk'
  <2>1. UNCHANGED <<ppc, pchunk, ring, pslot, ppos>>
    BY <1>3 DEF Release, Link, Push, StoreIndex, StoreIndexLast, pubLocal
  <2>2. Dropped(t) /\ Start(t)' = Start(t)
    <3>1. CASE Release(s) \/ Link(s) \/ Push(s)
      BY <3>1, QuietOwns, QuietFacts DEF Quiet
    <3>2. CASE StoreIndex(s) \/ StoreIndexLast(s)
      <4>1. t # s /\ Dropped(t)
        BY <3>2, OwnsAfterStore
      <4>2. rd'[t] = rd[t]
        BY <1>0, <3>2, <4>1 DEF StoreIndex, StoreIndexLast, SharedTypeOK
      <4> QED BY <2>1, <4>1, <4>2 DEF Start, BeingReaped
    <3> QED BY <1>3, <3>1, <3>2
  <2> QED BY <2>1, <2>2 DEF NotReused
<1>4. ASSUME NEW s \in Slots, ClearBit(s) PROVE ring'[Start(t)'] # pchunk'
  <2>1. /\ BitCleared(s) /\ Start(s)' = Start(s) /\ UNCHANGED <<ppc, pchunk, ring>>
        /\ Current(s) = ring[Start(s)] /\ ~Dropped(s)
    BY <1>4, ClearBitClears DEF BitCleared
  <2>2. CASE t = s
    <3>1. s \in refs[ring[Start(s)]]
      BY <2>1 DEF Dropped, BitCleared
    <3>2. refs[pchunk] = {}
      BY <2>1 DEF CountInv
    <3> QED BY <2>1, <2>2, <3>1, <3>2
  <2>3. CASE t # s
    <3>1. Dropped(t) /\ Start(t)' = Start(t)
      BY <2>1, <2>3, BitsAfterClear DEF BitCleared
    <3> QED BY <2>1, <3>1 DEF NotReused
  <2> QED BY <2>2, <2>3
<1>5. ~(WriteMessage \/ Commit \/ ReapStep \/ \E s \in Slots : Track(s))
  BY <1>0 DEF WriteMessage, Commit, ReapStep, ReapKeep, ReapRelease, ReapLink, ReapPush, ReapEnd, Track
<1> QED
  BY <1>1, <1>2, <1>3, <1>4, <1>5 DEF Next, PublishStep, SubscriberStep, Plain

\* The magic of a message stays until its last bit is cleared.
LEMMA MagicStep ==
  CursorInv /\ SuffixInv /\ GiverInv /\ ListInv /\ MagicInv /\ [Next]_vars => MagicInv'
<1> SUFFICES ASSUME CursorInv, SuffixInv, GiverInv, ListInv, MagicInv, [Next]_vars,
                    NEW c \in Chunk, refs'[c] # {}
             PROVE  word'[c] = Magic
  BY DEF MagicInv
<1>0. SharedTypeOK /\ PublisherTypeOK /\ SubscriberTypeOK
  BY DEF CursorInv, TypeOK
<1>1. CASE word' = word /\ refs'[c] \subseteq refs[c]
  BY <1>1 DEF MagicInv
<1>2. CASE WriteMessage
  <2>1. c # pchunk => refs[c] # {}
    BY <1>0, <1>2 DEF WriteMessage, SharedTypeOK, PublisherTypeOK
  <2> QED BY <1>0, <1>2, <2>1 DEF WriteMessage, MagicInv, SharedTypeOK, PublisherTypeOK
<1>3. ASSUME refs[c] # {}, word' = Linked(tail, pchunk) \/ \E s \in Slots : word' = Linked(tail, Current(s))
      PROVE  word'[c] = Magic
  <2>1. tail # c
    BY <1>3, ListEnds DEF Loose
  <2> QED BY <1>0, <1>3, <2>1 DEF Linked, MagicInv, SharedTypeOK
<1>4. CASE ReapLink
  <2>1. ptail = tail
    BY <1>4, ReaperHasDropped DEF ReapLink, ReaperReleasing, ReaperGives
  <2> QED BY <1>3, <1>4, <2>1 DEF ReapLink
<1>5. ASSUME NEW s \in Slots, Link(s) PROVE word'[c] = Magic
  <2>1. stail[s] = tail
    BY <1>5 DEF Link, Releasing, GiverInv, SubscriberGives
  <2> QED BY <1>3, <1>5, <2>1 DEF Link
<1>6. ASSUME NEW s \in Slots, ClearBit(s) PROVE word' = word /\ refs'[c] \subseteq refs[c]
  BY <1>0, <1>6 DEF ClearBit, freeList, SharedTypeOK
<1>7. CASE ReapKeep \/ ReapRelease
  BY <1>0, <1>1, <1>7 DEF ReapKeep, ReapRelease, freeList, SharedTypeOK
<1>8. CASE Plain \/ UNCHANGED vars
  BY <1>1, <1>8, PlainFacts
<1>9. CASE \/ TakeChunk \/ Commit \/ ReapPush \/ ReapEnd
           \/ \E s \in Slots : \/ Track(s) \/ StoreIndex(s) \/ StoreIndexLast(s) \/ Release(s)
                               \/ Push(s)
  BY <1>1, <1>9
  DEF TakeChunk, Commit, ReapPush, ReapEnd, Track, StoreIndex, StoreIndexLast, Release, Push,
      freeList
<1> QED
  BY <1>1, <1>2, <1>4, <1>5, <1>6, <1>7, <1>8, <1>9
  DEF Next, PublishStep, ReapStep, SubscriberStep, Plain

-----------------------------------------------------------------------------
(* The list through a step: it stays, loses its head, or gets a new tail. *)

\* What IsList says of each chunk, with the types the provers need.
LEMMA ListParts ==
  ASSUME NEW q, IsList(q)
  PROVE  /\ q \in Seq(Chunk) /\ Len(q) \in Nat /\ Len(q) >= 1
         /\ q[1] = head /\ q[Len(q)] = tail
         /\ \A k \in 1 .. Len(q) : q[k] \in Chunk /\ Loose(q[k])
         /\ \A k \in 1 .. Len(q) - 1 : word[q[k]] = q[k + 1] /\ q[k] # tail
<1> HIDE DEF Chunk, Loose
<1>1. q \in Seq(Chunk) /\ Len(q) \in Nat /\ Len(q) >= 1
  BY DEF IsList
<1>2. \A k \in 1 .. Len(q) - 1 : q[k] # tail
  BY <1>1 DEF IsList
<1> QED BY <1>1, <1>2 DEF IsList

LEMMA ListStays ==
  ASSUME NEW q, IsList(q), UNCHANGED <<head, tail>>,
         \A k \in 1 .. Len(q) : Loose(q[k])',
         \A k \in 1 .. Len(q) - 1 : word'[q[k]] = word[q[k]],
         \A t \in Slots : Dropped(t)' /\ ~BeingReaped(t)' =>
           \/ Dropped(t) /\ ~BeingReaped(t) /\ ring'[Start(t)'] = ring[Start(t)]
           \/ \A k \in 1 .. Len(q) : q[k] # ring'[Start(t)'],
         ~CrashMidRead =>
           \A c \in Chunk : refs'[c] = {} /\ c \notin InHand' => refs[c] = {} /\ c \notin InHand
  PROVE  ListInv'
<1> HIDE DEF Chunk, Loose, InHand, Dropped, BeingReaped, Start
<1>1. \A t \in Slots : Dropped(t)' /\ ~BeingReaped(t)' =>
        \A k \in 1 .. Len(q) - 1 : q[k] # ring'[Start(t)']
  <2>1. Len(q) \in Nat
    BY DEF IsList
  <2> QED BY <2>1 DEF IsList
<1>2. IsList(q)'
  BY <1>1 DEF IsList
<1> QED BY <1>2 DEF ListInv

LEMMA ListGrows ==
  ASSUME NEW q, IsList(q), NEW c \in Chunk, \A k \in 1 .. Len(q) : q[k] # c,
         UNCHANGED <<head, word>>, tail' = c, word[tail] = c,
         Loose(c)', \A k \in 1 .. Len(q) : Loose(q[k])',
         \A t \in Slots : Dropped(t)' /\ ~BeingReaped(t)' =>
           /\ Dropped(t) /\ ~BeingReaped(t) /\ ring'[Start(t)'] = ring[Start(t)]
           /\ ring[Start(t)] # tail,
         ~CrashMidRead =>
           \A d \in Chunk : refs'[d] = {} /\ d \notin InHand' =>
             d = c \/ (refs[d] = {} /\ d \notin InHand)
  PROVE  ListInv'
<1> HIDE DEF Chunk, Loose, InHand, Dropped, BeingReaped, Start
<1> DEFINE r == Append(q, c)
<1>1. /\ q \in Seq(Chunk) /\ Len(q) \in Nat /\ Len(q) >= 1 /\ q[Len(q)] = tail /\ q[1] = head
  BY DEF IsList
<1>2. /\ r \in Seq(Chunk) /\ Len(r) = Len(q) + 1
      /\ \A k \in 1 .. Len(q) : r[k] = q[k]
      /\ r[Len(q) + 1] = c
  BY <1>1
<1> HIDE DEF r
<1>3. r[1] = head' /\ r[Len(r)] = tail' /\ Len(r) >= 1
  BY <1>1, <1>2
<1>4. ASSUME NEW k \in 1 .. Len(r) - 1 PROVE word'[r[k]] = r[k + 1]
  <2>1. CASE k = Len(q)
    BY <1>1, <1>2, <2>1
  <2>2. CASE k # Len(q)
    <3>1. k \in 1 .. Len(q) - 1 /\ k \in 1 .. Len(q) /\ k + 1 \in 1 .. Len(q)
      BY <1>1, <1>2, <2>2
    <3>2. word[q[k]] = q[k + 1]
      BY <3>1 DEF IsList
    <3> QED BY <1>2, <3>1, <3>2
  <2> QED BY <2>1, <2>2
<1>5. ASSUME NEW j \in 1 .. Len(r), NEW k \in 1 .. Len(r), r[j] = r[k] PROVE j = k
  <2>1. \A i \in 1 .. Len(r) : i \in 1 .. Len(q) \/ i = Len(q) + 1
    BY <1>1, <1>2
  <2>2. \A i, l \in 1 .. Len(q) : q[i] = q[l] => i = l
    BY DEF IsList
  <2> QED BY <1>2, <1>5, <2>1, <2>2
<1>6. ASSUME NEW k \in 1 .. Len(r) PROVE Loose(r[k])'
  <2>1. k \in 1 .. Len(q) \/ k = Len(q) + 1
    BY <1>1, <1>2
  <2>2. CASE k \in 1 .. Len(q)
    <3>1. r[k] = q[k]
      BY <1>2, <2>2
    <3> QED BY <2>2, <3>1 DEF Loose
  <2>3. CASE k = Len(q) + 1
    <3>1. r[k] = c
      BY <1>2, <2>3
    <3> QED BY <3>1 DEF Loose
  <2> QED BY <2>1, <2>2, <2>3
<1>7. ASSUME NEW t \in Slots, Dropped(t)' /\ ~BeingReaped(t)', NEW k \in 1 .. Len(r) - 1
      PROVE  r[k] # ring'[Start(t)']
  <2>1. k \in 1 .. Len(q) /\ (k \in 1 .. Len(q) - 1 \/ k = Len(q))
    BY <1>1, <1>2
  <2>2. r[k] = q[k]
    BY <1>2, <2>1
  <2>3. CASE k = Len(q)
    BY <1>1, <1>7, <2>2, <2>3
  <2>4. CASE k \in 1 .. Len(q) - 1
    BY <1>7, <2>2, <2>4 DEF IsList
  <2> QED BY <2>1, <2>3, <2>4
<1>8. ASSUME ~CrashMidRead, NEW d \in Chunk, refs'[d] = {}, d \notin InHand'
      PROVE  \E k \in 1 .. Len(r) : r[k] = d
  <2>1. CASE d = c
    BY <1>1, <1>2, <2>1
  <2>2. CASE d # c
    <3>1. PICK k \in 1 .. Len(q) : q[k] = d
      BY <1>8, <2>2 DEF IsList
    <3> QED BY <1>1, <1>2, <3>1
  <2> QED BY <2>1, <2>2
<1>9. IsList(r)'
  BY <1>2, <1>3, <1>4, <1>5, <1>6, <1>7, <1>8 DEF IsList
<1> QED BY <1>9 DEF ListInv

LEMMA ListShrinks ==
  ASSUME NEW q, IsList(q), head # tail, head' = word[head], UNCHANGED <<tail, word>>,
         \A k \in 2 .. Len(q) : Loose(q[k])',
         \A t \in Slots : Dropped(t)' /\ ~BeingReaped(t)' =>
           Dropped(t) /\ ~BeingReaped(t) /\ ring'[Start(t)'] = ring[Start(t)],
         ~CrashMidRead =>
           \A c \in Chunk : refs'[c] = {} /\ c \notin InHand' =>
             c # head /\ refs[c] = {} /\ c \notin InHand
  PROVE  ListInv'
<1> HIDE DEF Chunk, Loose, InHand, Dropped, BeingReaped, Start
<1> DEFINE r == Tail(q)
<1>1. /\ q \in Seq(Chunk) /\ Len(q) \in Nat /\ Len(q) >= 1 /\ q[Len(q)] = tail /\ q[1] = head
  BY DEF IsList
<1>2. Len(q) >= 2
  BY <1>1
<1>3. /\ r \in Seq(Chunk) /\ Len(r) = Len(q) - 1
      /\ \A k \in 1 .. Len(r) : r[k] = q[k + 1]
  BY <1>1, <1>2
<1> HIDE DEF r
<1>4. word[q[1]] = q[2]
  BY <1>1, <1>2 DEF IsList
<1>5. r[1] = head' /\ r[Len(r)] = tail' /\ Len(r) >= 1
  BY <1>1, <1>2, <1>3, <1>4
<1>6. ASSUME NEW k \in 1 .. Len(r) - 1 PROVE word'[r[k]] = r[k + 1]
  <2>1. k + 1 \in 1 .. Len(q) - 1 /\ k \in 1 .. Len(r) /\ k + 1 \in 1 .. Len(r)
    BY <1>1, <1>3
  <2>2. word[q[k + 1]] = q[(k + 1) + 1]
    BY <2>1 DEF IsList
  <2> QED BY <1>3, <2>1, <2>2
<1>7. ASSUME NEW j \in 1 .. Len(r), NEW k \in 1 .. Len(r), r[j] = r[k] PROVE j = k
  <2>1. j + 1 \in 1 .. Len(q) /\ k + 1 \in 1 .. Len(q) /\ q[j + 1] = q[k + 1]
    BY <1>1, <1>3, <1>7
  <2>2. j + 1 = k + 1
    BY <2>1 DEF IsList
  <2> QED BY <2>2
<1>8. ASSUME NEW k \in 1 .. Len(r) PROVE Loose(r[k])'
  <2>1. k + 1 \in 2 .. Len(q) /\ r[k] = q[k + 1]
    BY <1>1, <1>3
  <2>2. Loose(q[k + 1])'
    BY <2>1
  <2> QED BY <2>1, <2>2 DEF Loose
<1>9. ASSUME NEW t \in Slots, Dropped(t)' /\ ~BeingReaped(t)', NEW k \in 1 .. Len(r) - 1
      PROVE  r[k] # ring'[Start(t)']
  <2>1. k + 1 \in 1 .. Len(q) - 1 /\ r[k] = q[k + 1]
    BY <1>1, <1>3, SMTT(60)
  <2> QED BY <1>9, <2>1 DEF IsList
<1>10. ASSUME ~CrashMidRead, NEW c \in Chunk, refs'[c] = {}, c \notin InHand'
       PROVE  \E k \in 1 .. Len(r) : r[k] = c
  <2>1. PICK k \in 1 .. Len(q) : q[k] = c
    BY <1>10 DEF IsList
  <2>2. k # 1
    BY <1>1, <1>10, <2>1
  <2>3. k - 1 \in 1 .. Len(r) /\ (k - 1) + 1 = k
    BY <1>1, <1>3, <2>1, <2>2
  <2> QED BY <1>3, <2>1, <2>3
<1>11. IsList(r)'
  BY <1>3, <1>5, <1>6, <1>7, <1>8, <1>9, <1>10 DEF IsList
<1> QED BY <1>11 DEF ListInv

\* A chunk stays loose while its counts do and nobody new gives a chunk back.
LEMMA LooseFrame ==
  ASSUME NEW c \in Chunk, Loose(c), ~inUse'[c], refs'[c] = {},
         \A s \in Releasing' : s \in Releasing /\ Current(s)' = Current(s),
         ReaperReleasing' => ReaperReleasing /\ pchunk' = pchunk
  PROVE  Loose(c)'
<1> HIDE DEF Chunk
<1> QED BY DEF Loose

\* What is in hand stays in hand.
LEMMA HandFrame ==
  ASSUME \A s \in Releasing : s \in Releasing' /\ Current(s)' = Current(s),
         (ppc = "write" \/ ReaperReleasing)
           => (ppc' = "write" \/ ReaperReleasing') /\ pchunk' = pchunk
  PROVE  InHand \subseteq InHand'
BY DEF InHand

\* The list stays when loose chunks stay loose and keep their links.
LEMMA ListKept ==
  ASSUME ListInv, UNCHANGED <<head, tail>>,
         \A c \in Chunk : Loose(c) => Loose(c)' /\ (c # tail => word'[c] = word[c]),
         \A t \in Slots : Dropped(t)' /\ ~BeingReaped(t)' =>
           \/ Dropped(t) /\ ~BeingReaped(t) /\ ring'[Start(t)'] = ring[Start(t)]
           \/ ~Loose(ring'[Start(t)']),
         ~CrashMidRead =>
           \A c \in Chunk : refs'[c] = {} /\ c \notin InHand' => refs[c] = {} /\ c \notin InHand
  PROVE  ListInv'
<1>1. PICK q : IsList(q)
  BY DEF ListInv
<1>2. Len(q) \in Nat
  BY <1>1, ListParts
<1>3. ASSUME NEW k \in 1 .. Len(q)
      PROVE  Loose(q[k]) /\ Loose(q[k])' /\ (k \in 1 .. Len(q) - 1 => word'[q[k]] = word[q[k]])
  <2> PICK c \in Chunk : c = q[k]
    BY <1>1, ListParts
  <2>1. Loose(c) /\ (k \in 1 .. Len(q) - 1 => c # tail)
    BY <1>1, ListParts
  <2>2. Loose(c)' /\ (c # tail => word'[c] = word[c])
    BY <2>1
  <2> QED BY <2>1, <2>2 DEF Loose
<1>4. \A k \in 1 .. Len(q) - 1 : word'[q[k]] = word[q[k]]
  BY <1>2, <1>3
<1>5. \A t \in Slots : Dropped(t)' /\ ~BeingReaped(t)' =>
        \/ Dropped(t) /\ ~BeingReaped(t) /\ ring'[Start(t)'] = ring[Start(t)]
        \/ \A k \in 1 .. Len(q) : q[k] # ring'[Start(t)']
  <2> HIDE DEF Loose, Dropped, BeingReaped, Start
  <2> QED BY <1>3
<1> QED BY <1>1, <1>3, <1>4, <1>5, ListStays

LEMMA ListAfterPlain ==
  ASSUME CursorInv, ListInv, Plain \/ UNCHANGED vars
  PROVE  ListInv'
<1>1. /\ UNCHANGED <<refs, inUse, head, tail, word, wr, ring, rd>>
      /\ \A s \in Releasing' : s \in Releasing /\ Current(s)' = Current(s)
      /\ ReaperReleasing' => ReaperReleasing /\ pchunk' = pchunk
      /\ ~CrashMidRead => \A s \in Releasing : s \in Releasing' /\ Current(s)' = Current(s)
      /\ (ppc = "write" \/ ReaperReleasing)
           => (ppc' = "write" \/ ReaperReleasing') /\ pchunk' = pchunk
      /\ \A t \in Slots : BeingReaped(t) => BeingReaped(t)'
  BY PlainFacts DEF ReaperReleasing
<1>2. \A c \in Chunk : Loose(c) => Loose(c)'
  <2> SUFFICES ASSUME NEW c \in Chunk, Loose(c) PROVE Loose(c)'
    OBVIOUS
  <2>1. ~inUse'[c] /\ refs'[c] = {}
    BY <1>1 DEF Loose
  <2> QED BY <1>1, <2>1, LooseFrame
<1>3. \A t \in Slots : Dropped(t)' /\ ~BeingReaped(t)' =>
        Dropped(t) /\ ~BeingReaped(t) /\ ring'[Start(t)'] = ring[Start(t)]
  BY <1>1, QuietOwns, QuietFacts DEF Quiet, Plain
<1>4. ~CrashMidRead => InHand \subseteq InHand'
  BY <1>1, HandFrame
<1> QED BY <1>1, <1>2, <1>3, <1>4, ListKept

LEMMA ListAfterTake ==
  ASSUME CursorInv, CountInv, SuffixInv, NotReused, SomeoneTracked, ListInv,
         TakeChunk \/ WriteMessage \/ Commit
  PROVE  ListInv'
<1>0. SharedTypeOK /\ PublisherTypeOK /\ SubscriberTypeOK
  BY DEF CursorInv, TypeOK
<1>1. /\ UNCHANGED <<spc, batch, rd, pslot, ppos>>
      /\ Releasing' = Releasing /\ \A s \in Slots : Current(s)' = Current(s)
      /\ ppc \in {"alloc", "write", "commit"} /\ ~ReaperReleasing /\ ~ReaperReleasing'
      /\ \A t \in Slots : ~BeingReaped(t) /\ ~BeingReaped(t)' /\ Start(t)' = Start(t)
  <2>1. /\ UNCHANGED <<spc, batch, rd, pslot, ppos>>
        /\ ppc \in {"alloc", "write", "commit"}
        /\ ppc' \in {"failed", "write", "commit", "signal"}
    BY DEF TakeChunk, WriteMessage, Commit, subLocal
  <2> QED BY <2>1 DEF Releasing, Current, ReaperReleasing, Start, BeingReaped, Reaping
<1>2. CASE TakeChunk
  <2>1. head # tail /\ HeadUsable /\ head \in Chunk
    BY <1>2, ListEnds DEF TakeChunk, OneChunkLeft
  <2>2. /\ inUse' = [inUse EXCEPT ![head] = TRUE] /\ pchunk' = head /\ head' = word[head]
        /\ ppc' = "write" /\ ppc = "alloc" /\ UNCHANGED <<ring, tail, word, refs>>
    BY <1>2, <2>1 DEF TakeChunk
  <2>3. PICK q : IsList(q)
    BY DEF ListInv
  <2>4. ASSUME NEW k \in 2 .. Len(q) PROVE Loose(q[k])'
    <3>1. k \in 1 .. Len(q) /\ 1 \in 1 .. Len(q) /\ k # 1
      BY <2>3, ListParts
    <3>2. Loose(q[k]) /\ q[1] = head /\ q[k] \in Chunk
      BY <2>3, <3>1, ListParts
    <3> PICK c \in Chunk : c = q[k]
      BY <3>2
    <3>3. c # head
      BY <2>3, <3>1, <3>2 DEF IsList
    <3>4. ~inUse'[c] /\ refs'[c] = {}
      BY <1>0, <2>2, <3>2, <3>3 DEF Loose, SharedTypeOK
    <3>5. \A s \in Releasing' : s \in Releasing /\ Current(s)' = Current(s)
      BY <1>1 DEF Releasing
    <3>6. Loose(c) /\ (ReaperReleasing' => ReaperReleasing /\ pchunk' = pchunk)
      BY <1>1, <3>2
    <3>7. Loose(c)'
      BY <3>4, <3>5, <3>6, LooseFrame
    <3> QED BY <3>7 DEF Loose
  <2>5. \A t \in Slots : Dropped(t)' /\ ~BeingReaped(t)' =>
          Dropped(t) /\ ~BeingReaped(t) /\ ring'[Start(t)'] = ring[Start(t)]
    BY <1>1, <1>2, <2>2, QuietOwns DEF Quiet
  <2>6. InHand' = InHand \cup {head}
    BY <1>1, <2>2 DEF InHand, Releasing
  <2>7. \A c \in Chunk : refs'[c] = {} /\ c \notin InHand' =>
          c # head /\ refs[c] = {} /\ c \notin InHand
    BY <2>2, <2>6
  <2> QED BY <2>1, <2>2, <2>3, <2>4, <2>5, <2>7, ListShrinks
<1>3. CASE WriteMessage
  <2>1. /\ ppc = "write" /\ ppc' = "commit" /\ UNCHANGED <<wr, head, tail, inUse, pchunk>>
        /\ pchunk \in Chunk /\ inUse[pchunk] /\ refs[pchunk] = {} /\ wr \in Index
        /\ ring' = [ring EXCEPT ![wr] = pchunk] /\ word' = [word EXCEPT ![pchunk] = Magic]
        /\ refs' = [refs EXCEPT ![pchunk] = @ \cup Tracked]
    BY <1>0, <1>3 DEF WriteMessage, CountInv, PublisherTypeOK, SharedTypeOK
  <2>2. \A c \in Chunk : Loose(c) => Loose(c)' /\ (c # tail => word'[c] = word[c])
    <3> SUFFICES ASSUME NEW c \in Chunk, Loose(c) PROVE Loose(c)' /\ word'[c] = word[c]
      OBVIOUS
    <3>1. c # pchunk /\ ~inUse[c] /\ refs[c] = {}
      BY <2>1 DEF Loose
    <3>2. ~inUse'[c] /\ refs'[c] = {} /\ word'[c] = word[c]
      BY <1>0, <2>1, <3>1 DEF SharedTypeOK
    <3>3. \A s \in Releasing' : s \in Releasing /\ Current(s)' = Current(s)
      BY <1>1 DEF Releasing
    <3> QED BY <1>1, <3>2, <3>3, LooseFrame
  <2>3. ASSUME NEW t \in Slots, Dropped(t)'
        PROVE  Dropped(t) /\ ~BeingReaped(t) /\ ring'[Start(t)'] = ring[Start(t)]
    <3>1. Dropped(t)
      BY <1>3, <2>3, OwnsAfterWrite
    <3>2. Start(t) # wr
      BY <3>1 DEF Dropped
    <3>3. Start(t) \in Index
      BY <3>1, StartTypes DEF Dropped
    <3> QED BY <1>0, <1>1, <2>1, <3>1, <3>2, <3>3 DEF SharedTypeOK
  <2>4. ASSUME NEW c \in Chunk, refs'[c] = {}, c \notin InHand' PROVE refs[c] = {} /\ c \notin InHand
    <3>1. c # pchunk
      <4>1. Tracked # {}
        BY <2>1 DEF SomeoneTracked
      <4>2. refs'[pchunk] = refs[pchunk] \cup Tracked
        BY <1>0, <2>1 DEF SharedTypeOK
      <4> QED BY <2>4, <4>1, <4>2
    <3>2. refs[c] = {}
      BY <1>0, <2>1, <2>4, <3>1 DEF SharedTypeOK
    <3>3. c \notin InHand
      BY <1>1, <2>4, <3>1 DEF InHand, Releasing
    <3> QED BY <3>2, <3>3
  <2> QED BY <2>1, <2>2, <2>3, <2>4, ListKept
<1>4. CASE Commit
  <2>1. ppc = "commit" /\ ppc' = "signal" /\ UNCHANGED <<ring, head, tail, word, refs, inUse>>
    BY <1>4 DEF Commit, freeList
  <2>2. ASSUME NEW c \in Chunk, Loose(c) PROVE Loose(c)'
    <3>1. \A s \in Releasing' : s \in Releasing /\ Current(s)' = Current(s)
      BY <1>1 DEF Releasing
    <3>2. ~inUse'[c] /\ refs'[c] = {}
      BY <2>1, <2>2 DEF Loose
    <3> QED BY <1>1, <2>2, <3>1, <3>2, LooseFrame
  <2>3. ASSUME NEW t \in Slots, Dropped(t)'
        PROVE  Dropped(t) /\ ~BeingReaped(t) /\ ring'[Start(t)'] = ring[Start(t)]
    <3>1. Dropped(t)
      BY <1>4, <2>3, OwnsAfterCommit
    <3> QED BY <1>1, <2>1, <3>1
  <2>4. InHand' = InHand
    BY <1>1, <2>1 DEF InHand, Releasing
  <2> QED BY <2>1, <2>2, <2>3, <2>4, ListKept
<1> QED BY <1>2, <1>3, <1>4
\* The giver is the first to have passed the last chunk of the list, if anybody has.
LEMMA TailPassed ==
  ASSUME CursorInv, SuffixInv, NEW g \in Slots, NEW c, tail # c, refs[tail] = {},
         \A t \in Slots : Owns(t) <= Owns(g),
         \A i \in Index : Backlog(i, wr) = Owns(g) + 1 => ring[i] = c,
         NEW t \in Slots, Dropped(t)
  PROVE  ring[Start(t)] # tail
<1>1. /\ spc[t] # "absent" /\ Start(t) \in Index
      /\ Backlog(Start(t), wr) \in Nat /\ Backlog(Start(t), wr) >= 1
      /\ Owns(t) = Backlog(Start(t), wr) - 1
      /\ Owns(t) <= Owns(g) /\ Owns(g) \in Nat
  <2>1. spc[t] # "absent"
    BY DEF Dropped
  <2> HIDE DEF Dropped
  <2> QED BY <2>1, OwnsTypes, StartTypes
<1>2. CASE Backlog(Start(t), wr) = Owns(g) + 1
  BY <1>1, <1>2
<1>3. CASE Backlog(Start(t), wr) # Owns(g) + 1
  <2>1. Backlog(Start(t), wr) \in 1 .. Owns(g)
    <3> HIDE DEF Owns, Backlog, Start, Index
    <3> QED BY <1>1, <1>3
  <2>2. g \in refs[ring[Start(t)]]
    BY <1>1, <2>1, OwnedApart
  <2> QED BY <2>2
<1> QED BY <1>2, <1>3

LEMMA ListAfterLifecycle ==
  ASSUME CursorInv, SuffixInv, ListInv,
         ReapEnd \/ \E s \in Slots : Track(s) \/ StoreIndex(s) \/ StoreIndexLast(s)
  PROVE  ListInv'
<1>0. SharedTypeOK /\ PublisherTypeOK /\ SubscriberTypeOK
  BY DEF CursorInv, TypeOK
<1>1. /\ UNCHANGED <<refs, inUse, head, tail, word, wr, ring>>
      /\ Releasing' = Releasing /\ \A s \in Releasing : Current(s)' = Current(s)
      /\ ReaperReleasing' <=> ReaperReleasing
      /\ (ppc = "write" \/ ReaperReleasing) <=> (ppc' = "write" \/ ReaperReleasing')
      /\ pchunk' = pchunk
  <2>1. CASE ReapEnd
    BY <1>0, <2>1
    DEF ReapEnd, freeList, Releasing, ReaperReleasing, Current, SubscriberTypeOK, Reaping,
        CursorInv, PublisherInv, PublisherTypeOK
  <2>2. CASE \E s \in Slots : Track(s)
    BY <1>0, <2>2
    DEF Track, freeList, Releasing, ReaperReleasing, Current, SubscriberTypeOK, ControlPoint
  <2>3. CASE \E s \in Slots : StoreIndex(s) \/ StoreIndexLast(s)
    BY <1>0, <2>3, ZenonT(40)
    DEF StoreIndex, StoreIndexLast, AfterMessage, freeList, Releasing, ReaperReleasing, Current,
        SubscriberTypeOK, pubLocal
  <2> QED BY <2>1, <2>2, <2>3
<1>2. ASSUME NEW c \in Chunk, Loose(c) PROVE Loose(c)'
  <2>1. ~inUse'[c] /\ refs'[c] = {}
    BY <1>1, <1>2 DEF Loose
  <2> QED BY <1>1, <1>2, <2>1, LooseFrame
<1>3. ASSUME NEW t \in Slots, Dropped(t)', ~BeingReaped(t)'
      PROVE  Dropped(t) /\ ~BeingReaped(t) /\ Start(t)' = Start(t)
  <2>1. CASE ReapEnd
    <3>1. Dropped(t) /\ spc'[t] = spc[t]
      BY <1>3, <2>1, OwnsAfterLifecycle
    <3>2. ppc = "reap" /\ ppos = wr /\ ppc' = "control"
      BY <2>1 DEF ReapEnd, Reaped
    <3>3. t # pslot
      BY <3>1, <3>2 DEF Dropped, Start, BeingReaped, Reaping
    <3>4. rd'[t] = rd[t]
      BY <1>0, <2>1, <3>3 DEF ReapEnd, SharedTypeOK
    <3> QED BY <3>1, <3>2, <3>3, <3>4 DEF Start, BeingReaped, Reaping
  <2>2. ASSUME NEW s \in Slots, Track(s)
        PROVE  Dropped(t) /\ ~BeingReaped(t) /\ Start(t)' = Start(t)
    <3>1. Dropped(t)
      BY <1>3, <2>2, OwnsAfterLifecycle
    <3>2. ppc \notin Reaping /\ ppc' = "control" /\ t # s
      BY <1>0, <2>2, <3>1 DEF Track, ControlPoint, Reaping, Dropped
    <3>3. rd'[t] = rd[t]
      BY <1>0, <2>2, <3>2 DEF Track, SharedTypeOK
    <3> QED BY <3>1, <3>2, <3>3 DEF Start, BeingReaped, Reaping
  <2>3. ASSUME NEW s \in Slots, StoreIndex(s) \/ StoreIndexLast(s)
        PROVE  Dropped(t) /\ ~BeingReaped(t) /\ Start(t)' = Start(t)
    <3>1. Dropped(t) /\ t # s
      BY <1>3, <2>3, OwnsAfterStore
    <3>2. rd'[t] = rd[t] /\ UNCHANGED <<ppc, pslot, ppos>>
      BY <1>0, <2>3, <3>1 DEF StoreIndex, StoreIndexLast, SharedTypeOK, pubLocal
    <3> QED BY <1>3, <3>1, <3>2 DEF Start, BeingReaped
  <2> QED BY <2>1, <2>2, <2>3
<1>4. InHand' = InHand
  BY <1>1 DEF InHand
<1> QED BY <1>1, <1>2, <1>3, <1>4, ListKept

LEMMA ListAfterPush ==
  ASSUME CursorInv, CursorInv', CountInv, SuffixInv, GiverInv, ListInv, NEW s \in Slots,
         Release(s) \/ Link(s) \/ Push(s)
  PROVE  ListInv'
<1>0. SharedTypeOK /\ PublisherTypeOK /\ SubscriberTypeOK
  BY DEF CursorInv, TypeOK
<1> PICK c \in Chunk : c = Current(s)
  BY HandTypes DEF Release, Link, Push, Releasing
<1>1. s \in Releasing /\ SubscriberGives(s) /\ Releasing = {s} /\ ~ReaperReleasing
  <2>1. s \in Releasing /\ SubscriberGives(s)
    BY DEF Release, Link, Push, Releasing, GiverInv
  <2> QED BY <2>1 DEF GiverInv, ReaperGives, SubscriberGives
<1>2. /\ UNCHANGED <<ppc, pchunk, pslot, ppos, refs, ring, head, batch>>
      /\ ~ReaperReleasing' /\ \A t \in Slots : Current(t)' = Current(t)
  BY <1>1 DEF Release, Link, Push, pubLocal, freeList, ReaperReleasing, Current
<1>3. \A t \in Slots : Dropped(t)' /\ ~BeingReaped(t)' =>
        Dropped(t) /\ ~BeingReaped(t) /\ ring'[Start(t)'] = ring[Start(t)]
  <2>1. \A t \in Slots : BeingReaped(t)' <=> BeingReaped(t)
    BY <1>2 DEF BeingReaped
  <2>2. \A t \in Slots : (Dropped(t)' <=> Dropped(t)) /\ Start(t)' = Start(t)
    BY QuietOwns, QuietFacts DEF Quiet
  <2> HIDE DEF Dropped, BeingReaped, Start
  <2> QED BY <1>2, <2>1, <2>2
<1>4. CASE Release(s) \/ Link(s)
  <2>1. /\ Releasing' = {s} /\ tail' = tail
        /\ inUse' = inUse \/ inUse' = [inUse EXCEPT ![c] = FALSE]
        /\ word' = word \/ word' = [word EXCEPT ![tail] = c]
    <3>1. CASE Release(s)
      <4>1. inUse[c]
        BY <3>1 DEF Release, CountInv, GivingBack
      <4>2. spc'[s] = "link" /\ \A t \in Slots \ {s} : spc'[t] = spc[t]
        BY <1>0, <3>1, <4>1 DEF Release, SubscriberTypeOK
      <4> QED BY <1>1, <3>1, <4>2 DEF Release, Releasing, freeList
    <3>2. CASE Link(s)
      <4>1. stail[s] = tail
        BY <1>1, <3>2 DEF Link, SubscriberGives
      <4>2. spc'[s] = "push" /\ \A t \in Slots \ {s} : spc'[t] = spc[t]
        BY <1>0, <3>2 DEF Link, SubscriberTypeOK
      <4> QED BY <1>1, <3>2, <4>1, <4>2 DEF Link, Linked, Releasing
    <3> QED BY <1>4, <3>1, <3>2
  <2>2. ASSUME NEW d \in Chunk, Loose(d) PROVE Loose(d)' /\ (d # tail => word'[d] = word[d])
    <3>1. d # c /\ ~inUse[d] /\ refs[d] = {}
      BY <1>1, <2>2 DEF Loose
    <3>2. ~inUse'[d] /\ refs'[d] = {}
      BY <1>0, <1>2, <2>1, <3>1 DEF SharedTypeOK
    <3>3. d # tail => word'[d] = word[d]
      BY <1>0, <2>1 DEF SharedTypeOK
    <3>4. Loose(d)'
      BY <1>1, <1>2, <2>1, <2>2, <3>2, LooseFrame
    <3> QED BY <3>3, <3>4
  <2>3. InHand' = InHand
    BY <1>1, <1>2, <2>1 DEF InHand
  <2> QED BY <1>2, <1>3, <2>1, <2>2, <2>3, ListKept
<1>5. CASE Push(s)
  <2>1. /\ tail' = c /\ UNCHANGED <<word, inUse>> /\ spc[s] = "push" /\ Releasing' = {}
    <3>1. spc'[s] = "notify" /\ \A t \in Slots \ {s} : spc'[t] = spc[t]
      BY <1>0, <1>5 DEF Push, SubscriberTypeOK
    <3> QED BY <1>1, <1>5, <3>1 DEF Push, Releasing
  <2>2. refs[c] = {} /\ ~inUse[c] /\ word[tail] = c
    BY <1>1, <2>1 DEF SubscriberGives
  <2>3. Loose(c)'
    BY <1>2, <2>1, <2>2 DEF Loose
  <2> PICK q : IsList(q)
    BY DEF ListInv
  <2>4. ASSUME NEW k \in 1 .. Len(q) PROVE Loose(q[k])' /\ q[k] # c
    <3> PICK d \in Chunk : d = q[k]
      BY ListParts
    <3>1. Loose(d) /\ d # c
      BY <1>1, ListParts DEF Loose
    <3>2. Loose(d)'
      BY <1>2, <2>1, <3>1 DEF Loose
    <3> QED BY <3>1, <3>2 DEF Loose
  <2>5. tail # c /\ refs[tail] = {}
    BY <1>1, ListEnds DEF Loose
  <2>6. \A t \in Slots : Dropped(t) => ring[Start(t)] # tail
    <3>1. /\ \A t \in Slots : Owns(t) <= Owns(s)
          /\ \A i \in Index : Backlog(i, wr) = Owns(s) + 1 => ring[i] = c
      BY <1>1 DEF SubscriberGives
    <3> QED BY <2>5, <3>1, TailPassed
  <2>7. InHand \subseteq InHand' \cup {c}
    BY <1>1, <1>2, <2>1 DEF InHand
  <2>8. \A t \in Slots : Dropped(t)' /\ ~BeingReaped(t)' =>
          /\ Dropped(t) /\ ~BeingReaped(t) /\ ring'[Start(t)'] = ring[Start(t)]
          /\ ring[Start(t)] # tail
    BY <1>3, <2>6
  <2>9. \A d \in Chunk : refs'[d] = {} /\ d \notin InHand' =>
             d = c \/ (refs[d] = {} /\ d \notin InHand)
    BY <1>2, <2>7
  <2> QED BY <1>1, <1>2, <2>1, <2>2, <2>3, <2>4, <2>8, <2>9, ListGrows
<1> QED BY <1>4, <1>5
\* Clearing a bit makes no chunk loose, and the chunk is not on the list.
LEMMA ListAfterClear ==
  ASSUME CursorInv, SuffixInv, GiverInv, ListInv, NEW s \in Slots, ClearBit(s)
  PROVE  ListInv'
<1>0. SharedTypeOK /\ PublisherTypeOK /\ SubscriberTypeOK
  BY DEF CursorInv, TypeOK
<1>1. /\ BitCleared(s) /\ Start(s)' = Start(s) /\ Current(s) = ring[Start(s)] /\ ~Dropped(s)
      /\ UNCHANGED <<ppc, pchunk, pslot, ppos, inUse>>
      /\ \A t \in Slots : Current(t)' = Current(t)
  BY ClearBitClears
<1> PICK c \in Chunk : c = Current(s)
  BY <1>1, StartTypes DEF BitCleared
<1>2. /\ refs' = [refs EXCEPT ![c] = @ \ {s}] /\ UNCHANGED <<head, tail, word, ring>>
      /\ spc[s] = "callback" /\ \A t \in Slots \ {s} : spc'[t] = spc[t]
      /\ spc'[s] = IF LastHolder(c, s) THEN "storeLast" ELSE "store"
  BY <1>0 DEF ClearBit, freeList, SubscriberTypeOK
<1>3. s \in refs[c]
  BY <1>1 DEF Dropped, BitCleared
<1>4. /\ Releasing \subseteq Releasing' /\ \A t \in Releasing' : t \in Releasing \/ t = s
      /\ LastHolder(c, s) => s \in Releasing'
      /\ ReaperReleasing' <=> ReaperReleasing
  BY <1>1, <1>2 DEF Releasing, ReaperReleasing
<1>5. ASSUME NEW d \in Chunk, Loose(d) PROVE Loose(d)'
  <2>1. d # c /\ ~inUse[d] /\ refs[d] = {}
    BY <1>3, <1>5 DEF Loose
  <2>2. ~inUse'[d] /\ refs'[d] = {}
    BY <1>0, <1>1, <1>2, <2>1 DEF SharedTypeOK
  <2> QED BY <1>1, <1>4, <1>5, <2>1, <2>2 DEF Loose, Releasing
<1>6. ASSUME NEW t \in Slots, Dropped(t)', ~BeingReaped(t)'
      PROVE  \/ Dropped(t) /\ ~BeingReaped(t) /\ ring'[Start(t)'] = ring[Start(t)]
             \/ ~Loose(ring'[Start(t)'])
  <2>1. CASE t = s
    <3>1. ring'[Start(t)'] = c
      BY <1>1, <1>2, <2>1
    <3> QED BY <1>3, <3>1 DEF Loose
  <2>2. CASE t # s
    <3>1. Dropped(t) /\ Start(t)' = Start(t)
      BY <1>1, <1>6, <2>2, BitsAfterClear DEF BitCleared
    <3> QED BY <1>1, <1>2, <1>6, <3>1 DEF BeingReaped
  <2> QED BY <2>1, <2>2
<1>7. ASSUME NEW d \in Chunk, refs'[d] = {}, d \notin InHand' PROVE refs[d] = {} /\ d \notin InHand
  <2>1. InHand \subseteq InHand'
    BY <1>1, <1>4, HandFrame DEF Releasing
  <2>2. d # c
    <3> SUFFICES ASSUME d = c PROVE FALSE
      OBVIOUS
    <3>1. LastHolder(c, s)
      BY <1>0, <1>2, <1>3, <1>7 DEF LastHolder, SharedTypeOK
    <3> QED BY <1>1, <1>4, <1>7, <3>1 DEF InHand
  <2> QED BY <1>0, <1>2, <1>7, <2>1, <2>2 DEF SharedTypeOK
<1> QED BY <1>2, <1>5, <1>6, <1>7, ListKept

LEMMA ListAfterReap ==
  ASSUME CursorInv, CountInv, SuffixInv, GiverInv, ListInv, ReapKeep \/ ReapRelease
  PROVE  ListInv'
<1>0. SharedTypeOK /\ PublisherTypeOK /\ SubscriberTypeOK
  BY DEF CursorInv, TypeOK
<1> PICK p \in Slots : p = pslot
  BY <1>0 DEF PublisherTypeOK
<1> PICK c \in Chunk : c = ring[ppos]
  BY <1>0 DEF PublisherTypeOK, SharedTypeOK
<1>1. /\ BitCleared(p) /\ UNCHANGED <<spc, batch, pslot>>
      /\ ReapRelease => ppc' = "reapLink"
      /\ ReapKeep => ppc' = "reap"
  BY ReapClears
<1>2. /\ UNCHANGED <<head, tail, word, ring>> /\ refs' = [refs EXCEPT ![c] = @ \ {p}]
      /\ ppc = "reap"
      /\ ReapKeep => UNCHANGED inUse /\ ~LastHolder(c, p)
      /\ ReapRelease => /\ inUse' = [inUse EXCEPT ![c] = FALSE] /\ pchunk' = c
                        /\ LastHolder(c, p)
  BY DEF ReapKeep, ReapRelease, freeList
<1>3. Releasing' = Releasing /\ \A t \in Slots : Current(t)' = Current(t)
  BY <1>1 DEF Releasing, Current
<1>4. ASSUME NEW d \in Chunk, Loose(d) PROVE Loose(d)'
  <2>1. ~inUse[d] /\ refs[d] = {} /\ (ReapRelease => d # c)
    BY <1>2, <1>4 DEF Loose, LastHolder
  <2>2. ~inUse'[d] /\ refs'[d] = {}
    BY <1>0, <1>2, <2>1 DEF SharedTypeOK
  <2>3. ReaperReleasing' => d # pchunk'
    BY <1>1, <1>2, <2>1 DEF ReaperReleasing
  <2> QED BY <1>3, <1>4, <2>2, <2>3 DEF Loose, Releasing
<1>5. ASSUME NEW t \in Slots, Dropped(t)', ~BeingReaped(t)'
      PROVE  Dropped(t) /\ ~BeingReaped(t) /\ ring'[Start(t)'] = ring[Start(t)]
  <2>1. t # p
    BY <1>1, <1>5 DEF BeingReaped, Reaping
  <2>2. Dropped(t) /\ Start(t)' = Start(t)
    BY <1>1, <1>5, <2>1, BitsAfterClear DEF BitCleared
  <2> QED BY <1>2, <2>1, <2>2 DEF BeingReaped
<1>6. ASSUME NEW d \in Chunk, refs'[d] = {}, d \notin InHand' PROVE refs[d] = {} /\ d \notin InHand
  <2>1. InHand \subseteq InHand'
    BY <1>2, <1>3, HandFrame DEF ReaperReleasing, Releasing
  <2>2. refs[d] = {}
    <3>1. CASE ReapKeep
      BY <1>0, <1>2, <1>6, <3>1 DEF LastHolder, SharedTypeOK
    <3>2. CASE ReapRelease
      <4>1. c \in InHand'
        BY <1>1, <1>2, <3>2 DEF InHand, ReaperReleasing
      <4> QED BY <1>0, <1>2, <1>6, <4>1 DEF SharedTypeOK
    <3> QED BY <3>1, <3>2
  <2> QED BY <1>6, <2>1, <2>2
<1> QED BY <1>2, <1>4, <1>5, <1>6, ListKept

LEMMA ListAfterReapPush ==
  ASSUME CursorInv, CursorInv', CountInv, SuffixInv, GiverInv, ListInv, ReapLink \/ ReapPush
  PROVE  ListInv'
<1>0. SharedTypeOK /\ PublisherTypeOK /\ SubscriberTypeOK
  BY DEF CursorInv, TypeOK
<1> PICK p \in Slots : p = pslot
  BY <1>0 DEF PublisherTypeOK
<1> PICK c \in Chunk : c = pchunk
  BY <1>0 DEF PublisherTypeOK
<1>1. ReaperGives /\ Dropped(p) /\ Start(p) = ppos /\ ReaperReleasing /\ Releasing = {}
  <2>1. ReaperReleasing
    BY DEF ReapLink, ReapPush, ReaperReleasing
  <2> QED BY <2>1, ReaperHasDropped DEF ReaperGives
<1>2. UNCHANGED <<spc, batch, refs, inUse, ring, head, pslot>> /\ Releasing' = {}
  BY <1>1 DEF ReapLink, ReapPush, subLocal, Releasing
<1>3. CASE ReapLink
  <2>1. /\ word' = [word EXCEPT ![tail] = c] /\ pchunk' = pchunk /\ ppc' = "reapPush"
        /\ ReaperReleasing' /\ tail' = tail
    BY <1>1, <1>3 DEF ReapLink, ReaperGives, Linked, ReaperReleasing
  <2>2. ASSUME NEW d \in Chunk, Loose(d) PROVE Loose(d)' /\ (d # tail => word'[d] = word[d])
    <3>1. ~inUse'[d] /\ refs'[d] = {}
      BY <1>2, <2>2 DEF Loose
    <3>2. Loose(d)'
      BY <1>1, <1>2, <2>1, <2>2, <3>1, LooseFrame
    <3> QED BY <1>0, <2>1, <3>2 DEF SharedTypeOK
  <2>3. ASSUME NEW t \in Slots, Dropped(t)', ~BeingReaped(t)'
        PROVE  Dropped(t) /\ ~BeingReaped(t) /\ ring'[Start(t)'] = ring[Start(t)]
    <3>1. ~BeingReaped(t)
      BY <1>2, <2>1, <2>3 DEF BeingReaped, Reaping
    <3>2. Dropped(t) /\ Start(t)' = Start(t)
      BY <1>3, <2>3, QuietOwns, QuietFacts DEF Quiet
    <3> QED BY <1>2, <3>1, <3>2
  <2>4. InHand' = InHand
    BY <1>1, <1>2, <2>1 DEF InHand
  <2> QED BY <1>2, <2>1, <2>2, <2>3, <2>4, ListKept
<1>4. CASE ReapPush
  <2>1. /\ tail' = c /\ UNCHANGED word /\ ppc = "reapPush" /\ ppc' = "reap" /\ ~ReaperReleasing'
    BY <1>4 DEF ReapPush, ReaperReleasing
  <2>2. refs[c] = {} /\ ~inUse[c] /\ word[tail] = c
    BY <1>1, <2>1 DEF ReaperGives
  <2>3. Loose(c)'
    BY <1>2, <2>1, <2>2 DEF Loose
  <2> PICK q : IsList(q)
    BY DEF ListInv
  <2>4. ASSUME NEW k \in 1 .. Len(q) PROVE Loose(q[k])' /\ q[k] # c
    <3> PICK d \in Chunk : d = q[k]
      BY ListParts
    <3>1. Loose(d) /\ d # c
      BY <1>1, ListParts DEF Loose
    <3>2. Loose(d)'
      BY <1>2, <2>1, <3>1 DEF Loose
    <3> QED BY <3>1, <3>2 DEF Loose
  <2>5. tail # c /\ refs[tail] = {}
    BY <1>1, ListEnds DEF Loose
  <2>6. \A t \in Slots : Dropped(t) => ring[Start(t)] # tail
    <3>1. \A t \in Slots : Owns(t) <= Owns(p)
      BY <1>1 DEF ReaperGives
    <3>2. ASSUME NEW i \in Index, Backlog(i, wr) = Owns(p) + 1 PROVE ring[i] = c
      <4>1. /\ spc[p] # "absent" /\ ppos \in Index /\ wr \in Index
            /\ Owns(p) = Backlog(ppos, wr) - 1 /\ Backlog(ppos, wr) \in Nat
        <5>1. spc[p] # "absent"
          BY <1>1 DEF Dropped
        <5> HIDE DEF Dropped
        <5> QED BY <1>0, <1>1, <5>1, OwnsTypes DEF SharedTypeOK, PublisherTypeOK
      <4>2. Backlog(i, wr) = Backlog(ppos, wr)
        BY <3>2, <4>1
      <4>3. i = ppos
        BY <4>1, <4>2, BacklogInjective
      <4> QED BY <1>1, <4>3 DEF ReaperGives
    <3> QED BY <2>5, <3>1, <3>2, TailPassed
  <2>7. ASSUME NEW t \in Slots, Dropped(t)', ~BeingReaped(t)'
        PROVE  /\ Dropped(t) /\ ~BeingReaped(t) /\ ring'[Start(t)'] = ring[Start(t)]
               /\ ring[Start(t)] # tail
    <3>0. Dropped(pslot)
      BY <1>1
    <3>1. t # p
      <4>1. ~Dropped(p)'
        BY <1>2, <1>4, <3>0, OwnsAfterReapPush
      <4> QED BY <2>7, <4>1
    <3>2. Dropped(t)
      BY <1>4, <2>7, <3>0, <3>1, OwnsAfterReapPush
    <3>3. Start(t)' = Start(t) /\ ~BeingReaped(t)
      BY <1>2, <1>4, <3>1 DEF Start, BeingReaped, ReapPush
    <3> QED BY <1>2, <2>6, <3>2, <3>3
  <2>8. InHand \subseteq InHand' \cup {c}
    BY <1>1, <1>2, <2>1 DEF InHand
  <2>9. \A d \in Chunk : refs'[d] = {} /\ d \notin InHand' =>
             d = c \/ (refs[d] = {} /\ d \notin InHand)
    BY <1>2, <2>8
  <2> QED BY <1>2, <2>1, <2>2, <2>3, <2>4, <2>7, <2>9, ListGrows
<1> QED BY <1>3, <1>4

LEMMA ListStep ==
  /\ CursorInv /\ CursorInv' /\ CountInv /\ SuffixInv /\ GiverInv /\ ListInv /\ NotReused
  /\ SomeoneTracked /\ [Next]_vars
  => ListInv'
BY ListAfterPlain, ListAfterTake, ListAfterLifecycle, ListAfterPush, ListAfterClear, ListAfterReap,
   ListAfterReapPush
DEF Next, PublishStep, ReapStep, SubscriberStep, Plain

-----------------------------------------------------------------------------
(* The run-time checks *)

\* What a subscriber is about to read has the magic and the number it expects.
LEMMA NextIsReadable ==
  ASSUME SafetyInv, MagicInv, NEW s \in Slots, spc[s] = "read"
  PROVE  Readable(s)
<1>0. /\ CursorInv /\ HeldInv /\ NoLap /\ Alive(s)
      /\ SharedTypeOK /\ PublisherTypeOK /\ SubscriberTypeOK
  BY DEF SafetyInv, CursorInv, TypeOK, Alive
<1>1. Current(s) = ring[rd[s]] /\ Current(s) \in Chunk /\ Holds(s, rd[s])
  BY <1>0, AtFront DEF HeldInv
<1>2. word[Current(s)] = Magic
  BY <1>1 DEF MagicInv, Holds
<1>3. seqOf[Current(s)] = AtReadIndex(s)
  BY <1>1 DEF Holds, AtReadIndex
<1>4. Position(s) - AtReadIndex(s) = 0
  BY <1>0 DEF NoLap
<1>5. Position(s) \in Int /\ AtReadIndex(s) \in Int
  BY <1>0, LevelTypes
<1>6. Position(s) = AtReadIndex(s)
  BY <1>4, <1>5
<1> QED BY <1>2, <1>3, <1>6 DEF Readable, Position

LEMMA NobodyFailsStep ==
  SafetyInv /\ SuffixInv /\ MagicInv /\ ListInv /\ NobodyFails /\ [Next]_vars => NobodyFails'
<1> SUFFICES ASSUME SafetyInv, SuffixInv, MagicInv, ListInv, NobodyFails, [Next]_vars
             PROVE  NobodyFails'
  OBVIOUS
<1>0. /\ CursorInv /\ CountInv /\ SharedTypeOK /\ PublisherTypeOK /\ SubscriberTypeOK
      /\ ppc # "failed" /\ \A s \in Slots : spc[s] # "failed"
  BY DEF SafetyInv, CursorInv, TypeOK, NobodyFails
<1>1. CASE TakeChunk
  BY <1>0, <1>1, ListEnds DEF TakeChunk, OneChunkLeft, NobodyFails, subLocal
<1>2. CASE ReapRelease
  BY <1>0, <1>2, ReapClears DEF NobodyFails
<1>3. ASSUME NEW s \in Slots, Deliver(s) PROVE NobodyFails'
  <2>1. Readable(s)
    BY <1>3, NextIsReadable DEF Deliver
  <2> QED BY <1>0, <1>3, <2>1 DEF Deliver, NobodyFails, pubLocal, SubscriberTypeOK
<1>4. ASSUME NEW s \in Slots, Release(s) PROVE NobodyFails'
  <2>1. inUse[Current(s)]
    BY <1>0, <1>4 DEF Release, CountInv, GivingBack
  <2> QED BY <1>0, <1>4, <2>1 DEF Release, NobodyFails, pubLocal, SubscriberTypeOK
<1>5. CASE \/ PublishCall \/ ScanRing \/ FreeListEmpty \/ WriteMessage \/ Commit \/ SpaceEvent
           \/ EventsDone \/ WaitTimeout \/ ControlDone \/ ReapKeep \/ ReapLink \/ ReapPush
           \/ UNCHANGED vars \/ \E s \in Slots : SignalData(s) \/ ReapBegin(s)
  BY <1>0, <1>5
  DEF PublishCall, ScanRing, FreeListEmpty, WriteMessage, Commit, SpaceEvent, EventsDone,
      WaitTimeout, ControlDone, ReapKeep, ReapLink, ReapPush, SignalData, ReapBegin, vars,
      subLocal, pubLocal, NobodyFails, PublisherTypeOK
<1>6. CASE ReapEnd
  BY <1>0, <1>6 DEF ReapEnd, NobodyFails, SubscriberTypeOK, PublisherTypeOK
<1>7. ASSUME NEW s \in Slots,
             \/ Track(s) \/ DataEvent(s) \/ LoadWrapped(s) \/ LoadContiguous(s) \/ ClearBit(s)
             \/ StoreIndex(s) \/ StoreIndexLast(s) \/ Link(s) \/ Push(s) \/ SignalSpace(s)
             \/ Leave(s)
      PROVE  NobodyFails'
  BY <1>0, <1>7
  DEF Track, DataEvent, LoadWrapped, LoadContiguous, ClearBit, StoreIndex, StoreIndexLast, Link,
      Push, SignalSpace, Leave, AfterMessage, pubLocal, NobodyFails, SubscriberTypeOK
<1> QED
  BY <1>1, <1>2, <1>3, <1>4, <1>5, <1>6, <1>7
  DEF Next, PublishStep, ReapStep, SubscriberStep

-----------------------------------------------------------------------------
GiveInv ==
  /\ SafetyInv /\ SomeoneTracked
  /\ SuffixInv /\ GiverInv /\ NotReused
  /\ ListInv /\ MagicInv /\ NobodyFails

LEMMA GiveInit == Init => GiveInv
<1> SUFFICES ASSUME Init PROVE GiveInv
  OBVIOUS
<1>1. SafetyInv
  BY CursorInit, SafetyInit DEF SafetyInv
<1>2. /\ wr = 0 /\ ppc = "idle" /\ head = 1 /\ tail = ChunkCount
      /\ refs = [c \in Chunk |-> {}] /\ inUse = [c \in Chunk |-> FALSE]
      /\ word = [c \in Chunk |-> IF c = ChunkCount THEN EndOfList ELSE c + 1]
      /\ \A t \in Slots : spc[t] \in {"idle", "absent"} /\ (spc[t] # "absent" => rd[t] = 0)
  BY DEF Init
<1>3. \A t \in Slots : Start(t) = rd[t] /\ ~Dropped(t) /\ ~BeingReaped(t)
  BY <1>2 DEF Start, BeingReaped, Reaping, Dropped
<1>4. \A t \in Slots : Owns(t) = 0
  <2>1. Backlog(0, 0) = 0
    BY DEF Backlog
  <2> HIDE DEF Dropped, Start, Backlog
  <2> QED BY <1>2, <1>3, <2>1 DEF Owns
<1>5. SuffixInv
  <2>1. OwnedIsHeld
    <3> HIDE DEF Owns
    <3> QED BY <1>4 DEF OwnedIsHeld
  <2>2. WrittenIsHeld
    BY <1>2 DEF WrittenIsHeld
  <2>3. DroppedUntilStored
    <3> HIDE DEF Dropped
    <3> QED BY <1>2, <1>3 DEF DroppedUntilStored
  <2> QED BY <2>1, <2>2, <2>3 DEF SuffixInv
<1>6. Releasing = {} /\ ~ReaperReleasing
  BY <1>2 DEF Releasing, ReaperReleasing
<1>7. GiverInv
  BY <1>6 DEF GiverInv
<1>8. ListInv
  <2> DEFINE q == [k \in 1 .. ChunkCount |-> k]
  <2>1. q \in Seq(Chunk) /\ Len(q) = ChunkCount /\ \A k \in 1 .. Len(q) : q[k] = k /\ k \in Chunk
    <3>1. ChunkCount \in Nat
      BY ChunkCountAssumption
    <3>2. q \in [1 .. ChunkCount -> Chunk]
      BY DEF Chunk
    <3>3. q \in Seq(Chunk)
      <4> HIDE DEF q, Chunk
      <4> QED BY <3>1, <3>2
    <3>4. Len(q) = ChunkCount
      <4> HIDE DEF q, Chunk
      <4> QED BY <3>1, <3>2, <3>3
    <3> QED BY <3>3, <3>4 DEF Chunk
  <2> HIDE DEF q
  <2>2. \A k \in 1 .. Len(q) : Loose(q[k])
    BY <1>2, <1>6, <2>1 DEF Loose
  <2>3. \A k \in 1 .. Len(q) - 1 : word[q[k]] = q[k + 1]
    BY <1>2, <2>1, SMTT(30) DEF Chunk
  <2>4. q[1] = head /\ q[Len(q)] = tail /\ Len(q) >= 1
    BY <1>2, <2>1, ChunkCountAssumption
  <2>5. \A c \in Chunk : \E k \in 1 .. Len(q) : q[k] = c
    BY <2>1 DEF Chunk
  <2>6. \A j, k \in 1 .. Len(q) : q[j] = q[k] => j = k
    BY <2>1
  <2>7. IsList(q)
    <3> HIDE DEF Dropped, Loose, Chunk, InHand
    <3> QED BY <1>3, <2>1, <2>2, <2>3, <2>4, <2>5, <2>6 DEF IsList
  <2> QED BY <2>7 DEF ListInv
<1>9. MagicInv
  BY <1>2 DEF MagicInv
<1>10. NotReused /\ SomeoneTracked /\ NobodyFails
  BY <1>2 DEF NotReused, SomeoneTracked, NobodyFails
<1> QED BY <1>1, <1>5, <1>7, <1>8, <1>9, <1>10 DEF GiveInv

LEMMA GiveCorrect == Spec => []GiveInv
<1>1. SafetyInv /\ SafetyInv' /\ GiveInv /\ [Next]_vars => GiveInv'
  BY SomeoneTrackedStep, SuffixStep, GiverStep, NotReusedStep, ListStep, MagicStep, NobodyFailsStep
  DEF GiveInv, SafetyInv
<1> QED BY <1>1, GiveInit, SafetyCorrect, PTL DEF Spec

-----------------------------------------------------------------------------
(* The list that the publisher would pop *)

\* A list is no longer than there are chunks.
LEMMA ListLength ==
  ASSUME NEW q, IsList(q)
  PROVE  Len(q) \in Nat /\ Len(q) >= 1 /\ Len(q) <= ChunkCount
<1>1. q \in Seq(Chunk) /\ Len(q) \in Nat /\ Len(q) >= 1 /\ ChunkCount \in Nat
  BY ListParts, ChunkCountAssumption
<1>2. \A j, k \in 1 .. Len(q) : q[j] = q[k] => j = k
  BY DEF IsList
<1>3. q \in Injection(1 .. Len(q), Chunk)
  <2>1. q \in [1 .. Len(q) -> Chunk]
    <3> HIDE DEF Chunk
    <3> QED BY <1>1
  <2> HIDE DEF Chunk
  <2> QED BY <1>2, <2>1 DEF Injection, IsInjective
<1>4. IsFiniteSet(Chunk) /\ Cardinality(Chunk) = ChunkCount
  BY <1>1, ChunkCountAssumption, FS_Interval DEF Chunk
<1>5. Cardinality(1 .. Len(q)) = Len(q)
  BY <1>1, FS_Interval
<1>6. Cardinality(1 .. Len(q)) <= Cardinality(Chunk)
  BY <1>3, <1>4, FS_Injection
<1> QED BY <1>1, <1>4, <1>5, <1>6

LEMMA WalkFollows ==
  ASSUME NEW q, IsList(q)
  PROVE  \A k \in 0 .. ChunkCount : Walk[k] = q[IF k < Len(q) THEN k + 1 ELSE Len(q)]
<1> DEFINE W == [k \in 0 .. ChunkCount |-> q[IF k < Len(q) THEN k + 1 ELSE Len(q)]]
           Follows(f) ==
             f = [k \in 0 .. ChunkCount |->
                    IF k = 0 THEN head
                    ELSE LET c == f[k - 1] IN IF c \in Chunk /\ c # tail THEN word[c] ELSE c]
<1>1. Len(q) \in Nat /\ Len(q) >= 1 /\ ChunkCount \in Nat
  BY ListLength, ChunkCountAssumption
<1>2. /\ q[1] = head /\ q[Len(q)] = tail
      /\ \A k \in 1 .. Len(q) - 1 : word[q[k]] = q[k + 1] /\ q[k] # tail /\ q[k] \in Chunk
  BY <1>1, ListParts
<1>3. ASSUME NEW k \in 0 .. ChunkCount
      PROVE  W[k] = IF k = 0 THEN head
                    ELSE LET c == W[k - 1] IN IF c \in Chunk /\ c # tail THEN word[c] ELSE c
  <2> HIDE DEF Chunk
  <2>1. CASE k = 0
    BY <1>1, <1>2, <2>1
  <2>2. CASE k # 0 /\ k < Len(q)
    <3>1. k \in 1 .. Len(q) - 1 /\ k - 1 \in 0 .. ChunkCount /\ k - 1 < Len(q) /\ (k - 1) + 1 = k
      BY <1>1, <2>2
    <3>2. W[k - 1] = q[k] /\ W[k] = q[k + 1]
      BY <2>2, <3>1
    <3> HIDE DEF W
    <3> QED BY <1>2, <2>2, <3>1, <3>2
  <2>3. CASE k # 0 /\ ~(k < Len(q))
    <3>1. k - 1 \in 0 .. ChunkCount /\ (k - 1 < Len(q) => (k - 1) + 1 = Len(q))
      BY <1>1, <2>3
    <3>2. W[k - 1] = tail /\ W[k] = tail
      BY <1>2, <2>3, <3>1
    <3> HIDE DEF W
    <3> QED BY <2>3, <3>2
  <2> QED BY <2>1, <2>2, <2>3
<1>4. Follows(W)
  <2>1. W = [k \in 0 .. ChunkCount |-> W[k]]
    OBVIOUS
  <2> HIDE DEF W
  <2> QED BY <1>3, <2>1
<1>5. Follows(Walk)
  <2> DEFINE c == CHOOSE f : Follows(f)
  <2>1. Follows(c)
    <3> HIDE DEF Follows, W
    <3> QED BY <1>4
  <2>2. Walk = c
    BY DEF Walk
  <2> HIDE DEF Follows, c
  <2> QED BY <2>1, <2>2
<1>6. \A k \in 0 .. ChunkCount :
        Walk[k] = IF k = 0 THEN head
                  ELSE LET c == Walk[k - 1] IN IF c \in Chunk /\ c # tail THEN word[c] ELSE c
  <2> HIDE DEF Chunk
  <2> QED BY <1>5
<1> HIDE DEF W
<1> DEFINE Good == {k \in Nat : k \in 0 .. ChunkCount => Walk[k] = W[k]}
<1>7. 0 \in Good
  <2>1. 0 \in 0 .. ChunkCount
    BY <1>1
  <2> QED BY <1>3, <1>6, <2>1
<1>8. ASSUME NEW n \in Nat, n \in Good PROVE n + 1 \in Good
  <2> SUFFICES ASSUME n + 1 \in 0 .. ChunkCount PROVE Walk[n + 1] = W[n + 1]
    OBVIOUS
  <2>1. n \in 0 .. ChunkCount /\ n + 1 # 0 /\ (n + 1) - 1 = n
    BY <1>1
  <2>2. Walk[n] = W[n]
    BY <1>8, <2>1
  <2>3. Walk[n + 1] = LET c == Walk[n] IN IF c \in Chunk /\ c # tail THEN word[c] ELSE c
    <3> HIDE DEF Chunk
    <3> QED BY <1>6, <2>1
  <2>4. W[n + 1] = LET c == W[n] IN IF c \in Chunk /\ c # tail THEN word[c] ELSE c
    <3> HIDE DEF Chunk
    <3> QED BY <1>3, <2>1
  <2> QED BY <2>2, <2>3, <2>4
<1>9. \A n \in Nat : n \in Good
  <2> HIDE DEF Good
  <2> QED BY <1>7, <1>8, Induct
<1>10. \A k \in 0 .. ChunkCount : Walk[k] = W[k]
  BY <1>1, <1>9
<1> QED BY <1>10 DEF W

LEMMA WalkIsList ==
  ASSUME NEW q, IsList(q)
  PROVE  OnFreeList = {q[k] : k \in 1 .. Len(q)}
<1>1. Len(q) \in Nat /\ Len(q) >= 1 /\ Len(q) <= ChunkCount /\ ChunkCount \in Nat
  BY ListLength, ChunkCountAssumption
<1>2. \A k \in 0 .. ChunkCount : Walk[k] = q[IF k < Len(q) THEN k + 1 ELSE Len(q)]
  BY WalkFollows
<1>3. ASSUME NEW k \in 1 .. Len(q) PROVE q[k] \in OnFreeList
  <2>1. k - 1 \in 0 .. ChunkCount /\ k - 1 < Len(q) /\ (k - 1) + 1 = k
    BY <1>1
  <2>2. Walk[k - 1] = q[k]
    BY <1>2, <2>1
  <2> QED BY <2>1, <2>2 DEF OnFreeList
<1>4. ASSUME NEW k \in 0 .. ChunkCount PROVE Walk[k] \in {q[j] : j \in 1 .. Len(q)}
  <2>1. (IF k < Len(q) THEN k + 1 ELSE Len(q)) \in 1 .. Len(q)
    BY <1>1
  <2> QED BY <1>2, <2>1
<1> QED BY <1>3, <1>4 DEF OnFreeList

(***************************************************************************)
(* fetch_and elects one process to give a chunk back, and nobody else      *)
(* becomes the last holder of another before it has stored the tail.       *)
(***************************************************************************)
THEOREM PushesAreExclusive == Spec => []OnePusher
<1>1. GiveInv => OnePusher
  BY DEF GiveInv, GiverInv, OnePusher, SubscriberGives, ReaperGives
<1> QED BY <1>1, GiveCorrect, PTL

(***************************************************************************)
(* None of the run-time checks of try_publish_one, read_data and the reap  *)
(* ever fires: the head of the list is free, what is released is in use,   *)
(* and every message has its magic and the number after the last one.      *)
(***************************************************************************)
THEOREM ChecksNeverFire == Spec => []NobodyFails
BY GiveCorrect, PTL DEF GiveInv

(***************************************************************************)
(* Pushes without a lock, pops of the publisher and deaths in the middle   *)
(* of a push leave a list from head to tail of chunks nobody holds.        *)
(***************************************************************************)
THEOREM FreeListLeadsToTail == Spec => []FreeListSound
<1>1. GiveInv => FreeListSound
  <2> SUFFICES ASSUME GiveInv PROVE FreeListSound
    OBVIOUS
  <2>1. PICK q : IsList(q)
    BY DEF GiveInv, ListInv
  <2>2. OnFreeList = {q[k] : k \in 1 .. Len(q)}
    BY <2>1, WalkIsList
  <2>3. /\ \A k \in 1 .. Len(q) : q[k] \in Chunk /\ Loose(q[k])
        /\ Len(q) \in 1 .. Len(q) /\ q[Len(q)] = tail
    BY <2>1, ListParts
  <2> HIDE DEF Chunk
  <2> QED BY <2>2, <2>3 DEF FreeListSound, Loose
<1> QED BY <1>1, GiveCorrect, PTL

(***************************************************************************)
(* Unless a subscriber dies inside read_data no chunk leaks: whatever is   *)
(* not held and not in hand is on the list.                                *)
(***************************************************************************)
THEOREM NoChunkLeaks == ~CrashMidRead => (Spec => []FreeListComplete)
<1> SUFFICES ASSUME ~CrashMidRead PROVE Spec => []FreeListComplete
  OBVIOUS
<1>1. GiveInv => FreeListComplete
  <2> SUFFICES ASSUME GiveInv PROVE FreeListComplete
    OBVIOUS
  <2>1. PICK q : IsList(q)
    BY DEF GiveInv, ListInv
  <2>2. OnFreeList = {q[k] : k \in 1 .. Len(q)}
    BY <2>1, WalkIsList
  <2>3. /\ \A k \in 1 .. Len(q) : q[k] \in Chunk /\ Loose(q[k])
        /\ Len(q) \in 1 .. Len(q) /\ q[Len(q)] = tail
    BY <2>1, ListParts
  <2>4. \A c \in Chunk : Loose(c) => c \notin InHand
    BY DEF Loose, InHand, GiveInv, SafetyInv, CountInv
  <2>5. \A c \in Chunk : refs[c] = {} /\ c \notin InHand => \E k \in 1 .. Len(q) : q[k] = c
    BY <2>1 DEF IsList
  <2>6. \A c \in Chunk : Loose(c) => refs[c] = {}
    BY DEF Loose
  <2> HIDE DEF Chunk, Loose, InHand
  <2> QED BY <2>2, <2>3, <2>4, <2>5, <2>6 DEF FreeListComplete
<1> QED BY <1>1, GiveCorrect, PTL

=============================================================================
